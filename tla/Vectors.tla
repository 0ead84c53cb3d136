------------------------------ MODULE Vectors ------------------------------
(***************************************************************************)
(* The growing vectors of src/core/vector.c, vector-aligned.c and the VEC  *)
(* macros, byte by byte: an aligned vector that outgrows its memory copies *)
(* as many bytes as it has elements, and resizing clears as many bytes as  *)
(* it adds elements.  An element is ESize equal bytes.  Allocation         *)
(* succeeds (the code aborts otherwise).                                   *)
(***************************************************************************)
EXTENDS Integers, Sequences

CONSTANTS
  VData,    \* the bytes clients store, without 0
  ESizes,   \* possible sizes of an element
  VGrow,    \* what extend adds to alloc_size (10 in the code)
  VMax      \* bound on the size of the vector

ASSUME VectorAssumption ==
  /\ VData \subseteq Nat \ {0} /\ ESizes \subseteq Nat \ {0}
  /\ VGrow \in Nat \ {0} /\ VMax \in Nat

VARIABLES
  element_size,   \* 0 before the vector is initialised
  aligned,        \* it is a vms_vector_aligned
  vec,            \* its mem, size and alloc_size
  want,           \* history: the elements it should hold, 0 for one added by resize
  copied          \* history: vector-aligned.c moved it while it was not empty

vectorVars == <<element_size, aligned, vec, want, copied>>

Wild == -1        \* a byte that was not written

vectorInit ==
  /\ element_size = 0 /\ aligned = FALSE
  /\ vec = [mem |-> <<>>, size |-> 0, alloc |-> 0]
  /\ want = <<>> /\ copied = FALSE

\* vms_vector_init, vms_vector_aligned_init or VEC_INIT.
vector_init(e, a) ==
  /\ element_size = 0
  /\ element_size' = e /\ aligned' = a
  /\ UNCHANGED <<vec, want, copied>>

-----------------------------------------------------------------------------

\* The memory enlarged to n elements: realloc keeps all of it, the aligned
\* allocation and memcpy keep the first vec.size bytes.
grown(n) ==
  LET kept == IF aligned THEN vec.size ELSE Len(vec.mem)
  IN  [vec EXCEPT
        !.alloc = n,
        !.mem = [i \in 1..(n * element_size) |->
                   IF i <= kept THEN vec.mem[i] ELSE Wild]]

\* The bytes of m from first + 1 to first + n set to b.
set_bytes(m, first, n, b) ==
  [i \in DOMAIN m |-> IF i > first /\ i <= first + n THEN b ELSE m[i]]

\* Mutant: the vector is enlarged one element too late.
full_Late == vec.size > vec.alloc

full == vec.size >= vec.alloc

\* vms_vector_push, vms_vector_aligned_push and VEC_PUSH: extend and copy.
vector_push(d) ==
  LET x == IF full THEN grown(vec.alloc + VGrow) ELSE vec
  IN  /\ element_size > 0 /\ vec.size < VMax
      /\ vec' = [x EXCEPT
           !.size = vec.size + 1,
           !.mem = set_bytes(x.mem, vec.size * element_size, element_size, d)]
      /\ want' = Append(want, d)
      /\ copied' = (copied \/ (full /\ aligned /\ vec.size > 0))
      /\ UNCHANGED <<element_size, aligned>>

vector_pop ==
  /\ vec.size > 0
  /\ vec' = [vec EXCEPT !.size = vec.size - 1]
  /\ want' = SubSeq(want, 1, vec.size - 1)
  /\ UNCHANGED <<element_size, aligned, copied>>

\* Resizing only enlarges, and clears n - size bytes after the old elements,
\* whatever the size of an element.
vector_resize(n) ==
  LET x == IF n >= vec.alloc THEN grown(n) ELSE vec
  IN  /\ element_size > 0 /\ n > vec.size
      /\ vec' = [x EXCEPT
           !.size = n,
           !.mem = set_bytes(x.mem, vec.size * element_size, n - vec.size, 0)]
      /\ want' = [i \in 1..n |-> IF i <= vec.size THEN want[i] ELSE 0]
      /\ copied' = (copied \/ (n >= vec.alloc /\ aligned /\ vec.size > 0))
      /\ UNCHANGED <<element_size, aligned>>

vectorNext ==
  \/ \E e \in ESizes, a \in BOOLEAN : vector_init(e, a)
  \/ \E d \in VData : vector_push(d)
  \/ vector_pop
  \/ \E n \in 1..VMax : vector_resize(n)

vectorSpec == vectorInit /\ [][vectorNext]_vectorVars

-----------------------------------------------------------------------------

\* The bytes of element i, counted from 1: vms_vector_at, at_checked and top.
element_at(i) ==
  { vec.mem[k] : k \in ((i - 1) * element_size + 1)..(i * element_size) }

\* A vector stays inside its memory and holds what was pushed into it, across
\* growth and resizing; the elements that resizing adds are 0 if an element
\* is one byte.  An aligned vector with longer elements keeps them until it
\* first outgrows memory in use.
VectorRight ==
  /\ vec.size <= vec.alloc /\ Len(vec.mem) = vec.alloc * element_size
  /\ (element_size = 1 \/ ~copied) =>
       \A i \in 1..vec.size :
         (want[i] # 0 \/ element_size = 1) => element_at(i) = {want[i]}

\* vector.h on resize: "all elements on indices [0, size) are either written
\* or 0'ed".  The elements resizing added, in a vector that was never moved
\* by vector-aligned.c, are 0.  (Violated: memset is given a number of
\* elements where it takes bytes.)
ResizeZeroed ==
  ~copied => \A i \in 1..vec.size : want[i] = 0 => element_at(i) = {0}

\* vector-aligned.h: the aligned vector is a "vms_vector that allocates
\* aligned memory", so what was pushed stays in it when memory is enlarged.
\* (Violated: memcpy is given a number of elements where it takes bytes,
\* which shamon's vector of arbiter buffers meets with its eleventh stream.)
ContentsKept ==
  \A i \in 1..vec.size : want[i] # 0 => element_at(i) = {want[i]}

=============================================================================
