--------------------------- MODULE SourceControl ---------------------------
(***************************************************************************)
(* The table of a source's events (core/source.c), made by                 *)
(* vms_source_control_define_str from a string such as "open:i,close:ii";  *)
(* the registration of the events a reader wants, which gives them their   *)
(* kinds (shmbuf/buffer.c); and the reader's lookup of an event by its     *)
(* kind, with a cache (core/stream.c).                                     *)
(*                                                                         *)
(* A record is kept as the positions of its name and its signature in the  *)
(* string.  Names and signatures fit their arrays.                         *)
(***************************************************************************)
EXTENDS Integers, Sequences, FiniteSets

CONSTANTS Letters,      \* the characters besides ':' and ','
          OpTypes,      \* those that stand for the type of an operand
          MaxLen,       \* bound: the length of the string
          Kinds,        \* the kinds a reader registers
          LastSpecial,  \* vms_event_get_last_special_kind
          CacheSize,    \* MAX_EVENTS_CACHE_SIZE
          LateRegistration  \* events are registered also after the first lookup

\* The characters that the format gives a meaning.
Colon == ":"
Comma == ","

ASSUME ControlAssumption ==
  /\ Colon \notin Letters /\ Comma \notin Letters /\ OpTypes \subseteq Letters
  /\ MaxLen \in Nat /\ LateRegistration \in BOOLEAN
  /\ Kinds \subseteq Nat \ {0}   \* 0: the event is not registered
  /\ LastSpecial \in Nat /\ CacheSize \in Nat

VARIABLES
  str,                    \* the argument of define_str
  scpc,                   \* where it is, and the phases after it
  records,                \* the records: their start, colon and end in str
  n_start, n_end, s_end,  \* the locals of define_str
  kinds,                  \* kinds[i]: the kind in record i
  cache,                  \* events_cache: kind -> record, or no function
  found                   \* the last lookup since then: the kind and the record

parseVars == <<str, records, n_start, n_end, s_end>>
lookupVars == <<kinds, cache, found>>
controlVars == <<parseVars, scpc, lookupVars>>

NoCache == << >>
NoLookup == [kind |-> 0, rec |-> 0]
Garbage == -1

Strings == UNION {[1..n -> Letters \cup {Colon, Comma}] : n \in 0..MaxLen}

Count(ch) == Cardinality({i \in DOMAIN str : str[i] = ch})

\* strchr from a position on; 0 is NULL, and the end is Len(str) + 1.
strchr(from, ch) ==
  IF \E i \in from..Len(str) : str[i] = ch
  THEN CHOOSE i \in from..Len(str) :
         str[i] = ch /\ \A j \in from..(i - 1) : str[j] # ch
  ELSE 0

End == Len(str) + 1
ev_nums == Count(Colon)

controlInit ==
  /\ str = << >> /\ scpc = "input" /\ records = << >>
  /\ n_start = 0 /\ n_end = 0 /\ s_end = 0
  /\ kinds = << >> /\ cache = NoCache /\ found = NoLookup

-----------------------------------------------------------------------------
(* vms_source_control_define_str.                                          *)

input(s) ==
  /\ scpc = "input" /\ s \in Strings
  /\ str' = s /\ scpc' = "count"
  /\ UNCHANGED <<records, n_start, n_end, s_end, lookupVars>>

\* As many commas as colons, or one less.
count_events ==
  /\ scpc = "count"
  /\ scpc' = IF ev_nums > 0 /\ ev_nums \in {Count(Comma), Count(Comma) + 1}
             THEN "first" ELSE "error"
  /\ UNCHANGED <<parseVars, lookupVars>>

\* Find the name from ns on and the signature after it.  Only the last event,
\* number ev_nums, may end with the string; i events came before.
find_event(ns, i) ==
  LET ne == strchr(ns, Colon)
      se == strchr(ne + 1, Comma)
  IN  IF ne = 0 \/ (se = 0 /\ i # ev_nums - 1)
      THEN scpc' = "error" /\ UNCHANGED <<n_start, n_end, s_end>>
      ELSE /\ n_start' = ns /\ n_end' = ne
           /\ s_end' = IF se = 0 THEN End ELSE se
           /\ scpc' = IF i = ev_nums THEN "defined" ELSE "record"

first_event ==
  /\ scpc = "first"
  /\ find_event(1, 0)
  /\ UNCHANGED <<str, records, lookupVars>>

\* signature_op_get_size, called by init_record, aborts on a character that is
\* not the type of an operand.
init_record_abort ==
  /\ scpc = "record" /\ \E i \in (n_end + 1)..(s_end - 1) : str[i] \notin OpTypes
  /\ scpc' = "aborted"
  /\ UNCHANGED <<parseVars, lookupVars>>

\* Mutant: the characters of the signature are not looked at.
init_record_AnySig ==
  /\ scpc = "record"
  /\ records' = Append(records, [n |-> n_start, colon |-> n_end, end |-> s_end])
  /\ kinds' = Append(kinds, 0)
  /\ IF s_end = End \/ s_end + 1 = End
     THEN scpc' = "defined" /\ UNCHANGED <<n_start, n_end, s_end>>
     ELSE find_event(s_end + 1, Len(records'))
  /\ UNCHANGED <<str, cache, found>>

init_record ==
  /\ scpc = "record" /\ \A i \in (n_end + 1)..(s_end - 1) : str[i] \in OpTypes
  /\ records' = Append(records, [n |-> n_start, colon |-> n_end, end |-> s_end])
  /\ kinds' = Append(kinds, 0)
  /\ IF s_end = End \/ s_end + 1 = End
     THEN scpc' = "defined" /\ UNCHANGED <<n_start, n_end, s_end>>
     ELSE find_event(s_end + 1, Len(records'))
  /\ UNCHANGED <<str, cache, found>>

-----------------------------------------------------------------------------
(* Registration and lookup.                                                *)

Name(i) == SubSeq(str, records[i].n, records[i].colon - 1)

\* vms_source_control_get_event: the first record with the name.
get_event(name) ==
  CHOOSE i \in DOMAIN records :
    Name(i) = name /\ \A j \in 1..(i - 1) : Name(j) # name

Registered(kind) == \E i \in DOMAIN kinds : kinds[i] = kind

\* When a reader registers events: before it looks one up, or at any time.
MayRegister == scpc = "defined" /\ (cache = NoCache \/ LateRegistration)

register_event(i, kind) ==
  /\ MayRegister /\ i \in DOMAIN records
  /\ kinds' = [kinds EXCEPT ![get_event(Name(i))] = kind]
  /\ found' = NoLookup
  /\ UNCHANGED <<parseVars, scpc, cache>>

register_all_events ==
  /\ MayRegister
  /\ kinds' = [i \in DOMAIN kinds |-> i + LastSpecial]
  /\ found' = NoLookup
  /\ UNCHANGED <<parseVars, scpc, cache>>

MaxKind ==
  LET ks == {kinds[i] : i \in DOMAIN kinds}
  IN  CHOOSE k \in ks : \A l \in ks : l <= k

\* Mutant: the cache has no place for the largest kind.
CacheTop_Short == (IF MaxKind > CacheSize THEN CacheSize ELSE MaxKind) - 1

\* The largest index of the cache.
CacheTop == IF MaxKind > CacheSize THEN CacheSize ELSE MaxKind

\* The loop that fills the cache meets the last record with a kind last.
LastRecord(kind) ==
  CHOOSE i \in DOMAIN kinds :
    kinds[i] = kind /\ \A j \in (i + 1)..Len(kinds) : kinds[j] # kind

\* A kind without a record has whatever malloc left there.
NewCache ==
  [k \in 0..CacheTop |-> IF Registered(k) THEN LastRecord(k) ELSE Garbage]

get_event_record_no_cache(kind) ==
  CHOOSE i \in DOMAIN kinds :
    kinds[i] = kind /\ \A j \in 1..(i - 1) : kinds[j] # kind

\* The first lookup fills the cache, later ones use it for small kinds; a
\* place beyond its end holds anything.
get_event_record(kind) ==
  /\ scpc = "defined" /\ Registered(kind)
  /\ found' = [kind |-> kind,
               rec |-> CASE cache = NoCache -> LastRecord(kind)
                         [] cache # NoCache /\ kind >= CacheSize ->
                              get_event_record_no_cache(kind)
                         [] cache # NoCache /\ kind < CacheSize ->
                              IF kind \in DOMAIN cache THEN cache[kind]
                              ELSE Garbage]
  /\ cache' = IF cache = NoCache THEN NewCache ELSE cache
  /\ UNCHANGED <<parseVars, scpc, kinds>>

\* The string was refused.
refused == scpc \in {"error", "aborted"} /\ UNCHANGED controlVars

controlNext ==
  \/ \E s \in Strings : input(s)
  \/ count_events \/ first_event \/ init_record_abort \/ init_record
  \/ \E i \in 1..MaxLen, kind \in Kinds : register_event(i, kind)
  \/ register_all_events
  \/ \E kind \in Kinds : get_event_record(kind)
  \/ refused

controlSpec == controlInit /\ [][controlNext]_controlVars

-----------------------------------------------------------------------------
(* Properties.                                                             *)

\* The parts between the commas; an empty one at the end does not count.
Bounds == {0, End} \cup {i \in DOMAIN str : str[i] = Comma}
Parts ==
  {p \in Bounds \X Bounds :
     /\ p[1] < p[2] /\ \A c \in Bounds : ~(p[1] < c /\ c < p[2])
     /\ ~(p[2] = End /\ p[1] + 1 = p[2] /\ p[1] > 0)}

\* What the format means: between commas, each part has exactly one colon, and
\* the types of operands after it.
WellFormed ==
  \A p \in Parts :
    /\ Cardinality({i \in (p[1] + 1)..(p[2] - 1) : str[i] = Colon}) = 1
    /\ \A i, j \in (p[1] + 1)..(p[2] - 1) :
         i < j /\ str[i] = Colon => str[j] \in OpTypes

\* A string in the format is accepted, and its parts are the records.
ParsesFormat ==
  WellFormed /\ scpc \notin {"input", "count", "first", "record"} =>
    /\ scpc = "defined"
    /\ Parts = {<<records[i].n - 1, records[i].end>> : i \in DOMAIN records}

\* Whatever is accepted, every record of the allocated table is filled, and the
\* records cover the string from its beginning to its end in order, so that
\* nothing is skipped or used twice (a name may contain commas).
RecordsTile ==
  scpc = "defined" =>
    /\ Len(records) = ev_nums /\ records[1].n = 1
    /\ \A i \in DOMAIN records :
         /\ str[records[i].colon] = Colon
         /\ IF i < Len(records) THEN records[i + 1].n = records[i].end + 1
            ELSE records[i].end \in {End - 1, End}

\* The table is what the string says.
TableRight == ParsesFormat /\ RecordsTile

\* With or without the cache, at its limit and beyond, a lookup finds an event
\* that is registered with the kind; vms_stream_get_event_record asserts as
\* much of what it takes from the cache.  (Violated if events are registered
\* after the first lookup: the cache is never filled again.)
LookupRight ==
  found.kind # 0 => found.rec \in DOMAIN kinds /\ kinds[found.rec] = found.kind

=============================================================================
