SPECIFICATION listSpec
CONSTANT Elems = {1, 2, 3}
INVARIANT FirstIffLast
