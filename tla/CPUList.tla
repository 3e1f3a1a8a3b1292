------------------------------ MODULE CPUList -------------------------------
(***************************************************************************)
(* pkg/tuning/cpulist.go: lists of CPUs, the operations the planner builds *)
(* its slices with, their text form, which goes to the kernel, to the      *)
(* wrapper commands and to the victim, and the two parsers that read it    *)
(* back.                                                                   *)
(*                                                                         *)
(* A text is a sequence of the parts between its commas; a part is what    *)
(* the code tells apart.  One caller works on one list at a time.          *)
(***************************************************************************)
EXTENDS Integers, Sequences, FiniteSets, Functions

CONSTANTS
  NCPU,      \* CPUs are 0..NCPU-1
  MaxParts   \* bound on the parts of a text that is given

ASSUME SizeAssumption == NCPU \in Nat \ {0} /\ MaxParts \in Nat

Index == 0..NCPU - 1

\* The elements of a set in ascending order.
Ints(S) ==
  [j \in 1..Cardinality(S) |-> CHOOSE c \in S : Cardinality({d \in S : d < c}) = j - 1]

\* The lists the program makes: sorted and without duplicates.
Lists == {Ints(S) : S \in SUBSET Index}

-----------------------------------------------------------------------------
(* Parts.  "one" is a number, "-1" included; in "range" the text before the *)
(* first dash is never negative, the one behind it may be.                  *)

Part ==
  [kind : {"blank", "bad"}, lo : {0}, hi : {0}]
    \cup {p \in [kind : {"one"}, lo : -1..NCPU - 1, hi : -1..NCPU - 1] : p.lo = p.hi}
    \cup [kind : {"range"}, lo : Index, hi : -1..NCPU - 1]

One(c) == [kind |-> "one", lo |-> c, hi |-> c]
Span(lo, hi) == [kind |-> "range", lo |-> lo, hi |-> hi]

\* A bad number or range, a reverse range, a negative CPU.
Malformed(p) ==
  \/ p.kind = "bad"
  \/ p.kind = "range" /\ p.lo > p.hi
  \/ p.kind = "one" /\ p.lo < 0

\* Reference: the CPUs a part stands for.
Denotes(p) == IF p.kind \in {"one", "range"} /\ ~Malformed(p) THEN p.lo..p.hi ELSE {}
Meaning(t) == UNION {Denotes(t[k]) : k \in DOMAIN t}

-----------------------------------------------------------------------------
(* The operations on lists *)

\* sort.Ints: the places before the k-th in the sorted list.
Before(l, k) == {m \in DOMAIN l : l[m] < l[k] \/ (l[m] = l[k] /\ m < k)}

sortInts(l) ==
  [j \in DOMAIN l |-> l[CHOOSE k \in DOMAIN l : Cardinality(Before(l, k)) = j - 1]]

\* The elements of l that are in S, in the order of l.
Kept(l, S) ==
  LET places == Ints({k \in DOMAIN l : l[k] \in S})
  IN  [j \in DOMAIN places |-> l[places[j]]]

ContainsCPU(l, c) == \E k \in DOMAIN l : l[k] = c

Intersect(l, other) == sortInts(Kept(l, {c \in Range(l) : ContainsCPU(other, c)}))

Difference(l, other) == sortInts(Kept(l, {c \in Range(l) : ~ContainsCPU(other, c)}))

Union(l, other) == Ints(Range(l) \cup Range(other))

\* Take: the first n CPUs, and the rest.
Taken(l, n) ==
  IF n <= 0 THEN << >> ELSE IF n >= Len(l) THEN sortInts(l) ELSE SubSeq(sortInts(l), 1, n)

Remaining(l, n) ==
  IF n <= 0 THEN l ELSE IF n >= Len(l) THEN << >> ELSE SubSeq(sortInts(l), n + 1, Len(l))

-----------------------------------------------------------------------------
VARIABLES
  call,   \* "idle", "render", "parse" or "error"
  list,   \* the caller's list
  meant,  \* history: the set the list should stand for
  text,   \* the text being built or read
  given,  \* the text was given, and not made by String
  pos,    \* the position in list or in text
  start,  \* String: the first CPU of the range being built
  prev,   \* and the last
  seen    \* ParseCPUList

listVars == <<call, list, meant, text, given, pos, start, prev, seen>>

ListInit ==
  /\ call = "idle"
  /\ list \in Lists /\ meant = Range(list)
  /\ text = << >> /\ given = FALSE
  /\ pos = 1 /\ start = 0 /\ prev = 0 /\ seen = {}

\* The locals of String and ParseCPUList go out of scope.
Local ==
  /\ text' = << >> /\ given' = FALSE
  /\ pos' = 1 /\ start' = 0 /\ prev' = 0 /\ seen' = {}

Operate ==
  /\ call = "idle"
  /\ \/ \E other \in Lists :
          \/ list' = Intersect(list, other) /\ meant' = meant \cap Range(other)
          \/ list' = Difference(list, other) /\ meant' = meant \ Range(other)
          \/ list' = Union(list, other) /\ meant' = meant \cup Range(other)
     \/ \E n \in 0..NCPU :
          LET first == {c \in meant : Cardinality({d \in meant : d < c}) < n}
          IN  \/ list' = Taken(list, n) /\ meant' = first
              \/ list' = Remaining(list, n) /\ meant' = meant \ first
  /\ UNCHANGED <<call, text, given, pos, start, prev, seen>>

-----------------------------------------------------------------------------
(* String *)

\* The text of the range being built.
Flushed == Append(text, IF start = prev THEN One(start) ELSE Span(start, prev))

RenderEmpty ==
  /\ call = "idle" /\ list = << >>
  /\ call' = "parse"
  /\ UNCHANGED <<list, meant, text, given, pos, start, prev, seen>>

Render ==
  /\ call = "idle" /\ list # << >>
  /\ start' = sortInts(list)[1] /\ prev' = sortInts(list)[1]
  /\ pos' = 2
  /\ call' = "render"
  /\ UNCHANGED <<list, meant, text, given, seen>>

\* The range grows by the next CPU.
Extend ==
  /\ call = "render" /\ pos <= Len(list)
  /\ sortInts(list)[pos] = prev + 1
  /\ prev' = sortInts(list)[pos]
  /\ pos' = pos + 1
  /\ UNCHANGED <<call, list, meant, text, given, start, seen>>

\* A gap: the range is written and a new one begins.
Break ==
  /\ call = "render" /\ pos <= Len(list)
  /\ sortInts(list)[pos] # prev + 1
  /\ text' = Flushed
  /\ start' = sortInts(list)[pos] /\ prev' = sortInts(list)[pos]
  /\ pos' = pos + 1
  /\ UNCHANGED <<call, list, meant, given, seen>>

\* The last range is written; the text is read back.
RenderDone ==
  /\ call = "render" /\ pos > Len(list)
  /\ text' = Flushed
  /\ call' = "parse" /\ pos' = 1 /\ start' = 0 /\ prev' = 0
  /\ UNCHANGED <<list, meant, given, seen>>

-----------------------------------------------------------------------------
(* ParseCPUList *)

\* A text from a profile, a flag or /proc.
Given ==
  /\ call = "idle"
  /\ \E n \in 0..MaxParts : \E t \in [1..n -> Part] : text' = t /\ meant' = Meaning(t)
  /\ given' = TRUE
  /\ call' = "parse" /\ list' = << >>
  /\ UNCHANGED <<pos, start, prev, seen>>

ParseBlank ==
  /\ call = "parse" /\ pos <= Len(text)
  /\ text[pos].kind = "blank"
  /\ pos' = pos + 1
  /\ UNCHANGED <<call, list, meant, text, given, start, prev, seen>>

\* Mutant: the last CPU of a range is left out.
ParsePartShort ==
  /\ call = "parse" /\ pos <= Len(text)
  /\ text[pos].kind \in {"one", "range"} /\ ~Malformed(text[pos])
  /\ seen' = seen \cup (IF text[pos].kind = "one" THEN {text[pos].lo}
                         ELSE text[pos].lo..(text[pos].hi - 1))
  /\ pos' = pos + 1
  /\ UNCHANGED <<call, list, meant, text, given, start, prev>>

ParsePart ==
  /\ call = "parse" /\ pos <= Len(text)
  /\ text[pos].kind \in {"one", "range"} /\ ~Malformed(text[pos])
  /\ seen' = seen \cup (IF text[pos].kind = "one" THEN {text[pos].lo}
                         ELSE text[pos].lo..text[pos].hi)
  /\ pos' = pos + 1
  /\ UNCHANGED <<call, list, meant, text, given, start, prev>>

\* The first malformed part ends it with an error and no list.
ParseFails ==
  /\ call = "parse" /\ pos <= Len(text)
  /\ Malformed(text[pos])
  /\ call' = "error"
  /\ UNCHANGED <<list, meant, text, given, pos, start, prev, seen>>

ParseDone ==
  /\ call = "parse" /\ pos > Len(text)
  /\ list' = Ints(seen)
  /\ call' = "idle" /\ Local
  /\ UNCHANGED meant

ListNext ==
  \/ Operate
  \/ RenderEmpty \/ Render \/ Extend \/ Break \/ RenderDone
  \/ Given \/ ParseBlank \/ ParsePart \/ ParseFails \/ ParseDone

ListSpec == ListInit /\ [][ListNext]_listVars

-----------------------------------------------------------------------------
(* parseCPUSet, the victim's own parser, on a text that String has written: *)
(* its CPUs in the order of the text, neither sorted nor deduplicated.      *)

\* Mutant: the last CPU of a range is left out.
ExpandedShort(p) ==
  IF p.kind = "one" THEN <<p.lo>> ELSE [j \in 1..(p.hi - p.lo) |-> p.lo + j - 1]

Expanded(p) ==
  IF p.kind = "one" THEN <<p.lo>> ELSE [j \in 1..(p.hi - p.lo + 1) |-> p.lo + j - 1]

\* out[k] is what the first k parts are appended to.
parseCPUSet(t) ==
  LET out[k \in 0..Len(t)] == IF k = 0 THEN << >> ELSE out[k - 1] \o Expanded(t[k])
  IN  out[Len(t)]

-----------------------------------------------------------------------------
(* Properties *)

\* Whatever sequence of operations, renderings and parsings made it, a list is
\* the set it stands for, sorted and without duplicates; in particular what
\* String writes ParseCPUList reads back (cpulist.go 26-191).  This is what
\* Planner relies on when it works with sets.
ListIsSet == call = "idle" => list = Ints(meant)

\* The victim reads from --pinning-cpus the list the launcher has rendered,
\* though with a parser of its own (chaos-victim/main.go 316-341).
VictimReadsTheSame == (call = "parse" /\ ~given) => parseCPUSet(text) = list
=============================================================================
