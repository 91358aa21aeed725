---------------------------- MODULE MCConfigure ----------------------------
(***************************************************************************)
(* Options for Configure.  Ids and counts have three bits here (-4 .. 3),  *)
(* so that 8 is 0 once more.  Texts for QSpec: all of up to five symbols,  *)
(* all in which up to six fields and single delimiters take turns, and     *)
(* three groups with every choice of faults.                               *)
(***************************************************************************)
EXTENDS Configure, SequencesExt

MCGarbage == -1

MCInputOptions ==
  {[port |-> p, cpus |-> "none"] : p \in {0, 1, Bad}} \cup {[port |-> 1, cpus |-> "wrong"]}

SomeOutput == [id |-> 0, size |-> 1, len |-> 1, peer |-> TRUE, cpus |-> "none"]

MCOutputOptions ==
  {[SomeOutput EXCEPT !.id = x] : x \in {-1, 0, 8, Bad}}
    \cup {[SomeOutput EXCEPT !.size = x, !.len = n] : x \in {0, 2, 5}, n \in {0, 1, 2, 3}}
    \cup {[SomeOutput EXCEPT !.size = Bad], [SomeOutput EXCEPT !.len = Bad],
          [SomeOutput EXCEPT !.peer = FALSE], [SomeOutput EXCEPT !.cpus = "list"]}

Group(c, s, n) == <<c, Colon, s, Colon, n>>

SomeWorker == [id |-> 0, func |-> "good", spec |-> Group(1, 1, 1), out |-> None,
               cpus |-> "none"]

To(x, y, q) == [SomeWorker EXCEPT !.out = [oid |-> x, owid |-> y, qid |-> q]]

\* Some fields with single delimiters between them
Texts(fields, n) ==
  {[p \in 1 .. 2 * n - 1 |-> IF p % 2 = 1 THEN f[(p + 1) \div 2] ELSE d[p \div 2]] :
     f \in [1 .. n -> fields], d \in [1 .. n - 1 -> {Colon, Comma}]}

\* Groups of all sizes, counts that overflow, up to four fields with faults and
\* delimiters anywhere, and two groups with faults
MCSpecs ==
  {Group(1, s, n) : s \in 0 .. MaxData, n \in 0 .. MaxQLen}
    \cup {Group(c, 0, 1) \o <<Comma>> \o Group(d, 1, 1) : c, d \in {-1, 0, 1, 2, 3, 5, 8}}
    \cup {Group(3, 0, 1) \o <<Comma>> \o Group(3, 0, 1) \o <<Comma>> \o Group(2, 0, 1)}
    \cup UNION {Texts({2, Bad}, n) : n \in 1 .. 4}
    \cup SeqOf({1, Colon, Comma}, 4)
    \cup {Group(a, 2, 1) \o <<Comma>> \o Group(1, b, c) : a, b, c \in {1, Bad}}

MCWorkerOptions ==
  {[SomeWorker EXCEPT !.spec = s] : s \in MCSpecs}
    \cup {[SomeWorker EXCEPT !.id = x] : x \in {-1, 1, 8, Bad}}
    \cup {[SomeWorker EXCEPT !.func = "noSymbol"]}
    \cup {To(x, y, q) : x \in {-1, 0, 1, 8, Bad}, y \in {0, 7, Bad}, q \in {0, 2, 3, 8}}
    \cup {[To(0, 0, 0) EXCEPT !.cpus = "wrong"], To(0, 0, Bad)}
=============================================================================
