------------------------- MODULE SignatureStageProofs -------------------------
(***************************************************************************)
(* The sink gets every event of the signature stage once and a finding     *)
(* after its cause, and when the stage ends it has got everything, for any *)
(* inputs, signatures, policies and capacity of the channels.              *)
(*                                                                         *)
(* The argument: what the engine reports travels through five boxes        *)
(* towards the sink, and a step moves the head of one box to the end of    *)
(* the next, drops it or puts findings in at the start; so no event is in  *)
(* two boxes (Separate).  The findings of an event are new because the     *)
(* event, while it waits for the engine, has none (LineInv), and they come *)
(* after it because it went to the sink before it went to the engine.      *)
(***************************************************************************)
EXTENDS SignatureStage, SequenceTheorems, TLAPS

Ev == [path : Seq(Nat) \ {<< >>}, kind : Kinds]

Elems(c) == {c[i] : i \in 1 .. Len(c)}

Apart(c) == \A i, j \in 1 .. Len(c) : i # j => c[i].path # c[j].path

(* The sink and the way to it.                                             *)
Boxes == <<toSink, engineOutputEvents, converting, engineOutput, emitting>>

Known(B) == UNION {Paths(B[k]) : k \in 1 .. 5}

Held(B) == UNION {Elems(B[k]) : k \in 1 .. 5}

Separate(B) ==
    /\ \A k \in 1 .. 5 : Apart(B[k])
    /\ \A k, l \in 1 .. 5 : k # l => Paths(B[k]) \cap Paths(B[l]) = {}

Closing == {"stop", "converter", "done"}

SigTyped ==
    /\ toSink \in Seq(Ev) /\ engineOutputEvents \in Seq(Ev) /\ converting \in Seq(Ev)
    /\ engineOutput \in Seq(Ev) /\ emitting \in Seq(Ev)
    /\ engineInput \in Seq(Ev) /\ feeding \in Seq(Ev)
    /\ Len(feeding) <= 1 /\ Len(converting) <= 1
    /\ fetched \in 0 .. Len(SigInputs)
    /\ stage \in {"select", "drain"} \cup Closing
    /\ engine \in {"running", "signalled", "done"}
    /\ converter \in {"running", "done"}

(* The order of the shutdown.                                              *)
Phases ==
    /\ stage # "select" => fetched = Len(SigInputs)
    /\ stage \in Closing => feeding = << >>
    /\ engine # "running" => stage \in Closing /\ engineInput = << >>
    /\ engine = "done" => emitting = << >>
    /\ stage \in {"converter", "done"} => engine = "done"
    /\ converter = "done" => /\ engineOutput = << >> /\ converting = << >>
                             /\ stage \in {"converter", "done"}
    /\ stage = "done" => converter = "done" /\ engineOutputEvents = << >>

(* Paths tell events apart.  An event that waits for the engine has gone   *)
(* to the sink and nothing was reported for it yet.                        *)
Waiting == Paths(engineInput) \cup Paths(feeding)

LineInv ==
    /\ Separate(Boxes)
    /\ Apart(engineInput) /\ Paths(engineInput) \cap Paths(feeding) = {}
    /\ \A w \in Waiting : /\ w \in Paths(toSink) /\ w[1] # 0
                          /\ \A q \in Known(Boxes) : Len(q) > 1 => Parent(q) # w
    /\ \A q \in Known(Boxes) : /\ Len(q) > 1 /\ q[1] # 0 => Parent(q) \in Paths(toSink)
                               /\ Len(q) = 1 => q[1] \in 1 .. fetched
                               /\ q[1] = 0 => engine # "running"

(* A finding in the sink comes after its cause.                            *)
CauseInv ==
    \A i \in 1 .. Len(toSink) :
        LET p == toSink[i].path IN
        Len(p) > 1 /\ p[1] # 0 => Parent(p) \in Paths(SubSeq(toSink, 1, i - 1))

(* What was reported and is to be forwarded is still on its way.           *)
WholeInv ==
    /\ \A n \in 1 .. fetched : SigInputs[n] \in Proto \cup Submit => <<n>> \in Paths(toSink)
    /\ \A e \in fed : \/ e \in Elems(engineInput)
                      \/ \A f \in Reported(e) : f.kind \in Submit => f \in Held(Boxes)
    /\ engine # "running" =>
          \A i \in 1 .. Len(FinalFindings) : FinalFindings[i] \in Kept =>
              SigEvent(<<0, i>>, FinalFindings[i]) \in Held(Boxes)

SigInv == SigTyped /\ Phases /\ LineInv /\ CauseInv /\ WholeInv

-----------------------------------------------------------------------------
(* Sequences of events, and steps of the boxes.                            *)

(* A channel that is received from.                                        *)
LEMMA TailBox ==
    ASSUME NEW c \in Seq(Ev), c # << >>, Apart(c)
    PROVE  /\ Tail(c) \in Seq(Ev) /\ Head(c) \in Ev /\ Apart(Tail(c))
           /\ Head(c).path \in Paths(c) /\ Head(c).path \notin Paths(Tail(c))
           /\ Paths(c) = Paths(Tail(c)) \cup {Head(c).path}
           /\ Elems(c) = Elems(Tail(c)) \cup {Head(c)}
<1>1. /\ Tail(c) \in Seq(Ev) /\ Head(c) \in Ev /\ Head(c) = c[1]
      /\ Len(c) \in Nat /\ 1 \in 1 .. Len(c) /\ Len(Tail(c)) = Len(c) - 1
  OBVIOUS
<1>2. \A i \in 1 .. Len(Tail(c)) : Tail(c)[i] = c[i + 1] /\ i + 1 \in 1 .. Len(c) /\ i + 1 # 1
  BY <1>1
<1>3. \A i \in 1 .. Len(c) : i = 1 \/ (i - 1 \in 1 .. Len(Tail(c)) /\ Tail(c)[i - 1] = c[i])
  BY <1>1
<1>4. Apart(Tail(c))
  <2> SUFFICES ASSUME NEW i \in 1 .. Len(Tail(c)), NEW j \in 1 .. Len(Tail(c)), i # j
               PROVE  Tail(c)[i].path # Tail(c)[j].path
    BY DEF Apart
  <2>1. i + 1 # j + 1
    BY <1>1
  <2> QED
    BY <1>2, <2>1 DEF Apart
<1>5. Head(c).path \in Paths(c)
  BY <1>1 DEF Paths
<1>6. Head(c).path \notin Paths(Tail(c))
  BY <1>1, <1>2 DEF Paths, Apart
<1>7. Paths(c) = Paths(Tail(c)) \cup {Head(c).path}
  <2>1. ASSUME NEW p \in Paths(c) PROVE p \in Paths(Tail(c)) \cup {Head(c).path}
    BY <2>1, <1>1, <1>3 DEF Paths
  <2>2. ASSUME NEW p \in Paths(Tail(c)) PROVE p \in Paths(c)
    BY <2>2, <1>2 DEF Paths
  <2> QED
    BY <2>1, <2>2, <1>5
<1>8. Elems(c) = Elems(Tail(c)) \cup {Head(c)}
  <2>1. ASSUME NEW p \in Elems(c) PROVE p \in Elems(Tail(c)) \cup {Head(c)}
    BY <2>1, <1>1, <1>3 DEF Elems
  <2>2. ASSUME NEW p \in Elems(Tail(c)) PROVE p \in Elems(c)
    BY <2>2, <1>2 DEF Elems
  <2>3. Head(c) \in Elems(c)
    BY <1>1 DEF Elems
  <2> QED
    BY <2>1, <2>2, <2>3
<1> QED
  BY <1>1, <1>4, <1>5, <1>6, <1>7, <1>8

(* A channel that is sent to.                                              *)
LEMMA AppendBox ==
    ASSUME NEW c \in Seq(Ev), NEW e \in Ev
    PROVE  /\ Append(c, e) \in Seq(Ev)
           /\ Paths(Append(c, e)) = Paths(c) \cup {e.path}
           /\ Elems(Append(c, e)) = Elems(c) \cup {e}
           /\ Apart(c) /\ e.path \notin Paths(c) => Apart(Append(c, e))
<1> DEFINE d == Append(c, e)
<1>1. d \in Seq(Ev) /\ Len(c) \in Nat /\ Len(d) = Len(c) + 1 /\ d[Len(d)] = e
  OBVIOUS
<1>2. \A i \in 1 .. Len(c) : d[i] = c[i] /\ i \in 1 .. Len(d)
  BY <1>1
<1>3. \A i \in 1 .. Len(d) : i \in 1 .. Len(c) \/ i = Len(d)
  BY <1>1
<1>4. Len(d) \in 1 .. Len(d)
  BY <1>1
<1> HIDE DEF d
<1>5. Paths(d) = Paths(c) \cup {e.path}
  <2>1. ASSUME NEW p \in Paths(d) PROVE p \in Paths(c) \cup {e.path}
    BY <2>1, <1>1, <1>2, <1>3 DEF Paths
  <2>2. ASSUME NEW p \in Paths(c) PROVE p \in Paths(d)
    BY <2>2, <1>2 DEF Paths
  <2>3. e.path \in Paths(d)
    BY <1>1, <1>4 DEF Paths
  <2> QED
    BY <2>1, <2>2, <2>3
<1>6. Elems(d) = Elems(c) \cup {e}
  <2>1. ASSUME NEW p \in Elems(d) PROVE p \in Elems(c) \cup {e}
    BY <2>1, <1>1, <1>2, <1>3 DEF Elems
  <2>2. ASSUME NEW p \in Elems(c) PROVE p \in Elems(d)
    BY <2>2, <1>2 DEF Elems
  <2>3. e \in Elems(d)
    BY <1>1, <1>4 DEF Elems
  <2> QED
    BY <2>1, <2>2, <2>3
<1>7. ASSUME Apart(c), e.path \notin Paths(c) PROVE Apart(d)
  <2> SUFFICES ASSUME NEW i \in 1 .. Len(d), NEW j \in 1 .. Len(d), i # j
               PROVE  d[i].path # d[j].path
    BY DEF Apart
  <2>1. \A k \in 1 .. Len(c) : c[k].path # e.path
    BY <1>7 DEF Paths
  <2>2. CASE i \in 1 .. Len(c) /\ j \in 1 .. Len(c)
    BY <2>2, <1>2, <1>7 DEF Apart
  <2>3. CASE i = Len(d) /\ j \in 1 .. Len(c)
    BY <2>3, <1>1, <1>2, <2>1, Zenon
  <2>4. CASE j = Len(d) /\ i \in 1 .. Len(c)
    BY <2>4, <1>1, <1>2, <2>1, Zenon
  <2> QED
    BY <1>3, <2>2, <2>3, <2>4
<1> QED
  BY <1>1, <1>5, <1>6, <1>7 DEF d

LEMMA KnownHeld ==
    ASSUME NEW B
    PROVE  /\ \A q : q \in Known(B) <=> \E k \in 1 .. 5 : q \in Paths(B[k])
           /\ \A e : e \in Held(B) <=> \E k \in 1 .. 5 : e \in Elems(B[k])
BY DEF Known, Held

(* The head of one box moves to the end of another.                        *)
LEMMA MoveBox ==
    ASSUME NEW B, NEW C, NEW k \in 1 .. 5, NEW l \in 1 .. 5, k # l,
           \A m \in 1 .. 5 : B[m] \in Seq(Ev), Separate(B),
           B[k] # << >>, C[k] = Tail(B[k]), C[l] = Append(B[l], Head(B[k])),
           \A m \in 1 .. 5 : m # k /\ m # l => C[m] = B[m]
    PROVE  Separate(C) /\ Known(C) = Known(B) /\ Held(C) = Held(B)
<1> DEFINE h == Head(B[k])
<1>1. Apart(B[k]) /\ Apart(B[l]) /\ B[k] \in Seq(Ev) /\ B[l] \in Seq(Ev)
  BY Zenon DEF Separate
<1> DEFINE b == B[k]
<1>a. b \in Seq(Ev) /\ b # << >> /\ Apart(b)
  BY <1>1, Zenon
<1> HIDE DEF b
<1>b. /\ Head(b) \in Ev /\ Apart(Tail(b))
      /\ Head(b).path \in Paths(b) /\ Head(b).path \notin Paths(Tail(b))
      /\ Paths(b) = Paths(Tail(b)) \cup {Head(b).path}
      /\ Elems(b) = Elems(Tail(b)) \cup {Head(b)}
  BY <1>a, TailBox, Zenon
<1>2. /\ h \in Ev /\ Apart(C[k])
      /\ h.path \in Paths(B[k]) /\ h.path \notin Paths(C[k])
      /\ Paths(B[k]) = Paths(C[k]) \cup {h.path}
      /\ Elems(B[k]) = Elems(C[k]) \cup {h}
  BY <1>b, Zenon DEF b
<1>3. Paths(B[k]) \cap Paths(B[l]) = {}
  BY Zenon DEF Separate
<1>4. h.path \notin Paths(B[l])
  BY <1>2, <1>3, Zenon
<1>5. /\ Paths(C[l]) = Paths(B[l]) \cup {h.path}
      /\ Elems(C[l]) = Elems(B[l]) \cup {h}
      /\ Apart(C[l])
  BY <1>1, <1>2, <1>4, AppendBox
<1> HIDE DEF h
<1>6. \A m \in 1 .. 5 : Apart(C[m])
  BY <1>2, <1>5, Zenon DEF Separate
<1>7. ASSUME NEW m \in 1 .. 5, NEW n \in 1 .. 5, m # n, NEW q \in Paths(C[m]), q \in Paths(C[n])
      PROVE  FALSE
  <2>1. \A x, y \in 1 .. 5 : \A p : x # y /\ p \in Paths(B[x]) => p \notin Paths(B[y])
    BY Zenon DEF Separate
  <2>2. \A x \in 1 .. 5 : x # l => \A p : p \in Paths(C[x]) => p \in Paths(B[x])
    BY <1>2, Zenon
  <2>3. CASE m # l /\ n # l
    BY <1>7, <2>1, <2>2, <2>3, Zenon
  <2>4. \A x \in 1 .. 5 : x # l => h.path \notin Paths(C[x])
    <3> SUFFICES ASSUME NEW x \in 1 .. 5, x # l PROVE h.path \notin Paths(C[x])
      OBVIOUS
    <3>1. CASE x = k
      BY <3>1, <1>2, Zenon
    <3>2. CASE x # k
      BY <3>2, <1>2, <2>1, <2>2, Zenon
    <3> QED
      BY <3>1, <3>2, Zenon
  <2>5. \A x \in 1 .. 5 : x # l => \A p : p \in Paths(C[x]) => p \notin Paths(C[l])
    <3> SUFFICES ASSUME NEW x \in 1 .. 5, x # l, NEW p \in Paths(C[x]), p \in Paths(C[l])
                 PROVE  FALSE
      BY Zenon
    <3>1. p # h.path
      BY <2>4, Zenon
    <3>2. p \in Paths(B[x])
      BY <2>2, Zenon
    <3>3. p \notin Paths(B[l])
      BY <2>1, <3>2, Zenon
    <3> QED
      BY <3>1, <3>3, <1>5, Zenon
  <2>6. CASE m = l \/ n = l
    BY <1>7, <2>5, <2>6, Zenon
  <2> QED
    BY <2>3, <2>6, Zenon
<1>8. Separate(C)
  <2>1. \A m, n \in 1 .. 5 : m # n => Paths(C[m]) \cap Paths(C[n]) = {}
    BY <1>7, Zenon
  <2> QED
    BY <1>6, <2>1, Zenon DEF Separate
<1>9. \A q : (\E m \in 1 .. 5 : q \in Paths(C[m])) <=> (\E m \in 1 .. 5 : q \in Paths(B[m]))
  BY <1>2, <1>5, Zenon
<1>10. \A e : (\E m \in 1 .. 5 : e \in Elems(C[m])) <=> (\E m \in 1 .. 5 : e \in Elems(B[m]))
  BY <1>2, <1>5, Zenon
<1>11. \A q : q \in Known(C) <=> q \in Known(B)
  BY <1>9, KnownHeld, Zenon
<1>12. \A e : e \in Held(C) <=> e \in Held(B)
  BY <1>10, KnownHeld, Zenon
<1>13. Known(C) = Known(B) /\ Held(C) = Held(B)
  BY <1>11, <1>12, Zenon
<1> QED
  BY <1>8, <1>13, Zenon

(* The head of a box is dropped.                                           *)
LEMMA DropBox ==
    ASSUME NEW B, NEW C, NEW k \in 1 .. 5,
           \A m \in 1 .. 5 : B[m] \in Seq(Ev), Separate(B),
           B[k] # << >>, C[k] = Tail(B[k]), \A m \in 1 .. 5 : m # k => C[m] = B[m]
    PROVE  /\ Separate(C) /\ Known(C) \subseteq Known(B)
           /\ Held(B) \subseteq Held(C) \cup {Head(B[k])}
<1>1. Apart(B[k]) /\ B[k] \in Seq(Ev)
  BY Zenon DEF Separate
<1>2. /\ Apart(C[k])
      /\ Paths(B[k]) = Paths(C[k]) \cup {Head(B[k]).path}
      /\ Elems(B[k]) = Elems(C[k]) \cup {Head(B[k])}
  BY <1>1, TailBox
<1>3. \A m \in 1 .. 5 : \A p : p \in Paths(C[m]) => p \in Paths(B[m])
  BY <1>2, Zenon
<1>4. \A m \in 1 .. 5 : Apart(C[m])
  BY <1>2, Zenon DEF Separate
<1>5. \A m, n \in 1 .. 5 : m # n => Paths(C[m]) \cap Paths(C[n]) = {}
  <2>1. \A x, y \in 1 .. 5 : \A p : x # y /\ p \in Paths(B[x]) => p \notin Paths(B[y])
    BY Zenon DEF Separate
  <2> QED
    BY <2>1, <1>3, Zenon
<1>6. Separate(C)
  BY <1>4, <1>5, Zenon DEF Separate
<1>7. Known(C) \subseteq Known(B)
  BY <1>3, KnownHeld, Zenon
<1>8. \A e : (\E m \in 1 .. 5 : e \in Elems(B[m])) => (\E m \in 1 .. 5 : e \in Elems(C[m])) \/ e = Head(B[k])
  BY <1>2, Zenon
<1>9. Held(B) \subseteq Held(C) \cup {Head(B[k])}
  BY <1>8, KnownHeld, Zenon
<1> QED
  BY <1>6, <1>7, <1>9, Zenon

(* New events enter one box.                                               *)
Enters(B, C, k, P, E) ==
    /\ Separate(B) /\ Apart(C[k]) /\ P \cap Known(B) = {}
    /\ Paths(C[k]) = Paths(B[k]) \cup P /\ Elems(C[k]) = Elems(B[k]) \cup E
    /\ \A m \in 1 .. 5 : m # k => C[m] = B[m]

LEMMA EnterBox ==
    ASSUME NEW B, NEW C, NEW k \in 1 .. 5, NEW P, NEW E, Enters(B, C, k, P, E)
    PROVE  Separate(C) /\ Known(C) = Known(B) \cup P /\ Held(C) = Held(B) \cup E
<1>0. /\ Separate(B) /\ Apart(C[k]) /\ P \cap Known(B) = {}
      /\ Paths(C[k]) = Paths(B[k]) \cup P /\ Elems(C[k]) = Elems(B[k]) \cup E
      /\ \A m \in 1 .. 5 : m # k => C[m] = B[m]
  BY Zenon DEF Enters
<1> USE <1>0
<1>1. \A m \in 1 .. 5 : Apart(C[m])
  BY Zenon DEF Separate
<1>2. \A m \in 1 .. 5 : \A p \in P : p \notin Paths(B[m])
  BY KnownHeld, Zenon
<1>3. \A m, n \in 1 .. 5 : m # n => Paths(C[m]) \cap Paths(C[n]) = {}
  <2>1. \A x, y \in 1 .. 5 : \A p : x # y /\ p \in Paths(B[x]) => p \notin Paths(B[y])
    BY Zenon DEF Separate
  <2>2. ASSUME NEW m \in 1 .. 5, NEW n \in 1 .. 5, m # n, NEW q \in Paths(C[m]), q \in Paths(C[n])
        PROVE  FALSE
    <3>1. CASE m # k /\ n # k
      BY <2>1, <2>2, <3>1, Zenon
    <3>2. CASE m = k
      BY <2>1, <2>2, <3>2, <1>2, Zenon
    <3>3. CASE n = k
      BY <2>1, <2>2, <3>3, <1>2, Zenon
    <3> QED
      BY <3>1, <3>2, <3>3, Zenon
  <2> QED
    BY <2>2, Zenon
<1>4. Separate(C)
  BY <1>1, <1>3, Zenon DEF Separate
<1>5. \A q : q \in Known(C) <=> q \in Known(B) \/ q \in P
  <2>1. \A q : (\E m \in 1 .. 5 : q \in Paths(C[m])) <=> (\E m \in 1 .. 5 : q \in Paths(B[m])) \/ q \in P
    BY Zenon
  <2> QED
    BY <2>1, KnownHeld, Zenon
<1>6. \A e : e \in Held(C) <=> e \in Held(B) \/ e \in E
  <2>1. \A e : (\E m \in 1 .. 5 : e \in Elems(C[m])) <=> (\E m \in 1 .. 5 : e \in Elems(B[m])) \/ e \in E
    BY Zenon
  <2> QED
    BY <2>1, KnownHeld, Zenon
<1>7. Known(C) = Known(B) \cup P /\ Held(C) = Held(B) \cup E
  BY <1>5, <1>6, Zenon
<1> QED
  BY <1>4, <1>7, Zenon

(* What a finding's path says of its cause.                                *)
LEMMA PathFacts ==
    ASSUME NEW p \in Seq(Nat) \ {<< >>}, NEW i \in Nat
    PROVE  /\ Append(p, i) \in Seq(Nat) \ {<< >>} /\ Len(Append(p, i)) > 1
           /\ Append(p, i)[1] = p[1] /\ Parent(Append(p, i)) = p
           /\ \A j \in Nat : Append(p, i) = Append(p, j) => i = j
<1>1. /\ p \in Seq(Nat) /\ Len(p) \in Nat /\ Len(p) > 0 /\ Append(p, i) \in Seq(Nat)
      /\ Len(Append(p, i)) = Len(p) + 1 /\ Append(p, i)[1] = p[1]
  OBVIOUS
<1>2. Parent(Append(p, i)) = p
  <2>1. Len(Append(p, i)) - 1 = Len(p)
    BY <1>1
  <2>2. SubSeq(Append(p, i), 1, Len(p)) = p
    OBVIOUS
  <2> QED
    BY <2>1, <2>2 DEF Parent
<1>3. ASSUME NEW j \in Nat, Append(p, i) = Append(p, j) PROVE i = j
  <2>1. Append(p, i)[Len(p) + 1] = i /\ Append(p, j)[Len(p) + 1] = j
    OBVIOUS
  <2> QED
    BY <1>3, <2>1
<1>4. Append(p, i) # << >> /\ Len(Append(p, i)) > 1
  BY <1>1
<1> QED
  BY <1>1, <1>2, <1>3, <1>4

LEMMA ParentFirst ==
    ASSUME NEW q \in Seq(Nat), Len(q) > 1
    PROVE  Parent(q)[1] = q[1]
BY DEF Parent

LEMMA FinalPath == \A i \in Nat : Append(<<0>>, i) = <<0, i>>
<1> SUFFICES ASSUME NEW i \in Nat PROVE Append(<<0>>, i) = <<0, i>>
  OBVIOUS
<1>1. <<0>> \in Seq(Nat) /\ Len(<<0>>) = 1 /\ <<0>>[1] = 0
  OBVIOUS
<1>2. <<0, i>> \in Seq(Nat) /\ Len(<<0, i>>) = 2 /\ <<0, i>>[1] = 0 /\ <<0, i>>[2] = i
  OBVIOUS
<1> DEFINE a == Append(<<0>>, i)
           b == <<0, i>>
<1>3. a \in Seq(Nat) /\ Len(a) = 2 /\ a[1] = 0 /\ a[2] = i
  BY <1>1, AppendProperties
<1> HIDE DEF a, b
<1>4. \A j \in 1 .. 2 : j = 1 \/ j = 2
  OBVIOUS
<1>5. \A j \in 1 .. Len(a) : a[j] = b[j]
  BY <1>2, <1>3, <1>4 DEF b
<1>6. b \in Seq(Nat) /\ Len(b) = Len(a)
  BY <1>2, <1>3 DEF b
<1>7. a = b
  BY <1>3, <1>5, <1>6, SeqEqual
<1> QED
  BY <1>7 DEF a, b

(* The findings for one event, or at the end of the source.                *)
LEMMA FindingsBox ==
    ASSUME NEW p \in Seq(Nat) \ {<< >>}, NEW kinds \in Seq(Kinds)
    PROVE  /\ Findings(p, kinds) \in Seq(Ev) /\ Apart(Findings(p, kinds))
           /\ \A q \in Paths(Findings(p, kinds)) :
                 /\ q \in Seq(Nat) \ {<< >>} /\ Len(q) > 1
                 /\ q[1] = p[1] /\ Parent(q) = p
           /\ Elems(Findings(p, kinds)) = {Findings(p, kinds)[i] : i \in 1 .. Len(kinds)}
<1> DEFINE f == Findings(p, kinds)
<1>1. Len(kinds) \in Nat /\ \A i \in 1 .. Len(kinds) : i \in Nat /\ kinds[i] \in Kinds
  OBVIOUS
<1>2. \A i \in 1 .. Len(kinds) : f[i] = SigEvent(Append(p, i), kinds[i])
  BY DEF Findings
<1>3. \A i \in 1 .. Len(kinds) :
         /\ Append(p, i) \in Seq(Nat) \ {<< >>} /\ Len(Append(p, i)) > 1
         /\ Append(p, i)[1] = p[1] /\ Parent(Append(p, i)) = p
         /\ \A j \in Nat : Append(p, i) = Append(p, j) => i = j
  BY <1>1, PathFacts, Zenon
<1>4. \A i \in 1 .. Len(kinds) : SigEvent(Append(p, i), kinds[i]) \in Ev
  BY <1>1, <1>3 DEF SigEvent, Ev
<1>5. f \in Seq(Ev) /\ Len(f) = Len(kinds)
  BY <1>1, <1>4 DEF Findings
<1> HIDE DEF f
<1>6. \A i \in 1 .. Len(kinds) : f[i].path = Append(p, i)
  <2> SUFFICES ASSUME NEW i \in 1 .. Len(kinds) PROVE f[i].path = Append(p, i)
    OBVIOUS
  <2>1. f[i] = SigEvent(Append(p, i), kinds[i])
    BY <1>2, Zenon
  <2>2. SigEvent(Append(p, i), kinds[i]).path = Append(p, i)
    BY DEF SigEvent
  <2> QED
    BY <2>1, <2>2, Zenon
<1>7. Apart(f)
  <2> SUFFICES ASSUME NEW i \in 1 .. Len(kinds), NEW j \in 1 .. Len(kinds), i # j
               PROVE  f[i].path # f[j].path
    BY <1>5 DEF Apart
  <2>1. f[i].path = Append(p, i) /\ f[j].path = Append(p, j) /\ j \in Nat
    BY <1>1, <1>6, Zenon
  <2> QED
    BY <1>3, <2>1, Zenon
<1>8. \A q \in Paths(f) : /\ q \in Seq(Nat) \ {<< >>} /\ Len(q) > 1
                          /\ q[1] = p[1] /\ Parent(q) = p
  <2> SUFFICES ASSUME NEW i \in 1 .. Len(f)
               PROVE  /\ f[i].path \in Seq(Nat) \ {<< >>} /\ Len(f[i].path) > 1
                      /\ f[i].path[1] = p[1] /\ Parent(f[i].path) = p
    BY DEF Paths
  <2>1. i \in 1 .. Len(kinds) /\ f[i].path = Append(p, i)
    BY <1>5, <1>6
  <2>2. /\ Append(p, i) \in Seq(Nat) \ {<< >>} /\ Len(Append(p, i)) > 1
        /\ Append(p, i)[1] = p[1] /\ Parent(Append(p, i)) = p
    BY <1>3, <2>1
  <2> QED
    BY <2>1, <2>2
<1>9. Elems(f) = {f[i] : i \in 1 .. Len(kinds)}
  BY <1>5 DEF Elems
<1> QED
  BY <1>5, <1>7, <1>8, <1>9 DEF f

LEMMA BoxesAre ==
    /\ Boxes[1] = toSink /\ Boxes[2] = engineOutputEvents /\ Boxes[3] = converting
    /\ Boxes[4] = engineOutput /\ Boxes[5] = emitting
    /\ SigTyped => \A m \in 1 .. 5 : Boxes[m] \in Seq(Ev)
BY DEF Boxes, SigTyped

(* A channel of at most one event is emptied into another.                 *)
LEMMA OneEvent ==
    ASSUME NEW c \in Seq(Ev), NEW d \in Seq(Ev), Len(d) <= 1, d # << >>
    PROVE  /\ d = <<d[1]>> /\ d[1] \in Ev /\ d[1] = Head(d) /\ Tail(d) = << >>
           /\ c \o d = Append(c, d[1])
<1>0. Len(d) \in Nat \ {0}
  BY EmptySeq
<1>1. Len(d) = 1 /\ d[1] \in Ev
  <2>1. Len(d) = 1
    BY <1>0
  <2>2. 1 \in 1 .. Len(d)
    BY <2>1
  <2> QED
    BY <2>1, <2>2, ElementOfSeq
<1>2. d = <<d[1]>>
  <2>1. <<d[1]>> \in Seq(Ev) /\ Len(<<d[1]>>) = 1 /\ <<d[1]>>[1] = d[1]
    BY <1>1
  <2>2. \A i \in 1 .. Len(d) : i = 1
    BY <1>1
  <2>3. \A i \in 1 .. Len(d) : d[i] = <<d[1]>>[i]
    BY <2>1, <2>2
  <2> QED
    BY <1>1, <2>1, <2>3, SeqEqual
<1>3. c \o <<d[1]>> = Append(c, d[1])
  BY <1>1, AppendIsConcat
<1>4. Tail(d) \in Seq(Ev) /\ Len(Tail(d)) = 0
  BY <1>1
<1>5. Tail(d) = << >>
  BY <1>4
<1>6. c \o d = c \o <<d[1]>>
  BY <1>2, Zenon
<1>7. d[1] = Head(d)
  OBVIOUS
<1> QED
  BY <1>1, <1>2, <1>3, <1>5, <1>6, <1>7, Zenon

-----------------------------------------------------------------------------
(* Types and phases.                                                       *)

LEMMA ConstantTypes ==
    /\ \A n \in 1 .. Len(SigInputs) : SigInputs[n] \in Kinds /\ n \in Nat
    /\ Len(SigInputs) \in Nat
    /\ \A k \in Kinds : FindingsOf[k] \in Seq(Kinds)
    /\ FinalFindings \in Seq(Kinds)
BY SignatureStageAssumption

LEMMA EvFields == \A e \in Ev : e.path \in Seq(Nat) \ {<< >>} /\ e.kind \in Kinds
BY DEF Ev

(* What feedEngine does with an event.                                     *)
LEMMA FeedFacts ==
    ASSUME NEW e \in Ev, FeedEngine(e)
    PROVE  /\ \/ e.kind \in Proto \cup Submit /\ toSink' = Append(toSink, e)
              \/ e.kind \notin Proto \cup Submit /\ toSink' = toSink /\ feeding' = << >>
           /\ feeding' = << >> \/ feeding' = <<e>>
           /\ feeding' \in Seq(Ev) /\ Len(feeding') <= 1
           /\ toSink \in Seq(Ev) => toSink' \in Seq(Ev)
BY DEF FeedEngine

LEMMA InputIsEvent ==
    ASSUME SigTyped, fetched < Len(SigInputs)
    PROVE  /\ fetched + 1 \in 1 .. Len(SigInputs) /\ fetched + 1 \in Nat
           /\ SigEvent(<<fetched + 1>>, SigInputs[fetched + 1]) \in Ev
           /\ SigEvent(<<fetched + 1>>, SigInputs[fetched + 1]).path = <<fetched + 1>>
           /\ SigEvent(<<fetched + 1>>, SigInputs[fetched + 1]).kind = SigInputs[fetched + 1]
<1>1. fetched + 1 \in 1 .. Len(SigInputs) /\ fetched + 1 \in Nat
  BY ConstantTypes DEF SigTyped
<1>2. SigInputs[fetched + 1] \in Kinds
  BY <1>1, ConstantTypes
<1>3. <<fetched + 1>> \in Seq(Nat) \ {<< >>}
  BY <1>1
<1> QED
  BY <1>1, <1>2, <1>3 DEF SigEvent, Ev

LEMMA TypedInit == SigInit => SigTyped /\ Phases
BY ConstantTypes DEF SigInit, SigTyped, Phases, Closing

LEMMA TypedNext == SigTyped /\ [SigNext]_sigVars => SigTyped'
<1> SUFFICES ASSUME SigTyped, [SigNext]_sigVars PROVE SigTyped'
  OBVIOUS
<1> USE DEF SigTyped, Closing
<1>1. CASE TakeInput
  <2>1. fetched' = fetched + 1 /\ fetched < Len(SigInputs)
    BY <1>1 DEF TakeInput
  <2>2. FeedEngine(SigEvent(<<fetched + 1>>, SigInputs[fetched + 1]))
    BY <1>1, <2>1 DEF TakeInput
  <2> DEFINE e == SigEvent(<<fetched + 1>>, SigInputs[fetched + 1])
  <2>a. e \in Ev /\ FeedEngine(e)
    BY <2>1, <2>2, InputIsEvent
  <2> HIDE DEF e
  <2>b. feeding' \in Seq(Ev) /\ Len(feeding') <= 1 /\ (toSink \in Seq(Ev) => toSink' \in Seq(Ev))
    BY <2>a, FeedFacts, Zenon
  <2>3. toSink' \in Seq(Ev) /\ feeding' \in Seq(Ev) /\ Len(feeding') <= 1
    BY <2>b
  <2>4. fetched' \in 0 .. Len(SigInputs)
    BY <2>1, InputIsEvent, ConstantTypes
  <2> QED
    BY <1>1, <2>3, <2>4 DEF TakeInput, engineVars, converterVars
<1>2. CASE SendToEngine
  BY <1>2 DEF SendToEngine, engineVars, converterVars
<1>3. CASE TakeFinding
  <2>1. Head(engineOutputEvents) \in Ev /\ Tail(engineOutputEvents) \in Seq(Ev)
    BY <1>3 DEF TakeFinding
  <2> DEFINE e == Head(engineOutputEvents)
  <2>a. e \in Ev /\ FeedEngine(e)
    BY <1>3, <2>1 DEF TakeFinding
  <2> HIDE DEF e
  <2>b. feeding' \in Seq(Ev) /\ Len(feeding') <= 1 /\ (toSink \in Seq(Ev) => toSink' \in Seq(Ev))
    BY <2>a, FeedFacts, Zenon
  <2>2. toSink' \in Seq(Ev) /\ feeding' \in Seq(Ev) /\ Len(feeding') <= 1
    BY <2>b
  <2> QED
    BY <1>3, <2>1, <2>2 DEF TakeFinding, engineVars, converterVars
<1>4. CASE SigInputClosed
  BY <1>4 DEF SigInputClosed, StageMoves, engineVars, converterVars
<1>5. CASE QuiescentTimer
  BY <1>5 DEF QuiescentTimer, StageMoves, engineVars, converterVars
<1>6. CASE ForwardFinding
  BY <1>6 DEF ForwardFinding, engineVars, converterVars
<1>7. CASE EngineDone
  BY <1>7 DEF EngineDone, StageMoves, engineVars, converterVars
<1>8. CASE StageEnd
  BY <1>8 DEF StageEnd, StageMoves, engineVars, converterVars
<1>9. CASE EngineTake
  <2>1. Head(engineInput) \in Ev /\ Tail(engineInput) \in Seq(Ev)
    BY <1>9 DEF EngineTake
  <2>2. /\ Head(engineInput).path \in Seq(Nat) \ {<< >>}
        /\ FindingsOf[Head(engineInput).kind] \in Seq(Kinds)
    BY <2>1, ConstantTypes, EvFields, Zenon
  <2>3. emitting' = Findings(Head(engineInput).path, FindingsOf[Head(engineInput).kind])
    BY <1>9 DEF EngineTake
  <2>4. emitting' \in Seq(Ev)
    BY <2>2, <2>3, FindingsBox, Zenon
  <2> QED
    BY <1>9, <2>1, <2>4 DEF EngineTake, stageVars, converterVars
<1>10. CASE EngineEmit
  BY <1>10 DEF EngineEmit, stageVars, converterVars
<1>11. CASE EngineSignal
  <2>1. <<0>> \in Seq(Nat) \ {<< >>}
    OBVIOUS
  <2>2. emitting' \in Seq(Ev)
    BY <1>11, <2>1, FindingsBox, ConstantTypes, Zenon DEF EngineSignal
  <2> QED
    BY <1>11, <2>2 DEF EngineSignal, stageVars, converterVars
<1>12. CASE EngineEnd
  BY <1>12 DEF EngineEnd, stageVars, converterVars
<1>13. CASE ConverterTake
  BY <1>13 DEF ConverterTake, stageVars, engineVars
<1>14. CASE ConverterSend
  BY <1>14 DEF ConverterSend, stageVars, engineVars
<1>15. CASE ConverterEnd
  BY <1>15 DEF ConverterEnd, stageVars, engineVars
<1>16. CASE UNCHANGED sigVars
  BY <1>16 DEF sigVars, stageVars, engineVars, converterVars
<1> QED
  BY <1>1, <1>2, <1>3, <1>4, <1>5, <1>6, <1>7, <1>8, <1>9, <1>10, <1>11, <1>12,
     <1>13, <1>14, <1>15, <1>16
  DEF SigNext, StageNext, EngineNext, ConverterNext

LEMMA PhasesNext == SigTyped /\ Phases /\ [SigNext]_sigVars => Phases'
<1> SUFFICES ASSUME SigTyped, Phases, [SigNext]_sigVars PROVE Phases'
  OBVIOUS
<1>0. Len(feeding) <= 1 /\ fetched \in 0 .. Len(SigInputs) /\ stage \in {"select", "drain"} \cup Closing
  BY DEF SigTyped
<1> USE DEF Phases, Closing
<1>1. CASE TakeInput
  BY <1>0, <1>1 DEF TakeInput, engineVars, converterVars
<1>2. CASE SendToEngine
  BY <1>0, <1>2 DEF SendToEngine, engineVars, converterVars
<1>3. CASE TakeFinding
  BY <1>0, <1>3 DEF TakeFinding, engineVars, converterVars
<1>4. CASE SigInputClosed
  BY <1>0, <1>4 DEF SigInputClosed, StageMoves, engineVars, converterVars
<1>5. CASE QuiescentTimer
  BY <1>0, <1>5 DEF QuiescentTimer, StageMoves, engineVars, converterVars
<1>6. CASE ForwardFinding
  BY <1>0, <1>6 DEF ForwardFinding, engineVars, converterVars
<1>7. CASE EngineDone
  BY <1>0, <1>7 DEF EngineDone, StageMoves, engineVars, converterVars
<1>8. CASE StageEnd
  BY <1>0, <1>8 DEF StageEnd, StageMoves, engineVars, converterVars
<1>9. CASE EngineTake
  BY <1>0, <1>9 DEF EngineTake, stageVars, converterVars
<1>10. CASE EngineEmit
  BY <1>0, <1>10 DEF EngineEmit, stageVars, converterVars
<1>11. CASE EngineSignal
  BY <1>0, <1>11 DEF EngineSignal, stageVars, converterVars
<1>12. CASE EngineEnd
  BY <1>0, <1>12 DEF EngineEnd, stageVars, converterVars
<1>13. CASE ConverterTake
  BY <1>0, <1>13 DEF ConverterTake, stageVars, engineVars
<1>14. CASE ConverterSend
  BY <1>0, <1>14 DEF ConverterSend, stageVars, engineVars
<1>15. CASE ConverterEnd
  BY <1>0, <1>15 DEF ConverterEnd, stageVars, engineVars
<1>16. CASE UNCHANGED sigVars
  BY <1>16 DEF sigVars, stageVars, engineVars, converterVars
<1> QED
  BY <1>1, <1>2, <1>3, <1>4, <1>5, <1>6, <1>7, <1>8, <1>9, <1>10, <1>11, <1>12,
     <1>13, <1>14, <1>15, <1>16
  DEF SigNext, StageNext, EngineNext, ConverterNext

-----------------------------------------------------------------------------
(* What each step does to the boxes.                                       *)

LEMMA BoxesAreNext ==
    /\ Boxes'[1] = toSink' /\ Boxes'[2] = engineOutputEvents' /\ Boxes'[3] = converting'
    /\ Boxes'[4] = engineOutput' /\ Boxes'[5] = emitting'
BY DEF Boxes

LEMMA FiveBoxes ==
    ASSUME NEW k \in 1 .. 5, NEW l \in 1 .. 5,
           k # 1 /\ l # 1 => toSink' = toSink,
           k # 2 /\ l # 2 => engineOutputEvents' = engineOutputEvents,
           k # 3 /\ l # 3 => converting' = converting,
           k # 4 /\ l # 4 => engineOutput' = engineOutput,
           k # 5 /\ l # 5 => emitting' = emitting
    PROVE  \A m \in 1 .. 5 : m # k /\ m # l => Boxes'[m] = Boxes[m]
<1> SUFFICES ASSUME NEW m \in 1 .. 5, m # k, m # l PROVE Boxes'[m] = Boxes[m]
  OBVIOUS
<1>1. m = 1 \/ m = 2 \/ m = 3 \/ m = 4 \/ m = 5
  OBVIOUS
<1> QED
  BY <1>1, BoxesAre, BoxesAreNext, Zenon

(* Steps that put nothing new in a box and drop nothing.                   *)
Moves == \/ ForwardFinding \/ EngineEmit \/ ConverterSend
         \/ TakeFinding /\ Head(engineOutputEvents).kind \in Proto \cup Submit
         \/ ConverterTake /\ Head(engineOutput).kind \in Kept

LEMMA MovesBoxes ==
    ASSUME SigTyped, Separate(Boxes), Moves
    PROVE  Separate(Boxes') /\ Known(Boxes') = Known(Boxes) /\ Held(Boxes') = Held(Boxes)
<1>0. \A m \in 1 .. 5 : Boxes[m] \in Seq(Ev)
  BY BoxesAre, Zenon
<1>1. SUFFICES \E k, l \in 1 .. 5 :
         /\ k # l /\ Boxes[k] # << >> /\ Boxes'[k] = Tail(Boxes[k])
         /\ Boxes'[l] = Append(Boxes[l], Head(Boxes[k]))
         /\ \A m \in 1 .. 5 : m # k /\ m # l => Boxes'[m] = Boxes[m]
  BY <1>0, MoveBox, Zenon
<1>2. CASE ForwardFinding \/ (TakeFinding /\ Head(engineOutputEvents).kind \in Proto \cup Submit)
  <2>1. /\ engineOutputEvents # << >> /\ engineOutputEvents' = Tail(engineOutputEvents)
        /\ toSink' = Append(toSink, Head(engineOutputEvents))
        /\ converting' = converting /\ engineOutput' = engineOutput /\ emitting' = emitting
    BY <1>2 DEF ForwardFinding, TakeFinding, FeedEngine, engineVars, converterVars
  <2>2. \A m \in 1 .. 5 : m # 2 /\ m # 1 => Boxes'[m] = Boxes[m]
    BY <2>1, FiveBoxes
  <2>3. /\ Boxes[2] # << >> /\ Boxes'[2] = Tail(Boxes[2])
        /\ Boxes'[1] = Append(Boxes[1], Head(Boxes[2]))
    BY <2>1, BoxesAre, BoxesAreNext, Zenon
  <2> QED
    BY <2>2, <2>3
<1>3. CASE EngineEmit
  <2>1. /\ emitting # << >> /\ emitting' = Tail(emitting)
        /\ engineOutput' = Append(engineOutput, Head(emitting))
        /\ converting' = converting /\ toSink' = toSink
        /\ engineOutputEvents' = engineOutputEvents
    BY <1>3 DEF EngineEmit, stageVars, converterVars
  <2>2. \A m \in 1 .. 5 : m # 5 /\ m # 4 => Boxes'[m] = Boxes[m]
    BY <2>1, FiveBoxes
  <2>3. /\ Boxes[5] # << >> /\ Boxes'[5] = Tail(Boxes[5])
        /\ Boxes'[4] = Append(Boxes[4], Head(Boxes[5]))
    BY <2>1, BoxesAre, BoxesAreNext, Zenon
  <2> QED
    BY <2>2, <2>3
<1>4. CASE ConverterSend
  <2>1. /\ converting # << >> /\ converting' = << >>
        /\ engineOutputEvents' = engineOutputEvents \o converting
        /\ engineOutput' = engineOutput /\ toSink' = toSink /\ emitting' = emitting
    BY <1>4 DEF ConverterSend, stageVars, engineVars
  <2>2. /\ converting' = Tail(converting)
        /\ engineOutputEvents' = Append(engineOutputEvents, Head(converting))
    <3>1. /\ converting \in Seq(Ev) /\ engineOutputEvents \in Seq(Ev) /\ Len(converting) <= 1
      BY DEF SigTyped
    <3>2. /\ converting[1] = Head(converting) /\ Tail(converting) = << >>
          /\ engineOutputEvents \o converting = Append(engineOutputEvents, converting[1])
      BY <2>1, <3>1, OneEvent, Zenon
    <3> QED
      BY <2>1, <3>2, Zenon
  <2>3. \A m \in 1 .. 5 : m # 3 /\ m # 2 => Boxes'[m] = Boxes[m]
    BY <2>1, FiveBoxes
  <2>4. /\ Boxes[3] # << >> /\ Boxes'[3] = Tail(Boxes[3])
        /\ Boxes'[2] = Append(Boxes[2], Head(Boxes[3]))
    BY <2>1, <2>2, BoxesAre, BoxesAreNext, Zenon
  <2> QED
    BY <2>3, <2>4
<1>5. CASE ConverterTake /\ Head(engineOutput).kind \in Kept
  <2>1. /\ engineOutput # << >> /\ engineOutput' = Tail(engineOutput)
        /\ converting = << >> /\ converting' = <<Head(engineOutput)>>
        /\ engineOutputEvents' = engineOutputEvents /\ toSink' = toSink /\ emitting' = emitting
    BY <1>5 DEF ConverterTake, stageVars, engineVars
  <2>2. converting' = Append(converting, Head(engineOutput))
    BY <2>1
  <2>3. \A m \in 1 .. 5 : m # 4 /\ m # 3 => Boxes'[m] = Boxes[m]
    BY <2>1, FiveBoxes
  <2>4. /\ Boxes[4] # << >> /\ Boxes'[4] = Tail(Boxes[4])
        /\ Boxes'[3] = Append(Boxes[3], Head(Boxes[4]))
    BY <2>1, <2>2, BoxesAre, BoxesAreNext, Zenon
  <2> QED
    BY <2>3, <2>4
<1> QED
  BY <1>2, <1>3, <1>4, <1>5, Zenon DEF Moves

(* Steps that drop an event, which is not both kept and submitted.         *)
Drops == \/ TakeFinding /\ Head(engineOutputEvents).kind \notin Proto \cup Submit
         \/ ConverterTake /\ Head(engineOutput).kind \notin Kept

LEMMA DropsBoxes ==
    ASSUME SigTyped, Separate(Boxes), Drops
    PROVE  /\ Separate(Boxes') /\ Known(Boxes') \subseteq Known(Boxes)
           /\ \A f \in Held(Boxes) : /\ f.kind \in Kept /\ f.kind \in Submit => f \in Held(Boxes')
                                     /\ f.kind \in Kept /\ ~TakeFinding => f \in Held(Boxes')
<1>0. \A m \in 1 .. 5 : Boxes[m] \in Seq(Ev)
  BY BoxesAre, Zenon
<1>1. CASE TakeFinding /\ Head(engineOutputEvents).kind \notin Proto \cup Submit
  <2>1. /\ engineOutputEvents # << >> /\ engineOutputEvents' = Tail(engineOutputEvents)
        /\ toSink' = toSink
        /\ converting' = converting /\ engineOutput' = engineOutput /\ emitting' = emitting
    BY <1>1 DEF TakeFinding, FeedEngine, engineVars, converterVars
  <2>2. \A m \in 1 .. 5 : m # 2 /\ m # 2 => Boxes'[m] = Boxes[m]
    BY <2>1, FiveBoxes
  <2>3. Boxes[2] # << >> /\ Boxes'[2] = Tail(Boxes[2]) /\ Head(Boxes[2]).kind \notin Submit
    BY <1>1, <2>1, BoxesAre, BoxesAreNext, Zenon
  <2>4. 2 \in 1 .. 5
    OBVIOUS
  <2>5. /\ Separate(Boxes') /\ Known(Boxes') \subseteq Known(Boxes)
        /\ Held(Boxes) \subseteq Held(Boxes') \cup {Head(Boxes[2])}
    BY <1>0, <2>2, <2>3, <2>4, DropBox, Zenon
  <2> QED
    BY <1>1, <2>3, <2>5, Zenon
<1>2. CASE ConverterTake /\ Head(engineOutput).kind \notin Kept
  <2>1. /\ engineOutput # << >> /\ engineOutput' = Tail(engineOutput)
        /\ converting' = converting
        /\ engineOutputEvents' = engineOutputEvents /\ toSink' = toSink /\ emitting' = emitting
    BY <1>2 DEF ConverterTake, stageVars, engineVars
  <2>2. \A m \in 1 .. 5 : m # 4 /\ m # 4 => Boxes'[m] = Boxes[m]
    BY <2>1, FiveBoxes
  <2>3. Boxes[4] # << >> /\ Boxes'[4] = Tail(Boxes[4]) /\ Head(Boxes[4]).kind \notin Kept
    BY <1>2, <2>1, BoxesAre, BoxesAreNext, Zenon
  <2>4. 4 \in 1 .. 5
    OBVIOUS
  <2>5. /\ Separate(Boxes') /\ Known(Boxes') \subseteq Known(Boxes)
        /\ Held(Boxes) \subseteq Held(Boxes') \cup {Head(Boxes[4])}
    BY <1>0, <2>2, <2>3, <2>4, DropBox, Zenon
  <2> QED
    BY <2>3, <2>5, Zenon
<1> QED
  BY <1>1, <1>2, Zenon DEF Drops

(* Steps that leave the boxes alone.                                       *)
Rests == \/ SendToEngine \/ SigInputClosed \/ QuiescentTimer \/ EngineDone \/ StageEnd
         \/ EngineEnd \/ ConverterEnd \/ UNCHANGED sigVars

LEMMA RestsBoxes ==
    ASSUME Rests
    PROVE  /\ Boxes' = Boxes /\ toSink' = toSink /\ fetched' = fetched
           /\ engine = "running" \/ engine' # "running"
BY DEF Rests, Boxes, SendToEngine, SigInputClosed, QuiescentTimer, EngineDone, StageEnd,
       StageMoves, EngineEnd, ConverterEnd, sigVars, stageVars, engineVars, converterVars

(* One box is filled or lengthened.                                        *)
LEMMA FillBox ==
    ASSUME Separate(Boxes), NEW k \in 1 .. 5, NEW P, NEW E,
           Apart(Boxes'[k]), Paths(Boxes'[k]) = Paths(Boxes[k]) \cup P,
           Elems(Boxes'[k]) = Elems(Boxes[k]) \cup E, P \cap Known(Boxes) = {},
           k # 1 => toSink' = toSink, k # 2 => engineOutputEvents' = engineOutputEvents,
           k # 3 => converting' = converting, k # 4 => engineOutput' = engineOutput,
           k # 5 => emitting' = emitting
    PROVE  /\ Separate(Boxes') /\ Known(Boxes') = Known(Boxes) \cup P
           /\ Held(Boxes') = Held(Boxes) \cup E
<1>1. \A m \in 1 .. 5 : m # k => Boxes'[m] = Boxes[m]
  BY FiveBoxes
<1>2. Enters(Boxes, Boxes', k, P, E)
  BY <1>1, Zenon DEF Enters
<1> QED
  BY <1>2, EnterBox

(* The findings of an event, or at the end of the source, in emitting.     *)
LEMMA EmitBoxes ==
    ASSUME SigTyped, Separate(Boxes), NEW p \in Seq(Nat) \ {<< >>}, NEW kinds \in Seq(Kinds),
           emitting = << >>, emitting' = Findings(p, kinds),
           toSink' = toSink, engineOutputEvents' = engineOutputEvents,
           converting' = converting, engineOutput' = engineOutput,
           \A q \in Known(Boxes) : ~(Len(q) > 1 /\ q[1] = p[1] /\ Parent(q) = p)
    PROVE  /\ Separate(Boxes')
           /\ Known(Boxes') = Known(Boxes) \cup Paths(Findings(p, kinds))
           /\ Held(Boxes') = Held(Boxes) \cup {Findings(p, kinds)[i] : i \in 1 .. Len(kinds)}
<1> DEFINE f == Findings(p, kinds)
<1>1. /\ Apart(f)
      /\ \A q \in Paths(f) : Len(q) > 1 /\ q[1] = p[1] /\ Parent(q) = p
      /\ Elems(f) = {f[i] : i \in 1 .. Len(kinds)}
  BY FindingsBox, Zenon
<1> HIDE DEF f
<1>2. Paths(emitting) = {} /\ Elems(emitting) = {}
  BY DEF Paths, Elems
<1>3. Paths(f) \cap Known(Boxes) = {}
  BY <1>1, Zenon
<1>4. Boxes[5] = emitting /\ Boxes'[5] = f /\ 5 \in 1 .. 5
  BY BoxesAre, BoxesAreNext DEF f
<1>5. /\ Paths(Boxes'[5]) = Paths(Boxes[5]) \cup Paths(f)
      /\ Elems(Boxes'[5]) = Elems(Boxes[5]) \cup Elems(f)
      /\ Apart(Boxes'[5])
  <2>1. Paths(Boxes[5]) = {} /\ Elems(Boxes[5]) = {}
    BY <1>2, <1>4, Zenon
  <2>2. Paths(Boxes'[5]) = Paths(f) /\ Elems(Boxes'[5]) = Elems(f) /\ Apart(Boxes'[5])
    BY <1>1, <1>4, Zenon
  <2> QED
    BY <2>1, <2>2, Zenon
<1>7. /\ Separate(Boxes') /\ Known(Boxes') = Known(Boxes) \cup Paths(f)
      /\ Held(Boxes') = Held(Boxes) \cup Elems(f)
  BY <1>3, <1>4, <1>5, FillBox, Zenon
<1> QED
  BY <1>1, <1>7, Zenon DEF f

-----------------------------------------------------------------------------
(* Paths tell events apart, and a waiting event has no findings yet.       *)

LEMMA KnownTyped ==
    ASSUME SigTyped
    PROVE  /\ \A q \in Known(Boxes) : q \in Seq(Nat) \ {<< >>}
           /\ \A q \in Paths(toSink) : q \in Known(Boxes)
<1>1. ASSUME NEW c \in Seq(Ev), NEW q \in Paths(c) PROVE q \in Seq(Nat) \ {<< >>}
  <2>1. PICK i \in 1 .. Len(c) : q = c[i].path
    BY <1>1 DEF Paths
  <2>2. c[i] \in Ev
    BY <1>1, ElementOfSeq
  <2> QED
    BY <2>1, <2>2, EvFields
<1>2. \A k \in 1 .. 5 : \A q \in Paths(Boxes[k]) : q \in Seq(Nat) \ {<< >>}
  BY <1>1, BoxesAre, Zenon
<1>3. \A q \in Known(Boxes) : q \in Seq(Nat) \ {<< >>}
  BY <1>2, KnownHeld, Zenon
<1>4. 1 \in 1 .. 5 /\ Boxes[1] = toSink
  BY BoxesAre
<1>5. \A q \in Paths(toSink) : q \in Known(Boxes)
  BY <1>4, KnownHeld, Zenon
<1> QED
  BY <1>3, <1>5, Zenon

(* Nothing was reported for an event the sink has not got.                 *)
LEMMA NoChildYet ==
    ASSUME SigTyped, LineInv, NEW w, w[1] # 0, w \notin Paths(toSink)
    PROVE  \A q \in Known(Boxes) : Len(q) > 1 => Parent(q) # w
<1> SUFFICES ASSUME NEW q \in Known(Boxes), Len(q) > 1, Parent(q) = w PROVE FALSE
  OBVIOUS
<1>1. q \in Seq(Nat)
  BY KnownTyped, Zenon
<1>2. q[1] = w[1]
  BY <1>1, ParentFirst
<1>3. Len(q) > 1 /\ q[1] # 0 => Parent(q) \in Paths(toSink)
  BY Zenon DEF LineInv
<1> QED
  BY <1>2, <1>3, Zenon

(* A step that adds the paths N to the boxes and V to the waiting events.  *)
LEMMA LineGrows ==
    ASSUME LineInv, NEW N, NEW V, Separate(Boxes'),
           \A q \in Known(Boxes') : q \in Known(Boxes) \/ q \in N,
           \A w \in Waiting' : w \in Waiting \/ w \in V,
           \A q \in Paths(toSink) : q \in Paths(toSink)',
           Apart(engineInput)', (Paths(engineInput) \cap Paths(feeding))' = {},
           \A i \in 1 .. fetched : i \in 1 .. fetched',
           engine = "running" \/ engine' # "running",
           \A q \in N : /\ Len(q) > 1 /\ q[1] # 0 => Parent(q) \in Paths(toSink)'
                        /\ Len(q) = 1 => q[1] \in 1 .. fetched'
                        /\ q[1] = 0 => engine' # "running",
           \A q \in N : \A w \in Waiting' : Len(q) > 1 => Parent(q) # w,
           \A w \in V : /\ w \in Paths(toSink)' /\ w[1] # 0
                        /\ \A q \in Known(Boxes) : Len(q) > 1 => Parent(q) # w
    PROVE  LineInv'
<1>1. ASSUME NEW w \in Waiting'
      PROVE  /\ w \in Paths(toSink)' /\ w[1] # 0
             /\ \A q \in Known(Boxes') : Len(q) > 1 => Parent(q) # w
  <2>1. CASE w \in Waiting
    <3>1. /\ w \in Paths(toSink) /\ w[1] # 0
          /\ \A q \in Known(Boxes) : Len(q) > 1 => Parent(q) # w
      BY <2>1, Zenon DEF LineInv
    <3> QED
      BY <3>1, <1>1, Zenon
  <2>2. CASE w \in V
    BY <2>2, <1>1, Zenon
  <2> QED
    BY <1>1, <2>1, <2>2, Zenon
<1>2. ASSUME NEW q \in Known(Boxes')
      PROVE  /\ Len(q) > 1 /\ q[1] # 0 => Parent(q) \in Paths(toSink)'
             /\ Len(q) = 1 => q[1] \in 1 .. fetched'
             /\ q[1] = 0 => engine' # "running"
  <2>1. CASE q \in Known(Boxes)
    <3>1. /\ Len(q) > 1 /\ q[1] # 0 => Parent(q) \in Paths(toSink)
          /\ Len(q) = 1 => q[1] \in 1 .. fetched
          /\ q[1] = 0 => engine # "running"
      BY <2>1, Zenon DEF LineInv
    <3> QED
      BY <3>1, Zenon
  <2>2. CASE q \in N
    BY <2>2, Zenon
  <2> QED
    BY <1>2, <2>1, <2>2, Zenon
<1> QED
  BY <1>1, <1>2, Zenon DEF LineInv

LEMMA LineKeeps ==
    ASSUME LineInv, Separate(Boxes'),
           \A q \in Known(Boxes') : q \in Known(Boxes),
           \A w \in Waiting' : w \in Waiting,
           \A q \in Paths(toSink) : q \in Paths(toSink)',
           Apart(engineInput)', (Paths(engineInput) \cap Paths(feeding))' = {},
           fetched' = fetched, engine = "running" \/ engine' # "running"
    PROVE  LineInv'
<1>1. ASSUME NEW w \in Waiting'
      PROVE  /\ w \in Paths(toSink)' /\ w[1] # 0
             /\ \A q \in Known(Boxes') : Len(q) > 1 => Parent(q) # w
  BY <1>1, Zenon DEF LineInv
<1>2. ASSUME NEW q \in Known(Boxes')
      PROVE  /\ Len(q) > 1 /\ q[1] # 0 => Parent(q) \in Paths(toSink)'
             /\ Len(q) = 1 => q[1] \in 1 .. fetched'
             /\ q[1] = 0 => engine' # "running"
  <2>1. /\ Len(q) > 1 /\ q[1] # 0 => Parent(q) \in Paths(toSink)
        /\ Len(q) = 1 => q[1] \in 1 .. fetched
        /\ q[1] = 0 => engine # "running"
    BY <1>2, Zenon DEF LineInv
  <2> QED
    BY <2>1, Zenon
<1> QED
  BY <1>1, <1>2, Zenon DEF LineInv

LEMMA LineInit == SigInit => LineInv /\ CauseInv
<1> SUFFICES ASSUME SigInit PROVE LineInv /\ CauseInv
  OBVIOUS
<1>1. /\ toSink = << >> /\ engineOutputEvents = << >> /\ converting = << >>
      /\ engineOutput = << >> /\ emitting = << >> /\ engineInput = << >> /\ feeding = << >>
  BY DEF SigInit
<1>2. Paths(<< >>) = {} /\ Apart(<< >>)
  BY DEF Paths, Apart
<1>3. \A k \in 1 .. 5 : Boxes[k] = << >>
  BY <1>1 DEF Boxes
<1>4. Known(Boxes) = {}
  BY <1>2, <1>3, KnownHeld, Zenon
<1>5. Separate(Boxes)
  BY <1>2, <1>3, Zenon DEF Separate
<1>6. Apart(engineInput) /\ Paths(engineInput) = {} /\ Paths(feeding) = {}
  BY <1>1, <1>2, Zenon
<1>7. LineInv
  BY <1>4, <1>5, <1>6, Zenon DEF LineInv, Waiting
<1>8. CauseInv
  BY <1>1 DEF CauseInv
<1> QED
  BY <1>7, <1>8

(* The paths at the sink after a send to it.                               *)
LEMMA SinkGrows ==
    ASSUME SigTyped, NEW e \in Ev, toSink' = Append(toSink, e)
    PROVE  (\A q \in Paths(toSink) : q \in Paths(toSink)') /\ e.path \in Paths(toSink)'
<1>1. toSink \in Seq(Ev)
  BY DEF SigTyped
<1>2. Paths(Append(toSink, e)) = Paths(toSink) \cup {e.path}
  BY <1>1, AppendBox, Zenon
<1> QED
  BY <1>2, Zenon

LEMMA OnePath ==
    ASSUME NEW e
    PROVE  Paths(<<e>>) = {e.path} /\ Paths(<< >>) = {}
BY DEF Paths

LEMMA TakeInputLine ==
    ASSUME SigTyped, LineInv, TakeInput
    PROVE  LineInv'
<1> DEFINE e == SigEvent(<<fetched + 1>>, SigInputs[fetched + 1])
<1>1. /\ fetched' = fetched + 1 /\ fetched < Len(SigInputs) /\ FeedEngine(e)
      /\ engineInput' = engineInput /\ feeding = << >> /\ engine' = engine
      /\ engineOutputEvents' = engineOutputEvents /\ converting' = converting
      /\ engineOutput' = engineOutput /\ emitting' = emitting
  BY DEF TakeInput, engineVars, converterVars
<1>2. fetched + 1 \in Nat /\ e \in Ev /\ e.path = <<fetched + 1>>
  BY <1>1, InputIsEvent
<1> HIDE DEF e
<1>3. \/ toSink' = Append(toSink, e) /\ (feeding' = << >> \/ feeding' = <<e>>)
      \/ toSink' = toSink /\ feeding' = << >>
  BY <1>1, <1>2, FeedFacts, Zenon
<1>4. fetched \in Nat /\ (\A i \in 1 .. fetched : i \in 1 .. fetched') /\ fetched + 1 \in 1 .. fetched'
  BY <1>1 DEF SigTyped
<1>5. Len(e.path) = 1 /\ e.path[1] = fetched + 1 /\ e.path[1] # 0 /\ e.path[1] \in 1 .. fetched'
  BY <1>2, <1>4
<1>6. Apart(engineInput) /\ \A w \in Paths(engineInput) : w \in Paths(toSink)
  BY Zenon DEF LineInv, Waiting
<1>7. CASE toSink' = Append(toSink, e) /\ (feeding' = << >> \/ feeding' = <<e>>)
  <2>1. e.path \notin Known(Boxes)
    <3> SUFFICES ASSUME e.path \in Known(Boxes) PROVE FALSE
      OBVIOUS
    <3>1. e.path[1] \in 1 .. fetched
      BY <1>5, Zenon DEF LineInv
    <3> QED
      BY <1>4, <1>5, <3>1
  <2>2. e.path \notin Paths(toSink)
    BY <2>1, KnownTyped, Zenon
  <2>3. /\ Apart(toSink) /\ toSink \in Seq(Ev) /\ Separate(Boxes)
    <3>1. 1 \in 1 .. 5 /\ Boxes[1] = toSink
      BY BoxesAre
    <3>2. Separate(Boxes) /\ toSink \in Seq(Ev)
      BY DEF LineInv, SigTyped
    <3>3. Apart(Boxes[1])
      BY <3>1, <3>2, Zenon DEF Separate
    <3> QED
      BY <3>1, <3>2, <3>3, Zenon
  <2>4. /\ Apart(Append(toSink, e)) /\ Paths(Append(toSink, e)) = Paths(toSink) \cup {e.path}
        /\ Elems(Append(toSink, e)) = Elems(toSink) \cup {e}
    BY <1>2, <2>2, <2>3, AppendBox, Zenon
  <2>5. /\ Apart(Boxes'[1]) /\ Paths(Boxes'[1]) = Paths(Boxes[1]) \cup {e.path}
        /\ Elems(Boxes'[1]) = Elems(Boxes[1]) \cup {e} /\ 1 \in 1 .. 5
    BY <1>7, <2>4, BoxesAre, BoxesAreNext
  <2>6. {e.path} \cap Known(Boxes) = {}
    BY <2>1, Zenon
  <2>7. Separate(Boxes') /\ Known(Boxes') = Known(Boxes) \cup {e.path}
    BY <1>1, <2>3, <2>5, <2>6, FillBox, Zenon
  <2> DEFINE N == {e.path}
  <2>8. /\ \A q \in Known(Boxes') : q \in Known(Boxes) \/ q \in N
        /\ \A q \in N : q = e.path
    BY <2>7, Zenon
  <2>9. (\A q \in Paths(toSink) : q \in Paths(toSink)') /\ e.path \in Paths(toSink)'
    BY <1>2, <1>7, SinkGrows, Zenon
  <2>10. \A w \in Paths(feeding)' : w = e.path
    BY <1>7, OnePath, Zenon
  <2>11. /\ \A w \in Waiting' : w \in Waiting \/ w \in N
         /\ Apart(engineInput)' /\ (Paths(engineInput) \cap Paths(feeding))' = {}
    BY <1>1, <1>6, <2>2, <2>10, Zenon DEF Waiting
  <2>12. \A q \in N : Len(q) = 1 /\ q[1] # 0 /\ q[1] \in 1 .. fetched' /\ ~(Len(q) > 1)
    <3>1. ~(Len(e.path) > 1)
      BY <1>5
    <3> QED
      BY <1>5, <2>8, <3>1, Zenon
  <2>13. \A w \in N : /\ w \in Paths(toSink)' /\ w[1] # 0
                      /\ \A q \in Known(Boxes) : Len(q) > 1 => Parent(q) # w
    BY <1>5, <2>2, <2>8, <2>9, NoChildYet, Zenon
  <2>14. engine = "running" \/ engine' # "running"
    BY <1>1, Zenon
  <2> HIDE DEF N
  <2> QED
    BY <1>4, <2>7, <2>8, <2>9, <2>11, <2>12, <2>13, <2>14, LineGrows, Zenon
<1>8. CASE toSink' = toSink /\ feeding' = << >>
  <2>1. Boxes' = Boxes
    BY <1>1, <1>8, Zenon DEF Boxes
  <2>2. Separate(Boxes') /\ Known(Boxes') = Known(Boxes)
    BY <2>1, Zenon DEF LineInv
  <2>3. /\ Waiting' = Waiting /\ Paths(toSink)' = Paths(toSink) /\ Apart(engineInput)'
        /\ (Paths(engineInput) \cap Paths(feeding))' = {} /\ engine' = engine
    BY <1>1, <1>6, <1>8, OnePath, Zenon DEF Waiting
  <2> DEFINE N == {}
  <2>4. /\ \A q \in Known(Boxes') : q \in Known(Boxes) \/ q \in N
        /\ \A w \in Waiting' : w \in Waiting \/ w \in N
        /\ \A q \in Paths(toSink) : q \in Paths(toSink)'
        /\ engine = "running" \/ engine' # "running"
        /\ \A q : q \notin N
    BY <2>2, <2>3, Zenon
  <2> HIDE DEF N
  <2> QED
    BY <1>4, <2>2, <2>3, <2>4, LineGrows, Zenon
<1> QED
  BY <1>3, <1>7, <1>8, Zenon

LEMMA TakeFindingLine ==
    ASSUME SigTyped, Phases, LineInv, TakeFinding
    PROVE  LineInv'
<1> DEFINE e == Head(engineOutputEvents)
<1>1. /\ engineOutputEvents # << >> /\ FeedEngine(e) /\ engineOutputEvents \in Seq(Ev)
      /\ engineInput' = engineInput /\ feeding = << >> /\ engine' = engine
      /\ fetched' = fetched /\ stage \in {"select", "drain"} /\ Separate(Boxes)
  BY DEF TakeFinding, engineVars, converterVars, SigTyped, LineInv
<1>2. Apart(engineOutputEvents) /\ Paths(engineOutputEvents) \cap Paths(toSink) = {}
  <2>1. 1 \in 1 .. 5 /\ 2 \in 1 .. 5 /\ 1 # 2 /\ Boxes[2] = engineOutputEvents /\ Boxes[1] = toSink
    BY BoxesAre
  <2>2. Apart(Boxes[2]) /\ Paths(Boxes[2]) \cap Paths(Boxes[1]) = {}
    BY <1>1, <2>1, Zenon DEF Separate
  <2> QED
    BY <2>1, <2>2, Zenon
<1>3. e \in Ev /\ e.path \in Paths(engineOutputEvents)
  BY <1>1, <1>2, TailBox, Zenon
<1>4. e.path \notin Paths(toSink) /\ e.path \in Known(Boxes)
  <2>1. 2 \in 1 .. 5 /\ Boxes[2] = engineOutputEvents
    BY BoxesAre
  <2> QED
    BY <1>2, <1>3, <2>1, KnownHeld, Zenon
<1>5. e.path[1] # 0
  <2>1. engine = "running"
    BY <1>1 DEF Phases, Closing
  <2> QED
    BY <1>4, <2>1, Zenon DEF LineInv
<1>6. \/ e.kind \in Proto \cup Submit /\ toSink' = Append(toSink, e)
      \/ e.kind \notin Proto \cup Submit /\ toSink' = toSink /\ feeding' = << >>
  <2> HIDE DEF e
  <2> QED
    BY <1>1, <1>3, FeedFacts, Zenon
<1>7. feeding' = << >> \/ feeding' = <<e>>
  <2> HIDE DEF e
  <2> QED
    BY <1>1, <1>3, FeedFacts, Zenon
<1>8. Apart(engineInput) /\ \A w \in Paths(engineInput) : w \in Paths(toSink)
  BY Zenon DEF LineInv, Waiting
<1>9. CASE e.kind \in Proto \cup Submit /\ toSink' = Append(toSink, e)
  <2>1. Separate(Boxes') /\ Known(Boxes') = Known(Boxes)
    BY <1>1, <1>9, MovesBoxes, Zenon DEF Moves
  <2> HIDE DEF e
  <2> DEFINE V == {e.path}
             N == {}
  <2>2. (\A q \in Paths(toSink) : q \in Paths(toSink)') /\ e.path \in Paths(toSink)'
    BY <1>3, <1>9, SinkGrows, Zenon
  <2>3. \A w \in Paths(feeding)' : w = e.path
    BY <1>7, OnePath, Zenon
  <2>4. /\ \A w \in Waiting' : w \in Waiting \/ w \in V
        /\ Apart(engineInput)' /\ (Paths(engineInput) \cap Paths(feeding))' = {}
    BY <1>1, <1>4, <1>8, <2>3, Zenon DEF Waiting
  <2>5. \A w \in V : /\ w \in Paths(toSink)' /\ w[1] # 0
                     /\ \A q \in Known(Boxes) : Len(q) > 1 => Parent(q) # w
    BY <1>4, <1>5, <2>2, NoChildYet, Zenon
  <2>6. /\ \A q \in Known(Boxes') : q \in Known(Boxes) \/ q \in N
        /\ engine = "running" \/ engine' # "running"
        /\ \A i \in 1 .. fetched : i \in 1 .. fetched'
        /\ \A q : q \notin N
    BY <1>1, <2>1, Zenon
  <2> HIDE DEF V, N
  <2> QED
    BY <2>1, <2>2, <2>4, <2>5, <2>6, LineGrows, Zenon
<1>10. CASE e.kind \notin Proto \cup Submit /\ toSink' = toSink /\ feeding' = << >>
  <2>1. Separate(Boxes') /\ Known(Boxes') \subseteq Known(Boxes)
    BY <1>1, <1>10, DropsBoxes, Zenon DEF Drops
  <2>2. /\ Waiting' = Waiting /\ Paths(toSink)' = Paths(toSink) /\ Apart(engineInput)'
        /\ (Paths(engineInput) \cap Paths(feeding))' = {}
    BY <1>1, <1>8, <1>10, OnePath, Zenon DEF Waiting
  <2>3. /\ \A q \in Known(Boxes') : q \in Known(Boxes)
        /\ \A w \in Waiting' : w \in Waiting
        /\ \A q \in Paths(toSink) : q \in Paths(toSink)'
        /\ engine = "running" \/ engine' # "running"
    BY <1>1, <2>1, <2>2, Zenon
  <2> QED
    BY <1>1, <2>1, <2>2, <2>3, LineKeeps, Zenon
<1> QED
  BY <1>6, <1>9, <1>10, Zenon

LEMMA EngineTakeLine ==
    ASSUME SigTyped, LineInv, EngineTake
    PROVE  /\ LineInv'
           /\ Held(Boxes') = Held(Boxes) \cup
                {Findings(Head(engineInput).path, FindingsOf[Head(engineInput).kind])[i] :
                    i \in 1 .. Len(FindingsOf[Head(engineInput).kind])}
<1> DEFINE e == Head(engineInput)
           kinds == FindingsOf[e.kind]
           N == Paths(Findings(e.path, kinds))
<1>1. /\ engineInput # << >> /\ engineInput \in Seq(Ev) /\ engineInput' = Tail(engineInput)
      /\ emitting = << >> /\ emitting' = Findings(e.path, kinds)
      /\ feeding' = feeding /\ engine' = engine /\ fetched' = fetched /\ toSink' = toSink
      /\ engineOutputEvents' = engineOutputEvents /\ converting' = converting
      /\ engineOutput' = engineOutput
  BY DEF EngineTake, SigTyped, stageVars, converterVars
<1>2. /\ Apart(engineInput) /\ Paths(engineInput) \cap Paths(feeding) = {} /\ Separate(Boxes)
  BY Zenon DEF LineInv
<1>3. /\ e \in Ev /\ Apart(Tail(engineInput)) /\ e.path \in Paths(engineInput)
      /\ e.path \notin Paths(Tail(engineInput))
      /\ Paths(engineInput) = Paths(Tail(engineInput)) \cup {e.path}
  BY <1>1, <1>2, TailBox, Zenon
<1>4. e.path \in Seq(Nat) \ {<< >>} /\ kinds \in Seq(Kinds)
  BY <1>3, EvFields, ConstantTypes, Zenon
<1>5. /\ e.path \in Paths(toSink) /\ e.path[1] # 0
      /\ \A q \in Known(Boxes) : Len(q) > 1 => Parent(q) # e.path
  BY <1>3, Zenon DEF LineInv, Waiting
<1>6. \A q \in N : Len(q) > 1 /\ q[1] = e.path[1] /\ Parent(q) = e.path
  BY <1>4, FindingsBox, Zenon
<1>7. /\ Separate(Boxes') /\ Known(Boxes') = Known(Boxes) \cup N
      /\ Held(Boxes') = Held(Boxes) \cup {Findings(e.path, kinds)[i] : i \in 1 .. Len(kinds)}
  <2>1. \A q \in Known(Boxes) : ~(Len(q) > 1 /\ q[1] = e.path[1] /\ Parent(q) = e.path)
    BY <1>5, Zenon
  <2> QED
    BY <1>1, <1>2, <1>4, <2>1, EmitBoxes, Zenon
<1>8. /\ \A w \in Waiting' : w \in Waiting /\ w # e.path
      /\ Apart(engineInput)' /\ (Paths(engineInput) \cap Paths(feeding))' = {}
  BY <1>1, <1>2, <1>3, Zenon DEF Waiting
<1>9. \A q \in N : ~(Len(q) = 1) /\ q[1] # 0 /\ Parent(q) \in Paths(toSink)'
  <2>1. \A n : n > 1 => n # 1
    OBVIOUS
  <2> QED
    BY <1>1, <1>5, <1>6, <2>1, Zenon
<1> DEFINE V == {}
<1>10. /\ \A q \in Known(Boxes') : q \in Known(Boxes) \/ q \in N
       /\ \A w \in Waiting' : w \in Waiting \/ w \in V
       /\ \A q \in Paths(toSink) : q \in Paths(toSink)'
       /\ \A i \in 1 .. fetched : i \in 1 .. fetched'
       /\ engine = "running" \/ engine' # "running"
       /\ \A w : w \notin V
       /\ \A q \in N : \A w \in Waiting' : Len(q) > 1 => Parent(q) # w
  BY <1>1, <1>6, <1>7, <1>8, Zenon
<1>11. LineInv'
  <2> HIDE DEF N, V
  <2> QED
    BY <1>7, <1>8, <1>9, <1>10, LineGrows, Zenon
<1> QED
  BY <1>7, <1>11, Zenon

LEMMA EngineSignalLine ==
    ASSUME SigTyped, LineInv, EngineSignal
    PROVE  /\ LineInv'
           /\ Held(Boxes') = Held(Boxes) \cup
                {Findings(<<0>>, FinalFindings)[i] : i \in 1 .. Len(FinalFindings)}
<1> DEFINE N == Paths(Findings(<<0>>, FinalFindings))
<1>1. /\ engine = "running" /\ engine' = "signalled"
      /\ emitting = << >> /\ emitting' = Findings(<<0>>, FinalFindings)
      /\ engineInput' = engineInput /\ feeding' = feeding /\ fetched' = fetched
      /\ toSink' = toSink /\ engineOutputEvents' = engineOutputEvents
      /\ converting' = converting /\ engineOutput' = engineOutput
  BY DEF EngineSignal, stageVars, converterVars
<1>2. /\ Apart(engineInput) /\ Paths(engineInput) \cap Paths(feeding) = {} /\ Separate(Boxes)
  BY Zenon DEF LineInv
<1>3. <<0>> \in Seq(Nat) \ {<< >>} /\ <<0>>[1] = 0 /\ FinalFindings \in Seq(Kinds)
  BY ConstantTypes
<1>4. \A q \in Known(Boxes) : q[1] # 0
  BY <1>1, Zenon DEF LineInv
<1>5. \A q \in N : Len(q) > 1 /\ q[1] = 0 /\ Parent(q) = <<0>>
  BY <1>3, FindingsBox, Zenon
<1>6. /\ Separate(Boxes') /\ Known(Boxes') = Known(Boxes) \cup N
      /\ Held(Boxes') = Held(Boxes) \cup
            {Findings(<<0>>, FinalFindings)[i] : i \in 1 .. Len(FinalFindings)}
  <2>1. \A q \in Known(Boxes) : ~(Len(q) > 1 /\ q[1] = <<0>>[1] /\ Parent(q) = <<0>>)
    BY <1>3, <1>4, Zenon
  <2> QED
    BY <1>1, <1>2, <1>3, <2>1, EmitBoxes, Zenon
<1>7. \A w \in Waiting : w # <<0>>
  BY <1>3, Zenon DEF LineInv
<1>8. Waiting' = Waiting /\ Apart(engineInput)' /\ (Paths(engineInput) \cap Paths(feeding))' = {}
  BY <1>1, <1>2, Zenon DEF Waiting
<1>9. \A q \in N : q[1] = 0 /\ ~(Len(q) = 1) /\ engine' # "running"
  <2>1. \A n : n > 1 => n # 1
    OBVIOUS
  <2>2. engine' # "running"
    BY <1>1
  <2> QED
    BY <1>5, <2>1, <2>2, Zenon
<1> DEFINE V == {}
<1>10. /\ \A q \in Known(Boxes') : q \in Known(Boxes) \/ q \in N
       /\ \A w \in Waiting' : w \in Waiting \/ w \in V
       /\ \A q \in Paths(toSink) : q \in Paths(toSink)'
       /\ \A i \in 1 .. fetched : i \in 1 .. fetched'
       /\ engine = "running" \/ engine' # "running"
       /\ \A w : w \notin V
       /\ \A q \in N : \A w \in Waiting' : Len(q) > 1 => Parent(q) # w
  BY <1>1, <1>5, <1>6, <1>7, <1>8, Zenon
<1>11. LineInv'
  <2> HIDE DEF N, V
  <2> QED
    BY <1>6, <1>8, <1>9, <1>10, LineGrows, Zenon
<1> QED
  BY <1>6, <1>11, Zenon

(* The stage sends to the engine what it has sent to the sink.             *)
LEMMA SendLine ==
    ASSUME SigTyped, LineInv, SendToEngine
    PROVE  /\ Waiting' = Waiting /\ Apart(engineInput)'
           /\ (Paths(engineInput) \cap Paths(feeding))' = {}
           /\ Elems(engineInput)' = Elems(engineInput) \cup {feeding[1]}
<1>1. /\ feeding # << >> /\ feeding' = << >> /\ engineInput' = engineInput \o feeding
      /\ engineInput \in Seq(Ev) /\ feeding \in Seq(Ev) /\ Len(feeding) <= 1
  BY DEF SendToEngine, SigTyped
<1>2. /\ feeding = <<feeding[1]>> /\ feeding[1] \in Ev
      /\ engineInput' = Append(engineInput, feeding[1])
  BY <1>1, OneEvent, Zenon
<1>3. Paths(feeding) = {feeding[1].path} /\ Paths(feeding)' = {}
  BY <1>1, <1>2, OnePath, Zenon
<1>4. Apart(engineInput) /\ Paths(engineInput) \cap Paths(feeding) = {}
  BY Zenon DEF LineInv
<1>5. feeding[1].path \notin Paths(engineInput)
  BY <1>3, <1>4, Zenon
<1> DEFINE d == Append(engineInput, feeding[1])
<1>6. /\ Paths(d) = Paths(engineInput) \cup {feeding[1].path} /\ Apart(d)
      /\ Elems(d) = Elems(engineInput) \cup {feeding[1]}
  BY <1>1, <1>2, <1>4, <1>5, AppendBox, Zenon
<1>7. /\ Paths(engineInput)' = Paths(engineInput) \cup {feeding[1].path} /\ Apart(engineInput)'
      /\ Elems(engineInput)' = Elems(engineInput) \cup {feeding[1]}
  BY <1>2, <1>6, Zenon
<1> QED
  BY <1>3, <1>7, Zenon DEF Waiting

LEMMA LineNext == SigTyped /\ Phases /\ LineInv /\ [SigNext]_sigVars => LineInv'
<1> SUFFICES ASSUME SigTyped, Phases, LineInv, [SigNext]_sigVars PROVE LineInv'
  OBVIOUS
<1>0. /\ Separate(Boxes) /\ Apart(engineInput) /\ Paths(engineInput) \cap Paths(feeding) = {}
  BY Zenon DEF LineInv
<1>1. CASE TakeInput
  BY <1>1, TakeInputLine
<1>2. CASE TakeFinding
  BY <1>2, TakeFindingLine
<1>3. CASE EngineTake
  BY <1>3, EngineTakeLine, Zenon
<1>4. CASE EngineSignal
  BY <1>4, EngineSignalLine, Zenon
<1>5. CASE Rests
  <2>1. /\ Boxes' = Boxes /\ toSink' = toSink /\ fetched' = fetched
        /\ engine = "running" \/ engine' # "running"
    BY <1>5, RestsBoxes, Zenon
  <2>2. /\ Waiting' = Waiting /\ Apart(engineInput)'
        /\ (Paths(engineInput) \cap Paths(feeding))' = {}
    <3>1. CASE SendToEngine
      BY <3>1, SendLine, Zenon
    <3>2. CASE ~SendToEngine
      <4>1. engineInput' = engineInput /\ feeding' = feeding
        BY <1>5, <3>2 DEF Rests, SigInputClosed, QuiescentTimer, EngineDone, StageEnd,
           StageMoves, EngineEnd, ConverterEnd, sigVars, stageVars, engineVars, converterVars
      <4> QED
        BY <1>0, <4>1, Zenon DEF Waiting
    <3> QED
      BY <3>1, <3>2, Zenon
  <2>3. /\ Separate(Boxes') /\ \A q \in Known(Boxes') : q \in Known(Boxes)
    BY <1>0, <2>1, Zenon
  <2>4. /\ \A w \in Waiting' : w \in Waiting
        /\ \A q \in Paths(toSink) : q \in Paths(toSink)'
    BY <2>1, <2>2, Zenon
  <2> QED
    BY <2>1, <2>2, <2>3, <2>4, LineKeeps, Zenon
<1>6. CASE ForwardFinding \/ EngineEmit \/ ConverterSend \/ ConverterTake
  <2>1. /\ engineInput' = engineInput /\ feeding' = feeding /\ fetched' = fetched
        /\ engine' = engine
    BY <1>6 DEF ForwardFinding, EngineEmit, ConverterSend, ConverterTake, stageVars,
                engineVars, converterVars
  <2>2. Separate(Boxes') /\ \A q \in Known(Boxes') : q \in Known(Boxes)
    <3>1. CASE Moves
      BY <1>0, <3>1, MovesBoxes, Zenon
    <3>2. CASE Drops
      BY <1>0, <3>2, DropsBoxes, Zenon
    <3> QED
      BY <1>6, <3>1, <3>2, Zenon DEF Moves, Drops
  <2>3. \A q \in Paths(toSink) : q \in Paths(toSink)'
    <3>1. CASE ForwardFinding
      <4>1. /\ toSink' = Append(toSink, Head(engineOutputEvents))
            /\ engineOutputEvents # << >> /\ engineOutputEvents \in Seq(Ev)
        BY <3>1 DEF ForwardFinding, SigTyped
      <4>2. Head(engineOutputEvents) \in Ev
        BY <4>1
      <4> QED
        BY <4>1, <4>2, SinkGrows, Zenon
    <3>2. CASE EngineEmit \/ ConverterSend \/ ConverterTake
      <4>1. toSink' = toSink
        BY <3>2 DEF EngineEmit, ConverterSend, ConverterTake, stageVars
      <4> QED
        BY <4>1, Zenon
    <3> QED
      BY <1>6, <3>1, <3>2, Zenon
  <2>4. /\ \A w \in Waiting' : w \in Waiting
        /\ Apart(engineInput)' /\ (Paths(engineInput) \cap Paths(feeding))' = {}
        /\ engine = "running" \/ engine' # "running"
    BY <1>0, <2>1, Zenon DEF Waiting
  <2> QED
    BY <2>1, <2>2, <2>3, <2>4, LineKeeps, Zenon
<1> QED
  BY <1>1, <1>2, <1>3, <1>4, <1>5, <1>6, Zenon
  DEF SigNext, StageNext, EngineNext, ConverterNext, Rests

-----------------------------------------------------------------------------
(* A finding comes after its cause.                                        *)

LEMMA PrefixPaths ==
    ASSUME NEW c \in Seq(Ev), NEW n \in 0 .. Len(c)
    PROVE  Paths(SubSeq(c, 1, n)) = {c[j].path : j \in 1 .. n}
<1>1. Len(SubSeq(c, 1, n)) = n /\ \A j \in 1 .. n : SubSeq(c, 1, n)[j] = c[j]
  OBVIOUS
<1> QED
  BY <1>1 DEF Paths

LEMMA AppendPrefix ==
    ASSUME NEW c \in Seq(Ev), NEW e \in Ev, NEW n \in 0 .. Len(c)
    PROVE  Paths(SubSeq(Append(c, e), 1, n)) = Paths(SubSeq(c, 1, n))
<1>1. Append(c, e) \in Seq(Ev) /\ n \in 0 .. Len(Append(c, e)) /\ Len(c) \in Nat
  OBVIOUS
<1>2. \A j \in 1 .. n : Append(c, e)[j] = c[j]
  OBVIOUS
<1>3. Paths(SubSeq(Append(c, e), 1, n)) = {Append(c, e)[j].path : j \in 1 .. n}
  BY <1>1, PrefixPaths, Zenon
<1>4. Paths(SubSeq(c, 1, n)) = {c[j].path : j \in 1 .. n}
  BY PrefixPaths, Zenon
<1>5. {Append(c, e)[j].path : j \in 1 .. n} = {c[j].path : j \in 1 .. n}
  BY <1>2, Zenon
<1> QED
  BY <1>3, <1>4, <1>5, Zenon

(* The sink gets nothing, an input, or an event from engineOutputEvents.   *)
LEMMA SinkStep ==
    ASSUME SigTyped, [SigNext]_sigVars
    PROVE  \/ toSink' = toSink
           \/ \E e \in Ev : /\ toSink' = Append(toSink, e)
                            /\ e.path \in Known(Boxes) \/ Len(e.path) = 1
<1>1. CASE TakeInput
  <2> DEFINE e == SigEvent(<<fetched + 1>>, SigInputs[fetched + 1])
  <2>1. fetched' = fetched + 1 /\ fetched < Len(SigInputs) /\ FeedEngine(e)
    BY <1>1 DEF TakeInput
  <2>2. e \in Ev /\ e.path = <<fetched + 1>>
    BY <2>1, InputIsEvent
  <2>3. Len(e.path) = 1
    BY <2>2
  <2> HIDE DEF e
  <2>4. toSink' = Append(toSink, e) \/ toSink' = toSink
    BY <2>1, <2>2, FeedFacts, Zenon
  <2> QED
    BY <2>2, <2>3, <2>4, Zenon
<1>2. CASE TakeFinding \/ ForwardFinding
  <2> DEFINE e == Head(engineOutputEvents)
  <2>1. /\ engineOutputEvents # << >> /\ engineOutputEvents \in Seq(Ev)
        /\ toSink' = Append(toSink, e) \/ toSink' = toSink
    BY <1>2 DEF TakeFinding, FeedEngine, ForwardFinding, SigTyped
  <2>2. e \in Ev /\ e = engineOutputEvents[1] /\ 1 \in 1 .. Len(engineOutputEvents)
    BY <2>1
  <2>3. e.path \in Paths(engineOutputEvents)
    BY <2>2 DEF Paths
  <2>4. 2 \in 1 .. 5 /\ Boxes[2] = engineOutputEvents
    BY BoxesAre
  <2>5. e.path \in Known(Boxes)
    BY <2>3, <2>4, KnownHeld, Zenon
  <2> QED
    BY <2>1, <2>2, <2>5, Zenon
<1>3. CASE ~TakeInput /\ ~TakeFinding /\ ~ForwardFinding
  BY <1>3 DEF SigNext, StageNext, EngineNext, ConverterNext, SendToEngine, SigInputClosed,
     QuiescentTimer, EngineDone, StageEnd, StageMoves, EngineTake, EngineEmit, EngineSignal,
     EngineEnd, ConverterTake, ConverterSend, ConverterEnd, sigVars, stageVars
<1> QED
  BY <1>1, <1>2, <1>3, Zenon

LEMMA CauseNext == SigTyped /\ LineInv /\ CauseInv /\ [SigNext]_sigVars => CauseInv'
<1> SUFFICES ASSUME SigTyped, LineInv, CauseInv, [SigNext]_sigVars PROVE CauseInv'
  OBVIOUS
<1>1. CASE toSink' = toSink
  BY <1>1, Zenon DEF CauseInv
<1>2. ASSUME NEW e \in Ev, toSink' = Append(toSink, e),
             e.path \in Known(Boxes) \/ Len(e.path) = 1
      PROVE  CauseInv'
  <2>1. toSink \in Seq(Ev) /\ Len(toSink) \in Nat /\ Len(toSink') = Len(toSink) + 1
    BY <1>2 DEF SigTyped
  <2>2. Len(e.path) > 1 /\ e.path[1] # 0 => Parent(e.path) \in Paths(toSink)
    <3>1. \A n : n > 1 => n # 1
      OBVIOUS
    <3> QED
      BY <1>2, <3>1, Zenon DEF LineInv
  <2> DEFINE Caused(p, c, n) == Len(p) > 1 /\ p[1] # 0 => Parent(p) \in Paths(SubSeq(c, 1, n))
  <2>3. ASSUME NEW i \in 1 .. Len(toSink') PROVE Caused(toSink'[i].path, toSink', i - 1)
    <3>1. i - 1 \in 0 .. Len(toSink)
      BY <2>1
    <3>2. Paths(SubSeq(toSink', 1, i - 1)) = Paths(SubSeq(toSink, 1, i - 1))
      BY <1>2, <2>1, <3>1, AppendPrefix, Zenon
    <3>3. CASE i \in 1 .. Len(toSink)
      <4>1. toSink'[i] = toSink[i]
        BY <1>2, <2>1, <3>3
      <4>2. Caused(toSink[i].path, toSink, i - 1)
        BY <3>3, Zenon DEF CauseInv
      <4> QED
        BY <3>2, <4>1, <4>2, Zenon
    <3>4. CASE i = Len(toSink) + 1
      <4>1. toSink'[i] = e /\ i - 1 = Len(toSink)
        BY <1>2, <2>1, <3>4
      <4>2. SubSeq(toSink, 1, Len(toSink)) = toSink
        BY <2>1
      <4>3. Paths(SubSeq(toSink', 1, i - 1)) = Paths(toSink)
        BY <3>2, <4>1, <4>2, Zenon
      <4> QED
        BY <2>2, <4>1, <4>3, Zenon
    <3> QED
      BY <2>1, <3>3, <3>4
  <2> QED
    BY <2>3, Zenon DEF CauseInv
<1> QED
  BY <1>1, <1>2, SinkStep, Zenon

-----------------------------------------------------------------------------
(* What is to be forwarded stays on its way.                               *)

LEMMA WholeInit == SigInit => WholeInv
BY DEF SigInit, WholeInv

(* No step takes from the boxes a kept finding that is to be submitted,    *)
(* nor, once the source has completed, any kept finding.                   *)
LEMMA HeldNext ==
    ASSUME SigTyped, Phases, LineInv, [SigNext]_sigVars
    PROVE  /\ \A f \in Held(Boxes) : f.kind \in Kept /\ f.kind \in Submit => f \in Held(Boxes')
           /\ engine # "running" =>
                 \A f \in Held(Boxes) : f.kind \in Kept => f \in Held(Boxes')
<1>0. Separate(Boxes)
  BY Zenon DEF LineInv
<1>1. CASE Rests
  <2>1. Boxes' = Boxes
    BY <1>1, RestsBoxes, Zenon
  <2> QED
    BY <2>1, Zenon
<1>2. CASE Moves
  BY <1>0, <1>2, MovesBoxes, Zenon
<1>3. CASE Drops
  <2>1. engine # "running" => ~TakeFinding
    BY DEF Phases, Closing, TakeFinding
  <2> QED
    BY <1>0, <1>3, <2>1, DropsBoxes, Zenon
<1>4. CASE EngineTake
  BY <1>4, EngineTakeLine, Zenon
<1>5. CASE EngineSignal
  BY <1>5, EngineSignalLine, Zenon
<1>6. CASE TakeInput
  <2> DEFINE e == SigEvent(<<fetched + 1>>, SigInputs[fetched + 1])
  <2>1. /\ fetched' = fetched + 1 /\ fetched < Len(SigInputs) /\ FeedEngine(e)
        /\ engineOutputEvents' = engineOutputEvents /\ converting' = converting
        /\ engineOutput' = engineOutput /\ emitting' = emitting /\ toSink \in Seq(Ev)
    BY <1>6 DEF TakeInput, engineVars, converterVars, SigTyped
  <2>2. e \in Ev
    BY <2>1, InputIsEvent
  <2> HIDE DEF e
  <2>3. toSink' = Append(toSink, e) \/ toSink' = toSink
    BY <2>1, <2>2, FeedFacts, Zenon
  <2>4. Elems(Append(toSink, e)) = Elems(toSink) \cup {e}
    BY <2>1, <2>2, AppendBox, Zenon
  <2>5. \A f \in Elems(Boxes[1]) : f \in Elems(Boxes'[1])
    BY <2>3, <2>4, BoxesAre, BoxesAreNext, Zenon
  <2>6. 1 \in 1 .. 5 /\ \A m \in 1 .. 5 : m # 1 => Boxes'[m] = Boxes[m]
    BY <2>1, FiveBoxes
  <2>7. \A m \in 1 .. 5 : \A f \in Elems(Boxes[m]) : f \in Elems(Boxes'[m])
    BY <2>5, <2>6, Zenon
  <2>8. \A f \in Held(Boxes) : f \in Held(Boxes')
    BY <2>7, KnownHeld, Zenon
  <2> QED
    BY <2>8, Zenon
<1> QED
  BY <1>1, <1>2, <1>3, <1>4, <1>5, <1>6, Zenon
  DEF SigNext, StageNext, EngineNext, ConverterNext, Rests, Moves, Drops

(* Every input that is to be submitted goes to the sink when it is taken.  *)
LEMMA InputsNext ==
    ASSUME SigTyped, [SigNext]_sigVars,
           \A n \in 1 .. fetched : SigInputs[n] \in Proto \cup Submit => <<n>> \in Paths(toSink)
    PROVE  \A n \in 1 .. fetched' : SigInputs[n] \in Proto \cup Submit => <<n>> \in Paths(toSink)'
<1>1. \A q \in Paths(toSink) : q \in Paths(toSink)'
  BY SinkStep, SinkGrows, Zenon
<1>2. CASE TakeInput
  <2> DEFINE e == SigEvent(<<fetched + 1>>, SigInputs[fetched + 1])
  <2>1. fetched' = fetched + 1 /\ fetched < Len(SigInputs) /\ FeedEngine(e) /\ fetched \in Nat
    BY <1>2 DEF TakeInput, SigTyped
  <2>2. e \in Ev /\ e.path = <<fetched + 1>> /\ e.kind = SigInputs[fetched + 1]
    BY <2>1, InputIsEvent
  <2> HIDE DEF e
  <2>3. e.kind \in Proto \cup Submit => toSink' = Append(toSink, e)
    BY <2>1, <2>2, FeedFacts, Zenon
  <2>4. SigInputs[fetched + 1] \in Proto \cup Submit => <<fetched + 1>> \in Paths(toSink)'
    BY <2>2, <2>3, SinkGrows, Zenon
  <2>5. \A n \in 1 .. fetched' : n \in 1 .. fetched \/ n = fetched + 1
    BY <2>1
  <2> QED
    BY <1>1, <2>4, <2>5, Zenon
<1>3. CASE ~TakeInput
  <2>1. fetched' = fetched
    BY <1>3 DEF SigNext, StageNext, EngineNext, ConverterNext, SendToEngine, SigInputClosed,
       QuiescentTimer, EngineDone, StageEnd, StageMoves, EngineTake, EngineEmit, EngineSignal,
       EngineEnd, ConverterTake, ConverterSend, ConverterEnd, sigVars, stageVars,
       TakeFinding, ForwardFinding
  <2> QED
    BY <1>1, <2>1, Zenon
<1> QED
  BY <1>2, <1>3, Zenon

LEMMA ReportedKept ==
    ASSUME NEW e
    PROVE  \A f \in Reported(e) :
              /\ f.kind \in Kept
              /\ f \in {Findings(e.path, FindingsOf[e.kind])[i] :
                           i \in 1 .. Len(FindingsOf[e.kind])}
BY Zenon DEF Reported

(* What was fed waits for the engine, or its findings are on their way.    *)
FedInv == \A e \in fed : \/ e \in Elems(engineInput)
                         \/ \A f \in Reported(e) : f.kind \in Submit => f \in Held(Boxes)

LEMMA FedNext ==
    ASSUME SigTyped, Phases, LineInv, [SigNext]_sigVars, FedInv
    PROVE  FedInv'
<1>1. \A f \in Held(Boxes) : f.kind \in Kept /\ f.kind \in Submit => f \in Held(Boxes')
  BY HeldNext, Zenon
<1>2. \A e : (\A f \in Reported(e) : f.kind \in Submit => f \in Held(Boxes)) =>
             \A f \in Reported(e) : f.kind \in Submit => f \in Held(Boxes')
  BY <1>1, ReportedKept, Zenon
<1>3. CASE SendToEngine
  <2>1. fed' = fed \cup {feeding[1]}
    BY <1>3 DEF SendToEngine
  <2>2. Elems(engineInput)' = Elems(engineInput) \cup {feeding[1]}
    BY <1>3, SendLine, Zenon
  <2> QED
    BY <1>2, <2>1, <2>2, Zenon DEF FedInv
<1>4. CASE EngineTake
  <2> DEFINE h == Head(engineInput)
  <2>1. /\ fed' = fed /\ engineInput' = Tail(engineInput)
        /\ engineInput \in Seq(Ev) /\ engineInput # << >>
    BY <1>4 DEF EngineTake, stageVars, SigTyped
  <2>2. Apart(engineInput)
    BY Zenon DEF LineInv
  <2>3. Elems(engineInput) = Elems(Tail(engineInput)) \cup {h}
    BY <2>1, <2>2, TailBox, Zenon
  <2>4. \A f \in {Findings(h.path, FindingsOf[h.kind])[i] : i \in 1 .. Len(FindingsOf[h.kind])} :
           f \in Held(Boxes')
    BY <1>4, EngineTakeLine, Zenon
  <2> HIDE DEF h
  <2>5. \A f \in Reported(h) : f \in Held(Boxes')
    BY <2>4, ReportedKept, Zenon
  <2> QED
    BY <1>2, <2>1, <2>3, <2>5, Zenon DEF FedInv
<1>5. CASE ~SendToEngine /\ ~EngineTake
  <2>1. fed' = fed /\ engineInput' = engineInput
    BY <1>5 DEF SigNext, StageNext, EngineNext, ConverterNext, TakeInput, TakeFinding,
       SigInputClosed, QuiescentTimer, ForwardFinding, EngineDone, StageEnd, StageMoves,
       EngineEmit, EngineSignal, EngineEnd, ConverterTake, ConverterSend, ConverterEnd,
       sigVars, stageVars
  <2> QED
    BY <1>2, <2>1, Zenon DEF FedInv
<1> QED
  BY <1>3, <1>4, <1>5, Zenon

(* The findings reported when the source completes are on their way.       *)
FinalInv == engine # "running" =>
    \A i \in 1 .. Len(FinalFindings) : FinalFindings[i] \in Kept =>
        SigEvent(<<0, i>>, FinalFindings[i]) \in Held(Boxes)

LEMMA FinalNext ==
    ASSUME SigTyped, Phases, LineInv, [SigNext]_sigVars, FinalInv
    PROVE  FinalInv'
<1>1. CASE EngineSignal
  <2>1. \A f \in {Findings(<<0>>, FinalFindings)[i] : i \in 1 .. Len(FinalFindings)} :
           f \in Held(Boxes')
    BY <1>1, EngineSignalLine, Zenon
  <2>2. ASSUME NEW i \in 1 .. Len(FinalFindings)
        PROVE  Findings(<<0>>, FinalFindings)[i] = SigEvent(<<0, i>>, FinalFindings[i])
    <3>1. Append(<<0>>, i) = <<0, i>>
      BY FinalPath
    <3>2. Findings(<<0>>, FinalFindings)[i] = SigEvent(Append(<<0>>, i), FinalFindings[i])
      BY <2>2 DEF Findings
    <3> QED
      BY <3>1, <3>2, Zenon
  <2>3. \A i \in 1 .. Len(FinalFindings) : SigEvent(<<0, i>>, FinalFindings[i]) \in Held(Boxes')
    BY <2>1, <2>2, Zenon
  <2> QED
    BY <2>3, Zenon DEF FinalInv
<1>2. CASE ~EngineSignal
  <2>1. engine' # "running" => engine # "running"
    BY <1>2 DEF SigNext, StageNext, EngineNext, ConverterNext, TakeInput, TakeFinding,
       SigInputClosed, QuiescentTimer, ForwardFinding, EngineDone, StageEnd, StageMoves,
       SendToEngine, EngineTake, EngineEmit, EngineEnd, ConverterTake, ConverterSend,
       ConverterEnd, sigVars, engineVars
  <2>2. engine # "running" => \A f \in Held(Boxes) : f.kind \in Kept => f \in Held(Boxes')
    BY HeldNext, Zenon
  <2>3. \A p, k : SigEvent(p, k).kind = k
    BY DEF SigEvent
  <2>4. ASSUME engine' # "running", NEW i \in 1 .. Len(FinalFindings), FinalFindings[i] \in Kept
        PROVE  SigEvent(<<0, i>>, FinalFindings[i]) \in Held(Boxes')
    <3> DEFINE f == SigEvent(<<0, i>>, FinalFindings[i])
    <3>1. engine # "running" /\ f \in Held(Boxes)
      BY <2>1, <2>4, Zenon DEF FinalInv
    <3>2. f.kind \in Kept
      BY <2>3, <2>4, Zenon
    <3> QED
      BY <2>2, <3>1, <3>2, Zenon
  <2> QED
    BY <2>4, ZenonT(30) DEF FinalInv
<1> QED
  BY <1>1, <1>2, Zenon

LEMMA WholeNext ==
    SigTyped /\ Phases /\ LineInv /\ WholeInv /\ [SigNext]_sigVars => WholeInv'
<1> SUFFICES ASSUME SigTyped, Phases, LineInv, WholeInv, [SigNext]_sigVars PROVE WholeInv'
  OBVIOUS
<1>1. \A n \in 1 .. fetched' : SigInputs[n] \in Proto \cup Submit => <<n>> \in Paths(toSink)'
  BY InputsNext, Zenon DEF WholeInv
<1>2. FedInv'
  BY FedNext, Zenon DEF WholeInv, FedInv
<1>3. FinalInv'
  BY FinalNext, Zenon DEF WholeInv, FinalInv
<1> QED
  BY <1>1, <1>2, <1>3, Zenon DEF WholeInv, FedInv, FinalInv

-----------------------------------------------------------------------------
(* The results.                                                            *)

LEMMA SigInvHolds == SigSpec => []SigInv
<1>1. SigInit => SigInv
  BY TypedInit, LineInit, WholeInit, Zenon DEF SigInv
<1>2. SigInv /\ [SigNext]_sigVars => SigInv'
  BY TypedNext, PhasesNext, LineNext, CauseNext, WholeNext, Zenon DEF SigInv
<1> QED
  BY <1>1, <1>2, PTL DEF SigSpec

(* The sink sees every event once, and a finding only after the event that *)
(* triggered it, although the two travel along different channels.         *)
THEOREM CausesFirst == SigSpec => []CausalOrder
<1>1. SigInv => CausalOrder
  <2> SUFFICES ASSUME SigInv PROVE CausalOrder
    OBVIOUS
  <2>1. 1 \in 1 .. 5 /\ Boxes[1] = toSink
    BY BoxesAre
  <2>2. Separate(Boxes) /\ CauseInv
    BY Zenon DEF SigInv, LineInv
  <2>3. Apart(Boxes[1])
    BY <2>1, <2>2, Zenon DEF Separate
  <2>4. Apart(toSink)
    BY <2>1, <2>3, Zenon
  <2> QED
    BY <2>2, <2>4, Zenon DEF CausalOrder, CauseInv, Apart
<1> QED
  BY <1>1, SigInvHolds, PTL

(* When the stage ends, every input to be submitted, every kept finding    *)
(* for an event the engine was fed that is to be submitted, and every kept *)
(* final finding has gone to the sink.                                     *)
THEOREM NothingLost == SigSpec => []FindingsForwarded
<1>1. SigInv => FindingsForwarded
  <2> SUFFICES ASSUME SigInv, stage = "done"
               PROVE  /\ \A n \in 1 .. Len(SigInputs) :
                            SigInputs[n] \in Proto \cup Submit => <<n>> \in Paths(toSink)
                      /\ \A e \in fed : \A f \in Reported(e) :
                            f.kind \in Submit => f.path \in Paths(toSink)
                      /\ \A i \in 1 .. Len(FinalFindings) :
                            FinalFindings[i] \in Kept => <<0, i>> \in Paths(toSink)
    BY Zenon DEF FindingsForwarded
  <2>1. /\ fetched = Len(SigInputs) /\ engine # "running" /\ engineInput = << >>
        /\ engineOutputEvents = << >> /\ converting = << >> /\ engineOutput = << >>
        /\ emitting = << >>
    BY DEF SigInv, Phases, Closing
  <2>2. Elems(<< >>) = {}
    BY DEF Elems
  <2>3. \A f \in Held(Boxes) : f \in Elems(toSink)
    <3>1. \A k \in 1 .. 5 : k = 1 \/ Boxes[k] = << >>
      BY <2>1 DEF Boxes
    <3>2. Boxes[1] = toSink
      BY BoxesAre
    <3> QED
      BY <2>2, <3>1, <3>2, KnownHeld, Zenon
  <2>4. \A f \in Elems(toSink) : f.path \in Paths(toSink)
    BY DEF Elems, Paths
  <2>5. WholeInv
    BY DEF SigInv
  <2>6. \A e \in fed : \A f \in Reported(e) : f.kind \in Submit => f.path \in Paths(toSink)
    <3>1. Elems(engineInput) = {}
      BY <2>1, <2>2, Zenon
    <3> QED
      BY <2>3, <2>4, <2>5, <3>1, Zenon DEF WholeInv
  <2>7. \A i \in 1 .. Len(FinalFindings) : FinalFindings[i] \in Kept => <<0, i>> \in Paths(toSink)
    <3>1. \A p, k : SigEvent(p, k).path = p
      BY DEF SigEvent
    <3> QED
      BY <2>1, <2>3, <2>4, <2>5, <3>1, Zenon DEF WholeInv
  <2>8. \A n \in 1 .. Len(SigInputs) : SigInputs[n] \in Proto \cup Submit => <<n>> \in Paths(toSink)
    BY <2>1, <2>5, Zenon DEF WholeInv
  <2> QED
    BY <2>6, <2>7, <2>8, Zenon
<1> QED
  BY <1>1, SigInvHolds, PTL
=============================================================================
