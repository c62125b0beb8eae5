------------------------ MODULE ContainerEnrichProofs ------------------------
(***************************************************************************)
(* The enrichment stage sends every event on exactly once, and a           *)
(* cgroup_rmdir that went through the cleaner after the earlier events of  *)
(* its cgroup, for any events, any cgroups and any sizes of the queues.    *)
(*                                                                         *)
(* The argument: an event that was taken and not yet sent on is in one     *)
(* place: in the hands of the writer, in the queue of its own cgroup, in   *)
(* queueClean or in the hands of the cleaner (PlaceInv).  So whoever takes *)
(* it out of its place is the only one to send it on.  No place is emptied *)
(* otherwise, as the cleaner finds the queue that it closes empty: the     *)
(* writer is past the events of a cgroup whose removal it handed over      *)
(* (WholeInv).                                                             *)
(***************************************************************************)
EXTENDS ContainerEnrich, TLAPS

Elems(s) == {s[i] : i \in 1 .. Len(s)}

Distinct(s) == \A i, j \in 1 .. Len(s) : i # j => s[i] # s[j]

PassedIds == {passed[k].id : k \in 1 .. Len(passed)}

(* The writer has an event of a container; it has not queued it yet.       *)
Busy == writer \in {"lookup", "send", "schedule", "fallback"}
InHand == writer \in {"lookup", "send"}

(* The cleaner has a cgroup_rmdir.                                         *)
Cleaning == cleaner \in {"clean", "len", "receive", "close"}

(* What the goroutines know where they are.                                *)
WriterInv ==
    /\ Busy => received \in Ids /\ inputs[received].type = "queued"
    /\ writer \in {"take", "lookup", "done"} => handle = "nil"
    /\ writer \in {"schedule", "fallback"} => handle # "nil"
    /\ handle = "open" => Current \in DOMAIN cgroupQueues
    /\ handle = "closed" => Current \notin DOMAIN cgroupQueues
    /\ handle # "closed" => orphan = << >>
    /\ writer = "done" => received = Len(inputs)

ReaderInv ==
    /\ reader \in {"drain", "all", "done"} => writer = "done"
    /\ reader \in {"len", "receive"} => bLock = "reader" /\ ready \in DOMAIN cgroupQueues
    /\ reader = "all" => bLock = "reader"
    /\ reader = "done" => \A c \in DOMAIN cgroupQueues : cgroupQueues[c] = << >>

CleanerInv ==
    /\ cleaner \in {"len", "receive", "close"} =>
          bLock = "cleaner" /\ Removed \in DOMAIN cgroupQueues
    /\ ~canReschedule => writer = "done"
    /\ cleaner = "done" => ~canReschedule /\ queueClean = << >>

CtrlInv == WriterInv /\ ReaderInv /\ CleanerInv

(* Event i waits in the queue of cgroup c; cgroup_rmdir i waits.           *)
Waits(i, c) ==
    /\ i \in 1 .. received /\ inputs[i].cgroup = c /\ inputs[i].type = "queued"
    /\ i \notin PassedIds /\ (InHand => i # received)

WaitsRmdir(i) == i \in 1 .. received /\ inputs[i].type = "rmdir" /\ i \notin PassedIds

PlaceInv ==
    /\ AtMostOnce /\ PassedIds \subseteq 1 .. received
    /\ InHand => received \notin PassedIds
    /\ \A c \in DOMAIN cgroupQueues :
          Distinct(cgroupQueues[c]) /\ \A i \in Elems(cgroupQueues[c]) : Waits(i, c)
    /\ \A i \in Elems(orphan) : Waits(i, Current)
    /\ Distinct(queueClean) /\ \A i \in Elems(queueClean) : WaitsRmdir(i)
    /\ Cleaning => WaitsRmdir(rmdir) /\ rmdir \notin Elems(queueClean)

(* Event i is sent on, or in one of the places.                            *)
Kept(i) ==
    \/ i \in PassedIds
    \/ InHand /\ i = received
    \/ \E c \in DOMAIN cgroupQueues : i \in Elems(cgroupQueues[c])
    \/ i \in Elems(queueClean)
    \/ Cleaning /\ i = rmdir

WholeInv ==
    InOrder => /\ handle # "closed"
               /\ cleaner = "close" => cgroupQueues[Removed] = << >>
               /\ \A i \in 1 .. received : Kept(i)

EnrichInv == EnrichTypeOK /\ CtrlInv /\ PlaceInv /\ WholeInv /\ RmdirLast

-----------------------------------------------------------------------------
(* Sequences.                                                              *)

LEMMA ElemsAppend ==
    ASSUME NEW S, NEW s \in Seq(S), NEW e \in S
    PROVE  /\ Append(s, e) \in Seq(S) /\ Len(Append(s, e)) = Len(s) + 1
           /\ Elems(Append(s, e)) = Elems(s) \cup {e}
           /\ Distinct(s) /\ e \notin Elems(s) => Distinct(Append(s, e))
<1> DEFINE r == Append(s, e)
<1>1. /\ r \in Seq(S) /\ Len(r) = Len(s) + 1 /\ Len(s) \in Nat
      /\ \A i \in 1 .. Len(s) : r[i] = s[i]
      /\ r[Len(s) + 1] = e
  OBVIOUS
<1> HIDE DEF r
<1>2. \A i \in 1 .. Len(s) + 1 : i \in 1 .. Len(s) \/ i = Len(s) + 1
  BY <1>1
<1>3. \A i \in 1 .. Len(s) : i \in 1 .. Len(s) + 1
  BY <1>1
<1>4. Len(s) + 1 \in 1 .. Len(s) + 1
  BY <1>1
<1>5. Elems(r) = Elems(s) \cup {e}
  <2>1. ASSUME NEW x \in Elems(r) PROVE x \in Elems(s) \cup {e}
    BY <1>1, <1>2, <2>1, Zenon DEF Elems
  <2>2. ASSUME NEW x \in Elems(s) PROVE x \in Elems(r)
    <3>1. PICK i \in 1 .. Len(s) : x = s[i]
      BY <2>2, Zenon DEF Elems
    <3> QED  BY <1>1, <1>3, <3>1, Zenon DEF Elems
  <2>3. e \in Elems(r)
    BY <1>1, <1>4, Zenon DEF Elems
  <2> QED  BY <2>1, <2>2, <2>3
<1>6. ASSUME Distinct(s), e \notin Elems(s) PROVE Distinct(r)
  <2>1. \A i \in 1 .. Len(s) : s[i] # e
    BY <1>6, Zenon DEF Elems
  <2> QED  BY <1>1, <1>2, <1>6, <2>1, Zenon DEF Distinct
<1> QED  BY <1>1, <1>5, <1>6 DEF r

LEMMA ElemsTail ==
    ASSUME NEW S, NEW s \in Seq(S), s # << >>, Distinct(s)
    PROVE  /\ Head(s) \in S /\ Head(s) \in Elems(s) /\ Tail(s) \in Seq(S)
           /\ Len(Tail(s)) = Len(s) - 1
           /\ Elems(Tail(s)) = Elems(s) \ {Head(s)} /\ Distinct(Tail(s))
<1> DEFINE r == Tail(s)
           h == Head(s)
<1>1. /\ h \in S /\ r \in Seq(S) /\ Len(s) \in Nat /\ Len(s) > 0 /\ Len(r) = Len(s) - 1
      /\ s[1] = h /\ \A i \in 1 .. Len(r) : r[i] = s[i + 1]
  OBVIOUS
<1> HIDE DEF r, h
<1>2. 1 \in 1 .. Len(s)
  BY <1>1
<1>3. \A i \in 1 .. Len(r) : i + 1 \in 1 .. Len(s) /\ i + 1 # 1
  BY <1>1
<1>4. \A i \in 1 .. Len(s) : i = 1 \/ \E j \in 1 .. Len(r) : i = j + 1
  <2> SUFFICES ASSUME NEW i \in 1 .. Len(s), i # 1 PROVE \E j \in 1 .. Len(r) : i = j + 1
    OBVIOUS
  <2>1. i - 1 \in 1 .. Len(r) /\ i = (i - 1) + 1
    BY <1>1
  <2> QED  BY <2>1
<1>5. h \in Elems(s)
  BY <1>1, <1>2, Zenon DEF Elems
<1>6. Elems(r) = Elems(s) \ {h}
  <2>1. ASSUME NEW x \in Elems(r) PROVE x \in Elems(s) /\ x # h
    <3>1. PICK i \in 1 .. Len(r) : x = r[i]
      BY <2>1, Zenon DEF Elems
    <3>2. x = s[i + 1] /\ i + 1 \in 1 .. Len(s) /\ i + 1 # 1
      BY <1>1, <1>3, <3>1, Zenon
    <3> QED  BY <1>1, <1>2, <3>2, Zenon DEF Elems, Distinct
  <2>2. ASSUME NEW x \in Elems(s), x # h PROVE x \in Elems(r)
    <3>1. PICK i \in 1 .. Len(s) : x = s[i]
      BY <2>2, Zenon DEF Elems
    <3>2. PICK j \in 1 .. Len(r) : i = j + 1
      BY <1>1, <1>4, <2>2, <3>1, Zenon
    <3> QED  BY <1>1, <3>1, <3>2, Zenon DEF Elems
  <2> QED  BY <2>1, <2>2
<1>7. Distinct(r)
  <2> SUFFICES ASSUME NEW i \in 1 .. Len(r), NEW j \in 1 .. Len(r), i # j PROVE r[i] # r[j]
    BY DEF Distinct
  <2>1. i + 1 # j + 1
    BY <1>1
  <2> QED  BY <1>1, <1>3, <2>1, Zenon DEF Distinct
<1> QED  BY <1>1, <1>5, <1>6, <1>7 DEF r, h

LEMMA ElemsEmpty == Elems(<< >>) = {} /\ Distinct(<< >>)
BY DEF Elems, Distinct

LEMMA ElementType ==
    ASSUME NEW S, NEW s \in Seq(S) PROVE Len(s) \in Nat /\ \A i \in 1 .. Len(s) : s[i] \in S
OBVIOUS

LEMMA ConcatFacts ==
    ASSUME NEW S, NEW s \in Seq(S), NEW r \in Seq(S)
    PROVE  /\ s \o r \in Seq(S) /\ Len(s \o r) = Len(s) + Len(r)
           /\ \A k \in 1 .. Len(s) : (s \o r)[k] = s[k]
           /\ \A k \in 1 .. Len(r) : (s \o r)[Len(s) + k] = r[k]
OBVIOUS

LEMMA ElemsOf ==
    ASSUME NEW S, NEW s \in Seq(S), s # << >>
    PROVE  Head(s) \in Elems(s)
BY DEF Elems

-----------------------------------------------------------------------------
(* Sending on.                                                             *)

Passes == [id : Ids, way : {"direct", "queue", "cleaner"}, enriched : BOOLEAN]

LEMMA PassOne ==
    ASSUME passed \in Seq(Passes), AtMostOnce, NEW r \in Passes, r.id \notin PassedIds,
           passed' = Append(passed, r)
    PROVE  AtMostOnce' /\ PassedIds' = PassedIds \cup {r.id}
<1>1. /\ Len(passed') = Len(passed) + 1 /\ Len(passed) \in Nat
      /\ \A k \in 1 .. Len(passed) : passed'[k] = passed[k]
      /\ passed'[Len(passed) + 1] = r
  OBVIOUS
<1>2. \A i \in 1 .. Len(passed') : i \in 1 .. Len(passed) \/ i = Len(passed) + 1
  BY <1>1
<1>3. \A i \in 1 .. Len(passed) : i \in 1 .. Len(passed')
  BY <1>1
<1>4. Len(passed) + 1 \in 1 .. Len(passed')
  BY <1>1
<1>5. \A i \in 1 .. Len(passed) : passed[i].id # r.id
  BY Zenon DEF PassedIds
<1>6. AtMostOnce'
  <2> SUFFICES ASSUME NEW i \in 1 .. Len(passed'), NEW j \in 1 .. Len(passed'), i # j
               PROVE  passed'[i].id # passed'[j].id
    BY Zenon DEF AtMostOnce
  <2>1. CASE i \in 1 .. Len(passed) /\ j \in 1 .. Len(passed)
    <3>1. passed[i].id # passed[j].id
      BY <2>1, Zenon DEF AtMostOnce
    <3> QED  BY <1>1, <2>1, <3>1, Zenon
  <2>2. CASE i = Len(passed) + 1
    <3>1. j \in 1 .. Len(passed)
      BY <1>2, <2>2, Zenon
    <3> QED  BY <1>1, <1>5, <2>2, <3>1, Zenon
  <2>3. CASE j = Len(passed) + 1
    <3>1. i \in 1 .. Len(passed)
      BY <1>2, <2>3, Zenon
    <3> QED  BY <1>1, <1>5, <2>3, <3>1, Zenon
  <2> QED  BY <1>2, <2>1, <2>2, <2>3, Zenon
<1>7. ASSUME NEW x \in PassedIds' PROVE x \in PassedIds \cup {r.id}
  <2>1. PICK i \in 1 .. Len(passed') : x = passed'[i].id
    BY <1>7, Zenon DEF PassedIds
  <2> QED  BY <1>1, <1>2, <2>1, Zenon DEF PassedIds
<1>8. ASSUME NEW x \in PassedIds PROVE x \in PassedIds'
  <2>1. PICK i \in 1 .. Len(passed) : x = passed[i].id
    BY <1>8, Zenon DEF PassedIds
  <2>2. passed'[i].id = x /\ i \in 1 .. Len(passed')
    BY <1>1, <1>3, <2>1, Zenon
  <2> QED  BY <2>2, Zenon DEF PassedIds
<1>9. r.id \in PassedIds'
  <2>1. passed'[Len(passed) + 1].id = r.id
    BY <1>1, Zenon
  <2> QED  BY <1>4, <2>1, Zenon DEF PassedIds
<1> QED  BY <1>6, <1>7, <1>8, <1>9

(* Sending on a whole queue.                                               *)
LEMMA PassQueue ==
    ASSUME passed \in Seq(Passes), AtMostOnce, NEW q \in Seq(Ids), Distinct(q),
           \A i \in Elems(q) : i \notin PassedIds,
           NEW d \in Seq(Passes), Len(d) = Len(q), \A i \in 1 .. Len(q) : d[i].id = q[i],
           passed' = passed \o d
    PROVE  AtMostOnce' /\ PassedIds' = PassedIds \cup Elems(q)
<1> DEFINE n == Len(passed)
           m == Len(q)
<1>1. /\ Len(passed') = n + m /\ n \in Nat /\ m \in Nat
      /\ \A k \in 1 .. n : passed'[k] = passed[k]
      /\ \A k \in 1 .. m : passed'[n + k] = d[k]
  OBVIOUS
<1>2. \A k \in 1 .. m : passed'[n + k].id = q[k] /\ q[k] \notin PassedIds
  BY <1>1, Zenon DEF Elems
<1> HIDE DEF n, m
<1>3. ASSUME NEW i \in 1 .. Len(passed') PROVE i \in 1 .. n \/ \E k \in 1 .. m : i = n + k
  <2>1. CASE i > n
    <3>1. i - n \in 1 .. m /\ i = n + (i - n)
      BY <1>1, <2>1
    <3> QED  BY <3>1
  <2>2. CASE ~(i > n)
    BY <1>1, <2>2
  <2> QED  BY <2>1, <2>2
<1>4. \A i \in 1 .. n : i \in 1 .. Len(passed')
  BY <1>1
<1>5. \A k \in 1 .. m : n + k \in 1 .. Len(passed')
  BY <1>1
<1>6. \A i \in 1 .. n : passed'[i].id = passed[i].id /\ passed[i].id \in PassedIds
  BY <1>1, Zenon DEF PassedIds, n
<1>7. AtMostOnce'
  <2> SUFFICES ASSUME NEW i \in 1 .. Len(passed'), NEW j \in 1 .. Len(passed'), i # j
               PROVE  passed'[i].id # passed'[j].id
    BY Zenon DEF AtMostOnce
  <2>1. CASE i \in 1 .. n /\ j \in 1 .. n
    <3>1. passed[i].id # passed[j].id
      BY <2>1, Zenon DEF AtMostOnce, n
    <3> QED  BY <1>6, <2>1, <3>1, Zenon
  <2>2. CASE i \in 1 .. n /\ \E k \in 1 .. m : j = n + k
    <3>1. PICK k \in 1 .. m : j = n + k
      BY <2>2
    <3>2. passed'[j].id = q[k] /\ q[k] \notin PassedIds
      BY <1>2, <3>1, Zenon
    <3> QED  BY <1>6, <2>2, <3>2, Zenon
  <2>3. CASE j \in 1 .. n /\ \E k \in 1 .. m : i = n + k
    <3>1. PICK k \in 1 .. m : i = n + k
      BY <2>3
    <3>2. passed'[i].id = q[k] /\ q[k] \notin PassedIds
      BY <1>2, <3>1, Zenon
    <3> QED  BY <1>6, <2>3, <3>2, Zenon
  <2>4. CASE (\E k \in 1 .. m : i = n + k) /\ (\E k \in 1 .. m : j = n + k)
    <3>1. PICK k \in 1 .. m : i = n + k
      BY <2>4
    <3>2. PICK l \in 1 .. m : j = n + l
      BY <2>4
    <3>3. k # l
      BY <3>1, <3>2
    <3>4. q[k] # q[l]
      BY <3>1, <3>2, <3>3, Zenon DEF Distinct, m
    <3> QED  BY <1>2, <3>1, <3>2, <3>4, Zenon
  <2> QED  BY <1>3, <2>1, <2>2, <2>3, <2>4, Zenon
<1>8. ASSUME NEW x \in PassedIds' PROVE x \in PassedIds \cup Elems(q)
  <2>1. PICK i \in 1 .. Len(passed') : x = passed'[i].id
    BY <1>8, Zenon DEF PassedIds
  <2>2. CASE i \in 1 .. n
    BY <1>6, <2>1, <2>2, Zenon
  <2>3. CASE \E k \in 1 .. m : i = n + k
    BY <1>2, <2>1, <2>3, Zenon DEF Elems, m
  <2> QED  BY <1>3, <2>2, <2>3, Zenon
<1>9. ASSUME NEW x \in PassedIds PROVE x \in PassedIds'
  <2>1. PICK i \in 1 .. n : x = passed[i].id
    BY <1>9, Zenon DEF PassedIds, n
  <2> QED  BY <1>4, <1>6, <2>1, Zenon DEF PassedIds
<1>10. ASSUME NEW x \in Elems(q) PROVE x \in PassedIds'
  <2>1. PICK k \in 1 .. m : x = q[k]
    BY <1>10, Zenon DEF Elems, m
  <2>2. x = passed'[n + k].id
    BY <1>2, <2>1, Zenon
  <2> QED  BY <1>5, <2>1, <2>2, Zenon DEF PassedIds
<1> QED  BY <1>7, <1>8, <1>9, <1>10

-----------------------------------------------------------------------------
(* Where the events are, apart from the control of the goroutines.         *)

DataOK ==
    /\ inputs \in EnrichInputs /\ received \in 0 .. Len(inputs)
    /\ DOMAIN cgroupQueues \subseteq Cgroups
    /\ cgroupQueues \in [DOMAIN cgroupQueues -> Seq(Ids)]
    /\ \A c \in DOMAIN cgroupQueues : Len(cgroupQueues[c]) <= ContQueueSize
    /\ queueClean \in Seq(Ids) /\ Len(queueClean) <= CleanSize
    /\ orphan \in Seq(Ids)
    /\ Cleaning => rmdir \in Ids
    /\ passed \in Seq(Passes)

ControlOK ==
    /\ bLock \in {"free", "reader", "cleaner"}
    /\ enriching \in [Cgroups -> Nat] /\ enrichDone \subseteq Cgroups
    /\ queueReady \in Seq(Cgroups) /\ Len(queueReady) <= ReadySize
    /\ writer \in {"take", "lookup", "send", "schedule", "fallback", "done"}
    /\ handle \in {"nil", "open", "closed"}
    /\ reader \in {"select", "ready", "len", "receive", "drain", "all", "done"}
    /\ reader \in {"ready", "len", "receive"} => ready \in Cgroups
    /\ cleaner \in {"select", "clean", "len", "receive", "close", "done"}
    /\ canReschedule \in BOOLEAN

LEMMA TypeParts == EnrichTypeOK <=> DataOK /\ ControlOK
BY Zenon DEF EnrichTypeOK, DataOK, ControlOK, Cleaning, Passes

DataInv == DataOK /\ PlaceInv

LEMMA InputType ==
    ASSUME inputs \in EnrichInputs
    PROVE  /\ Len(inputs) \in Nat
           /\ \A i \in Ids : inputs[i].cgroup \in Cgroups
<1>1. inputs \in Seq([type : {"direct", "queued", "rmdir"}, cgroup : Cgroups])
  BY ContainerEnrichAssumption, Zenon
<1>2. \A i \in Ids : inputs[i] \in [type : {"direct", "queued", "rmdir"}, cgroup : Cgroups]
  BY <1>1, ElementType, Zenon DEF Ids
<1>3. \A r \in [type : {"direct", "queued", "rmdir"}, cgroup : Cgroups] : r.cgroup \in Cgroups
  OBVIOUS
<1> QED  BY <1>1, <1>2, <1>3

LEMMA SentType ==
    ASSUME NEW i \in Ids, NEW way \in {"direct", "queue", "cleaner"}
    PROVE  Sent(i, way) \in Passes /\ Sent(i, way).id = i /\ Sent(i, way).way = way
BY DEF Sent, Passes

(* Where the order of removals is concerned, only what the cleaner adds    *)
(* counts.                                                                 *)
LEMMA LastKept ==
    ASSUME RmdirLast, passed \in Seq(Passes), passed' \in Seq(Passes), inputs' = inputs,
           Len(passed) <= Len(passed'), \A k \in 1 .. Len(passed) : passed'[k] = passed[k],
           \A k \in Len(passed) + 1 .. Len(passed') :
               InOrder /\ passed'[k].way = "cleaner" =>
                   \A i \in 1 .. passed'[k].id :
                       /\ inputs[i].cgroup = inputs[passed'[k].id].cgroup
                       /\ inputs[i].type = "queued"
                       => i \in PassedIds
    PROVE  RmdirLast'
<1>1. InOrder' <=> InOrder
  BY DEF InOrder, Ids
<1> SUFFICES ASSUME InOrder, NEW k \in 1 .. Len(passed'), passed'[k].way = "cleaner",
                    NEW i \in 1 .. passed'[k].id,
                    inputs[i].cgroup = inputs[passed'[k].id].cgroup, inputs[i].type = "queued"
             PROVE  \E j \in 1 .. k : passed'[j].id = i
  BY <1>1, Zenon DEF RmdirLast
<1>2. Len(passed) \in Nat /\ Len(passed') \in Nat
  OBVIOUS
<1>3. CASE k \in 1 .. Len(passed)
  <2>1. passed'[k] = passed[k]
    BY <1>3, Zenon
  <2>2. PICK j \in 1 .. k : passed[j].id = i
    BY <1>3, <2>1, Zenon DEF RmdirLast
  <2>3. j \in 1 .. Len(passed)
    BY <1>2, <1>3
  <2>4. passed'[j] = passed[j]
    BY <2>3, Zenon
  <2> QED  BY <2>2, <2>4, Zenon
<1>4. CASE k \notin 1 .. Len(passed)
  <2>1. k \in Len(passed) + 1 .. Len(passed')
    BY <1>2, <1>4
  <2>2. i \in PassedIds
    BY <2>1, Zenon
  <2>3. PICK j \in 1 .. Len(passed) : passed[j].id = i
    BY <2>2, Zenon DEF PassedIds
  <2>4. j \in 1 .. k
    BY <1>2, <1>4, <2>1
  <2>5. passed'[j] = passed[j]
    BY <2>3, Zenon
  <2> QED  BY <2>3, <2>4, <2>5, Zenon
<1> QED  BY <1>3, <1>4

LEMMA LastSame ==
    ASSUME RmdirLast, passed \in Seq(Passes), inputs' = inputs, passed' = passed
    PROVE  RmdirLast'
<1>1. InOrder' <=> InOrder
  BY DEF InOrder, Ids
<1> QED  BY <1>1, Zenon DEF RmdirLast

LEMMA LastAppend ==
    ASSUME RmdirLast, passed \in Seq(Passes), inputs' = inputs, NEW r \in Passes,
           passed' = Append(passed, r),
           InOrder /\ r.way = "cleaner" =>
               \A i \in 1 .. r.id :
                   inputs[i].cgroup = inputs[r.id].cgroup /\ inputs[i].type = "queued"
                   => i \in PassedIds
    PROVE  RmdirLast'
<1>0. Append(passed, r) \in Seq(Passes)
  OBVIOUS
<1>1. /\ Len(passed') = Len(passed) + 1 /\ Len(passed) \in Nat
      /\ \A k \in 1 .. Len(passed) : passed'[k] = passed[k]
      /\ passed'[Len(passed) + 1] = r
  OBVIOUS
<1>2. Len(passed) <= Len(passed') /\ \A k \in Len(passed) + 1 .. Len(passed') : k = Len(passed) + 1
  BY <1>1
<1>3. \A k \in Len(passed) + 1 .. Len(passed') : passed'[k] = r
  BY <1>1, <1>2, Zenon
<1>4. \A k \in Len(passed) + 1 .. Len(passed') :
               InOrder /\ passed'[k].way = "cleaner" =>
                   \A i \in 1 .. passed'[k].id :
                       /\ inputs[i].cgroup = inputs[passed'[k].id].cgroup
                       /\ inputs[i].type = "queued"
                       => i \in PassedIds
  BY <1>3, Zenon
<1>5. passed' \in Seq(Passes)
  BY <1>0
<1> QED  BY <1>1, <1>2, <1>4, <1>5, LastKept, Zenon

-----------------------------------------------------------------------------
(* The steps, by what they do to the places.                               *)

(* No place changes; the writer may forget a closed queue.                 *)
LEMMA QuietData ==
    ASSUME DataInv, inputs' = inputs, received' = received, cgroupQueues' = cgroupQueues,
           queueClean' = queueClean, rmdir' = rmdir, passed' = passed,
           orphan' = orphan \/ orphan' = << >>, InHand' <=> InHand, Cleaning' <=> Cleaning
    PROVE  DataInv' /\ (RmdirLast => RmdirLast') /\ \A i : Kept(i) => Kept(i)'
<1>1. Ids' = Ids /\ PassedIds' = PassedIds /\ Current' = Current
  BY DEF Ids, PassedIds, Current
<1>2. Elems(orphan') \subseteq Elems(orphan) /\ orphan' \in Seq(Ids)
  <2>1. orphan \in Seq(Ids) /\ << >> \in Seq(Ids)
    BY DEF DataInv, DataOK
  <2> QED  BY <2>1, ElemsEmpty, Zenon
<1>3. \A i, c : Waits(i, c)' <=> Waits(i, c)
  BY <1>1, Zenon DEF Waits
<1>4. \A i : WaitsRmdir(i)' <=> WaitsRmdir(i)
  BY <1>1, Zenon DEF WaitsRmdir
<1>5. DataOK'
  <2>1. Passes' = Passes
    BY <1>1, Zenon DEF Passes
  <2> QED  BY <1>1, <1>2, <2>1, Zenon DEF DataInv, DataOK
<1>6. PlaceInv'
  <2>1. AtMostOnce'
    BY Zenon DEF DataInv, PlaceInv, AtMostOnce
  <2>2. \A i \in Elems(orphan') : Waits(i, Current)'
    BY <1>1, <1>2, <1>3 DEF DataInv, PlaceInv
  <2>3. Cleaning' => WaitsRmdir(rmdir)' /\ rmdir' \notin Elems(queueClean')
    BY <1>4, Zenon DEF DataInv, PlaceInv, WaitsRmdir
  <2> QED  BY <1>1, <1>3, <1>4, <2>1, <2>2, <2>3, Zenon DEF DataInv, PlaceInv
<1>7. ASSUME RmdirLast PROVE RmdirLast'
  BY <1>7, LastSame, Zenon DEF DataInv, DataOK
<1>8. \A i : Kept(i) => Kept(i)'
  BY <1>1, Zenon DEF Kept
<1> QED  BY <1>5, <1>6, <1>7, <1>8 DEF DataInv

(* The first event of a queue is taken and sent on.                        *)
LEMMA TakeData ==
    ASSUME DataInv, WriterInv, NEW c \in DOMAIN cgroupQueues, cgroupQueues[c] # << >>,
           TakeEvent(c), inputs' = inputs, received' = received,
           queueClean' = queueClean, rmdir' = rmdir,
           orphan' = orphan \/ orphan' = << >>, InHand' <=> InHand, Cleaning' <=> Cleaning
    PROVE  /\ DataInv' /\ (RmdirLast => RmdirLast') /\ \A i : Kept(i) => Kept(i)'
           /\ DOMAIN cgroupQueues' = DOMAIN cgroupQueues
           /\ \A d \in DOMAIN cgroupQueues : cgroupQueues[d] = << >> => cgroupQueues'[d] = << >>
<1> DEFINE q == cgroupQueues[c]
           x == Head(q)
<1>0. Ids' = Ids /\ Passes' = Passes /\ Current' = Current
  BY DEF Ids, Passes, Current
<1>1. q \in Seq(Ids) /\ q # << >> /\ Distinct(q) /\ passed \in Seq(Passes) /\ AtMostOnce
  BY DEF DataInv, DataOK, PlaceInv
<1>2. /\ x \in Ids /\ x \in Elems(q) /\ Tail(q) \in Seq(Ids) /\ Len(Tail(q)) = Len(q) - 1
      /\ Elems(Tail(q)) = Elems(q) \ {x} /\ Distinct(Tail(q))
  BY <1>1, ElemsTail, Zenon
<1>3. /\ DOMAIN cgroupQueues' = DOMAIN cgroupQueues /\ cgroupQueues'[c] = Tail(q)
      /\ \A d \in DOMAIN cgroupQueues : d # c => cgroupQueues'[d] = cgroupQueues[d]
      /\ cgroupQueues' \in [DOMAIN cgroupQueues -> Seq(Ids)]
  BY <1>2 DEF TakeEvent, DataInv, DataOK
<1>4. passed' = Append(passed, Sent(x, "queue"))
  BY DEF TakeEvent
<1>5. Sent(x, "queue") \in Passes /\ Sent(x, "queue").id = x /\ Sent(x, "queue").way = "queue"
  BY <1>2, SentType
<1>6. Waits(x, c) /\ x \notin PassedIds
  BY <1>2, Zenon DEF DataInv, PlaceInv, Waits
<1> HIDE DEF q, x
<1> DEFINE r == Sent(x, "queue")
<1> HIDE DEF r
<1>7. r \in Passes /\ r.id = x /\ r.way # "cleaner" /\ passed' = Append(passed, r)
  BY <1>4, <1>5 DEF r
<1>8. AtMostOnce' /\ PassedIds' = PassedIds \cup {x}
  BY <1>1, <1>6, <1>7, PassOne, Zenon
<1>9. Elems(orphan') \subseteq Elems(orphan) /\ orphan' \in Seq(Ids)
  <2>1. orphan \in Seq(Ids) /\ << >> \in Seq(Ids)
    BY DEF DataInv, DataOK
  <2> QED  BY <2>1, ElemsEmpty, Zenon
<1>10. DataOK'
  <2>1. \A d \in DOMAIN cgroupQueues' : Len(cgroupQueues'[d]) <= ContQueueSize
    <3> SUFFICES ASSUME NEW d \in DOMAIN cgroupQueues PROVE Len(cgroupQueues'[d]) <= ContQueueSize
      BY <1>3, Zenon
    <3>1. CASE d # c
      BY <1>3, <3>1, Zenon DEF DataInv, DataOK
    <3>2. CASE d = c
      <4>1. Len(q) <= ContQueueSize
        BY Zenon DEF DataInv, DataOK, q
      <4>2. Len(q) \in Nat /\ ContQueueSize \in Nat
        BY <1>1, ContainerEnrichAssumption
      <4>3. Len(Tail(q)) <= ContQueueSize
        BY <1>2, <4>1, <4>2
      <4> QED  BY <1>3, <3>2, <4>3, Zenon
    <3> QED  BY <3>1, <3>2
  <2>2. passed' \in Seq(Passes)
    BY <1>1, <1>7
  <2> QED  BY <1>0, <1>3, <1>9, <2>1, <2>2, Zenon DEF DataInv, DataOK
<1>11. \A i, d : Waits(i, d) /\ i # x => Waits(i, d)'
  BY <1>8 DEF Waits
<1>12. \A i : WaitsRmdir(i) => WaitsRmdir(i)'
  <2>1. \A i : WaitsRmdir(i) => i # x
    BY <1>6 DEF WaitsRmdir, Waits
  <2> QED  BY <1>8, <2>1 DEF WaitsRmdir
<1>13. \A d \in DOMAIN cgroupQueues : Distinct(cgroupQueues'[d]) /\ \A i \in Elems(cgroupQueues'[d]) : Waits(i, d)'
  <2> SUFFICES ASSUME NEW d \in DOMAIN cgroupQueues
               PROVE  Distinct(cgroupQueues'[d]) /\ \A i \in Elems(cgroupQueues'[d]) : Waits(i, d)'
    OBVIOUS
  <2>1. CASE d = c
    <3>1. \A i \in Elems(Tail(q)) : Waits(i, c) /\ i # x
      BY <1>2 DEF DataInv, PlaceInv, q
    <3> QED  BY <1>2, <1>3, <1>11, <2>1, <3>1, Zenon
  <2>2. CASE d # c
    <3>1. \A i \in Elems(cgroupQueues[d]) : Waits(i, d)
      BY Zenon DEF DataInv, PlaceInv
    <3>2. \A i : Waits(i, d) => i # x
      BY <1>6, <2>2, Zenon DEF Waits
    <3>3. Distinct(cgroupQueues[d])
      BY Zenon DEF DataInv, PlaceInv
    <3> QED  BY <1>3, <1>11, <2>2, <3>1, <3>2, <3>3, Zenon
  <2> QED  BY <2>1, <2>2
<1>14. \A i \in Elems(orphan') : Waits(i, Current)'
  <2> SUFFICES ASSUME NEW i \in Elems(orphan') PROVE Waits(i, Current)'
    OBVIOUS
  <2>1. i \in Elems(orphan) /\ Waits(i, Current)
    BY <1>9, Zenon DEF DataInv, PlaceInv
  <2>2. Current # c
    <3>1. orphan # << >>
      BY <2>1, ElemsEmpty, Zenon
    <3>2. handle = "closed"
      BY <3>1, Zenon DEF WriterInv
    <3> QED  BY <3>2, Zenon DEF WriterInv
  <2>3. i # x
    BY <1>6, <2>1, <2>2, Zenon DEF Waits
  <2> QED  BY <1>0, <1>11, <2>1, <2>3, Zenon
<1>15. PlaceInv'
  <2>1. PassedIds' \subseteq 1 .. received'
    BY <1>6, <1>8 DEF DataInv, PlaceInv, Waits
  <2>2. InHand' => received' \notin PassedIds'
    BY <1>6, <1>8 DEF DataInv, PlaceInv, Waits
  <2>3. Cleaning' => WaitsRmdir(rmdir)' /\ rmdir' \notin Elems(queueClean')
    <3>1. WaitsRmdir(rmdir) => WaitsRmdir(rmdir)'
      BY <1>12, Zenon DEF WaitsRmdir
    <3> QED  BY <3>1, Zenon DEF DataInv, PlaceInv
  <2>4. Distinct(queueClean') /\ \A i \in Elems(queueClean') : WaitsRmdir(i)'
    BY <1>12, Zenon DEF DataInv, PlaceInv
  <2> QED  BY <1>3, <1>8, <1>13, <1>14, <2>1, <2>2, <2>3, <2>4, Zenon DEF PlaceInv
<1>16. ASSUME RmdirLast PROVE RmdirLast'
  BY <1>1, <1>7, <1>16, LastAppend, Zenon
<1>17. ASSUME NEW i, Kept(i) PROVE Kept(i)'
  <2>1. CASE \E d \in DOMAIN cgroupQueues : i \in Elems(cgroupQueues[d])
    <3>1. PICK d \in DOMAIN cgroupQueues : i \in Elems(cgroupQueues[d])
      BY <2>1
    <3>2. CASE i = x
      BY <1>8, <3>2 DEF Kept
    <3>3. CASE i # x
      <4>1. i \in Elems(cgroupQueues'[d])
        <5>1. CASE d = c
          <6>1. i \in Elems(Tail(q))
            BY <1>2, <3>1, <3>3, <5>1 DEF q
          <6> QED  BY <1>3, <5>1, <6>1, Zenon
        <5>2. CASE d # c
          BY <1>3, <3>1, <5>2, Zenon
        <5> QED  BY <5>1, <5>2
      <4> QED  BY <1>3, <3>1, <4>1, Zenon DEF Kept
    <3> QED  BY <3>2, <3>3
  <2>2. CASE i \in PassedIds
    BY <1>8, <2>2 DEF Kept
  <2> QED  BY <1>17, <2>1, <2>2, Zenon DEF Kept
<1>18. ASSUME NEW d \in DOMAIN cgroupQueues, cgroupQueues[d] = << >> PROVE cgroupQueues'[d] = << >>
  BY <1>1, <1>3, <1>18, Zenon DEF q
<1> QED  BY <1>3, <1>10, <1>15, <1>16, <1>17, <1>18, Zenon DEF DataInv

(* A whole queue is sent on.                                               *)
LEMMA DrainData ==
    ASSUME DataInv, WriterInv, NEW c \in DOMAIN cgroupQueues,
           cgroupQueues' = [cgroupQueues EXCEPT ![c] = << >>], passed' = passed \o Drained(c),
           inputs' = inputs, received' = received, queueClean' = queueClean, rmdir' = rmdir,
           orphan' = orphan, InHand' <=> InHand, Cleaning' <=> Cleaning
    PROVE  /\ DataInv' /\ (RmdirLast => RmdirLast') /\ \A i : Kept(i) => Kept(i)'
           /\ DOMAIN cgroupQueues' = DOMAIN cgroupQueues
           /\ \A d \in DOMAIN cgroupQueues : cgroupQueues[d] = << >> => cgroupQueues'[d] = << >>
<1> DEFINE q == cgroupQueues[c]
           s == Drained(c)
<1>0. Ids' = Ids /\ Passes' = Passes /\ Current' = Current
  BY DEF Ids, Passes, Current
<1>1. q \in Seq(Ids) /\ Distinct(q) /\ passed \in Seq(Passes) /\ AtMostOnce
  BY DEF DataInv, DataOK, PlaceInv
<1>2. /\ DOMAIN cgroupQueues' = DOMAIN cgroupQueues /\ cgroupQueues'[c] = << >>
      /\ \A d \in DOMAIN cgroupQueues : d # c => cgroupQueues'[d] = cgroupQueues[d]
      /\ cgroupQueues' \in [DOMAIN cgroupQueues -> Seq(Ids)]
  <2>1. << >> \in Seq(Ids)
    OBVIOUS
  <2> QED  BY <2>1 DEF DataInv, DataOK
<1>3. \A i \in 1 .. Len(q) : /\ Sent(q[i], "queue") \in Passes
                             /\ Sent(q[i], "queue").id = q[i] /\ Sent(q[i], "queue").way = "queue"
  <2>1. \A i \in 1 .. Len(q) : q[i] \in Ids
    BY <1>1, ElementType, Zenon
  <2> QED  BY <2>1, SentType
<1>4. s = [i \in 1 .. Len(q) |-> Sent(q[i], "queue")]
  BY DEF Drained
<1>5. \A i \in Elems(q) : Waits(i, c) /\ i \notin PassedIds
  BY Zenon DEF DataInv, PlaceInv, Waits
<1> HIDE DEF q, s
<1>6. /\ s \in Seq(Passes) /\ Len(s) = Len(q)
      /\ \A i \in 1 .. Len(q) : s[i].id = q[i] /\ s[i].way # "cleaner"
  <2>1. Len(q) \in Nat
    BY <1>1, ElementType, Zenon
  <2>2. \A i \in 1 .. Len(q) : s[i] = Sent(q[i], "queue")
    BY <1>4, Zenon
  <2>3. s \in [1 .. Len(q) -> Passes]
    BY <1>3, <1>4, Zenon
  <2>4. s \in Seq(Passes) /\ Len(s) = Len(q)
    BY <2>1, <2>3
  <2> QED  BY <1>3, <2>2, <2>4
<1>7. passed' = passed \o s
  BY DEF s
<1>8. AtMostOnce' /\ PassedIds' = PassedIds \cup Elems(q)
  BY <1>1, <1>5, <1>6, <1>7, PassQueue, Zenon
<1>9. /\ passed' \in Seq(Passes) /\ Len(passed') = Len(passed) + Len(q)
      /\ \A k \in 1 .. Len(passed) : passed'[k] = passed[k]
      /\ \A k \in 1 .. Len(q) : passed'[Len(passed) + k] = s[k]
  <2>1. /\ passed \o s \in Seq(Passes) /\ Len(passed \o s) = Len(passed) + Len(s)
        /\ \A k \in 1 .. Len(passed) : (passed \o s)[k] = passed[k]
        /\ \A k \in 1 .. Len(s) : (passed \o s)[Len(passed) + k] = s[k]
    <3>1. passed \in Seq(Passes) /\ s \in Seq(Passes)
      BY <1>1, <1>6
    <3> QED  BY <3>1, ConcatFacts
  <2>2. Len(s) = Len(q)
    BY <1>6
  <2> QED  BY <1>7, <2>1, <2>2, Zenon
<1>10. DataOK'
  <2>1. \A d \in DOMAIN cgroupQueues' : Len(cgroupQueues'[d]) <= ContQueueSize
    <3> SUFFICES ASSUME NEW d \in DOMAIN cgroupQueues PROVE Len(cgroupQueues'[d]) <= ContQueueSize
      BY <1>2, Zenon
    <3>1. CASE d # c
      BY <1>2, <3>1, Zenon DEF DataInv, DataOK
    <3>2. CASE d = c
      BY <1>2, <3>2, ContainerEnrichAssumption
    <3> QED  BY <3>1, <3>2
  <2> QED  BY <1>0, <1>2, <1>9, <2>1, Zenon DEF DataInv, DataOK
<1>11. \A i, d : Waits(i, d) /\ d # c => Waits(i, d)'
  <2>1. \A i, d : Waits(i, d) /\ d # c => i \notin Elems(q)
    BY <1>5, Zenon DEF Waits
  <2> QED  BY <1>8, <2>1 DEF Waits
<1>12. \A i : WaitsRmdir(i) => WaitsRmdir(i)'
  <2>1. \A i : WaitsRmdir(i) => i \notin Elems(q)
    BY <1>5 DEF WaitsRmdir, Waits
  <2> QED  BY <1>8, <2>1 DEF WaitsRmdir
<1>13. \A d \in DOMAIN cgroupQueues : Distinct(cgroupQueues'[d]) /\ \A i \in Elems(cgroupQueues'[d]) : Waits(i, d)'
  <2> SUFFICES ASSUME NEW d \in DOMAIN cgroupQueues
               PROVE  Distinct(cgroupQueues'[d]) /\ \A i \in Elems(cgroupQueues'[d]) : Waits(i, d)'
    OBVIOUS
  <2>1. CASE d = c
    BY <1>2, <2>1, ElemsEmpty
  <2>2. CASE d # c
    BY <1>2, <1>11, <2>2, Zenon DEF DataInv, PlaceInv
  <2> QED  BY <2>1, <2>2
<1>14. \A i \in Elems(orphan') : Waits(i, Current)'
  <2> SUFFICES ASSUME NEW i \in Elems(orphan) PROVE Waits(i, Current)'
    OBVIOUS
  <2>1. orphan # << >>
    BY ElemsEmpty, Zenon
  <2>2. handle = "closed"
    BY <2>1, Zenon DEF WriterInv
  <2>3. Current # c
    BY <2>2, Zenon DEF WriterInv
  <2>4. Waits(i, Current)
    BY Zenon DEF DataInv, PlaceInv
  <2> QED  BY <1>0, <1>11, <2>3, <2>4, Zenon
<1>15. PlaceInv'
  <2>1. PassedIds' \subseteq 1 .. received'
    BY <1>5, <1>8 DEF DataInv, PlaceInv, Waits
  <2>2. InHand' => received' \notin PassedIds'
    BY <1>5, <1>8 DEF DataInv, PlaceInv, Waits
  <2>3. Cleaning' => WaitsRmdir(rmdir)' /\ rmdir' \notin Elems(queueClean')
    <3>1. WaitsRmdir(rmdir) => WaitsRmdir(rmdir)'
      BY <1>12, Zenon DEF WaitsRmdir
    <3> QED  BY <3>1, Zenon DEF DataInv, PlaceInv
  <2>4. Distinct(queueClean') /\ \A i \in Elems(queueClean') : WaitsRmdir(i)'
    BY <1>12, Zenon DEF DataInv, PlaceInv
  <2> QED  BY <1>2, <1>8, <1>13, <1>14, <2>1, <2>2, <2>3, <2>4, Zenon DEF PlaceInv
<1>16. ASSUME RmdirLast PROVE RmdirLast'
  <2>1. ASSUME NEW k \in Len(passed) + 1 .. Len(passed') PROVE passed'[k].way # "cleaner"
    <3>1. Len(passed) \in Nat /\ Len(q) \in Nat
      BY <1>1
    <3>2. k - Len(passed) \in 1 .. Len(q) /\ k = Len(passed) + (k - Len(passed))
      BY <1>9, <3>1
    <3>3. passed'[k] = s[k - Len(passed)]
      BY <1>9, <3>2, Zenon
    <3> QED  BY <1>6, <3>2, <3>3, Zenon
  <2>2. Len(passed) <= Len(passed')
    BY <1>1, <1>9
  <2> QED  BY <1>1, <1>9, <1>16, <2>1, <2>2, LastKept, Zenon
<1>17. ASSUME NEW i, Kept(i) PROVE Kept(i)'
  <2>1. CASE \E d \in DOMAIN cgroupQueues : i \in Elems(cgroupQueues[d])
    <3>1. PICK d \in DOMAIN cgroupQueues : i \in Elems(cgroupQueues[d])
      BY <2>1
    <3>2. CASE d = c
      BY <1>8, <3>1, <3>2 DEF Kept, q
    <3>3. CASE d # c
      BY <1>2, <3>1, <3>3, Zenon DEF Kept
    <3> QED  BY <3>2, <3>3
  <2>2. CASE i \in PassedIds
    BY <1>8, <2>2 DEF Kept
  <2> QED  BY <1>17, <2>1, <2>2, Zenon DEF Kept
<1>18. ASSUME NEW d \in DOMAIN cgroupQueues, cgroupQueues[d] = << >> PROVE cgroupQueues'[d] = << >>
  BY <1>2, <1>18, Zenon
<1> QED  BY <1>2, <1>10, <1>15, <1>16, <1>17, <1>18, Zenon DEF DataInv

(* The writer takes an event.  It goes straight on.                        *)
LEMMA DirectData ==
    ASSUME DataInv, orphan = << >>, received < Len(inputs), received' = received + 1,
           passed' = Append(passed, Sent(received', "direct")),
           inputs' = inputs, cgroupQueues' = cgroupQueues, queueClean' = queueClean,
           rmdir' = rmdir, orphan' = orphan, ~InHand, ~InHand', Cleaning' <=> Cleaning
    PROVE  /\ DataInv' /\ (RmdirLast => RmdirLast')
           /\ (\A i \in 1 .. received : Kept(i)) => \A i \in 1 .. received' : Kept(i)'
<1>0. Ids' = Ids /\ Passes' = Passes
  BY DEF Ids, Passes
<1>1. /\ received \in Nat /\ received' \in Ids /\ received' \in 0 .. Len(inputs)
      /\ \A i \in 1 .. received : i \in 1 .. received' /\ i # received'
      /\ \A i \in 1 .. received' : i \in 1 .. received \/ i = received'
      /\ received' \in 1 .. received'
  BY InputType DEF DataInv, DataOK, Ids
<1>2. passed \in Seq(Passes) /\ AtMostOnce /\ PassedIds \subseteq 1 .. received
  BY Zenon DEF DataInv, DataOK, PlaceInv
<1> DEFINE r == Sent(received', "direct")
<1>3. r \in Passes /\ r.id = received' /\ r.way = "direct" /\ passed' = Append(passed, r)
  BY <1>1, SentType
<1> HIDE DEF r
<1>4. received' \notin PassedIds
  BY <1>1, <1>2
<1>5. AtMostOnce' /\ PassedIds' = PassedIds \cup {received'}
  BY <1>2, <1>3, <1>4, PassOne, Zenon
<1>6. \A i, c : Waits(i, c) => Waits(i, c)'
  BY <1>1, <1>5 DEF Waits
<1>7. \A i : WaitsRmdir(i) => WaitsRmdir(i)'
  BY <1>1, <1>5 DEF WaitsRmdir
<1>8. DataOK'
  <2>1. passed' \in Seq(Passes)
    BY <1>2, <1>3
  <2> QED  BY <1>0, <1>1, <2>1, Zenon DEF DataInv, DataOK
<1>9. PlaceInv'
  <2>1. PassedIds' \subseteq 1 .. received'
    BY <1>1, <1>2, <1>5
  <2>2. \A i \in Elems(orphan') : Waits(i, Current)'
    BY ElemsEmpty
  <2>3. Cleaning' => WaitsRmdir(rmdir)' /\ rmdir' \notin Elems(queueClean')
    <3>1. WaitsRmdir(rmdir) => WaitsRmdir(rmdir)'
      BY <1>7, Zenon DEF WaitsRmdir
    <3> QED  BY <3>1, Zenon DEF DataInv, PlaceInv
  <2> QED  BY <1>5, <1>6, <1>7, <2>1, <2>2, <2>3, Zenon DEF DataInv, PlaceInv
<1>10. ASSUME RmdirLast PROVE RmdirLast'
  <2>1. r.way # "cleaner"
    BY <1>3
  <2> QED  BY <1>2, <1>3, <1>10, <2>1, LastAppend, Zenon
<1>11. ASSUME \A i \in 1 .. received : Kept(i), NEW i \in 1 .. received' PROVE Kept(i)'
  <2>1. CASE i = received'
    BY <1>5, <2>1 DEF Kept
  <2>2. CASE i \in 1 .. received
    <3>1. Kept(i)
      BY <1>11, <2>2, Zenon
    <3>2. i \in PassedIds => i \in PassedIds'
      BY <1>5
    <3> QED  BY <3>1, <3>2, Zenon DEF Kept
  <2> QED  BY <1>1, <2>1, <2>2, Zenon
<1> QED  BY <1>8, <1>9, <1>10, <1>11, Zenon DEF DataInv

(* It is a cgroup_rmdir, for the cleaner.                                  *)
LEMMA CleanData ==
    ASSUME DataInv, orphan = << >>, received < Len(inputs), received' = received + 1,
           inputs[received'].type = "rmdir", Len(queueClean) < CleanSize,
           queueClean' = Append(queueClean, received'), passed' = passed,
           inputs' = inputs, cgroupQueues' = cgroupQueues,
           rmdir' = rmdir, orphan' = orphan, ~InHand, ~InHand', Cleaning' <=> Cleaning
    PROVE  /\ DataInv' /\ (RmdirLast => RmdirLast')
           /\ (\A i \in 1 .. received : Kept(i)) => \A i \in 1 .. received' : Kept(i)'
<1>0. Ids' = Ids /\ Passes' = Passes /\ PassedIds' = PassedIds
  BY DEF Ids, Passes, PassedIds
<1>1. /\ received \in Nat /\ received' \in Ids /\ received' \in 0 .. Len(inputs)
      /\ \A i \in 1 .. received : i \in 1 .. received' /\ i # received'
      /\ \A i \in 1 .. received' : i \in 1 .. received \/ i = received'
      /\ received' \in 1 .. received'
  BY InputType DEF DataInv, DataOK, Ids
<1>2. /\ passed \in Seq(Passes) /\ AtMostOnce /\ PassedIds \subseteq 1 .. received
      /\ queueClean \in Seq(Ids) /\ Distinct(queueClean)
  BY Zenon DEF DataInv, DataOK, PlaceInv
<1>3. received' \notin PassedIds /\ received' \notin Elems(queueClean)
  BY <1>1, <1>2 DEF DataInv, PlaceInv, WaitsRmdir
<1>4. /\ queueClean' \in Seq(Ids) /\ Len(queueClean') = Len(queueClean) + 1
      /\ Elems(queueClean') = Elems(queueClean) \cup {received'} /\ Distinct(queueClean')
  BY <1>1, <1>2, <1>3, ElemsAppend, Zenon
<1>5. AtMostOnce'
  BY <1>2, Zenon DEF AtMostOnce
<1>6. \A i, c : Waits(i, c) => Waits(i, c)'
  BY <1>0, <1>1 DEF Waits
<1>7. \A i : WaitsRmdir(i)' <=>
           i \in 1 .. received' /\ inputs[i].type = "rmdir" /\ i \notin PassedIds
  BY <1>0, Zenon DEF WaitsRmdir
<1>8. \A i : WaitsRmdir(i) => WaitsRmdir(i)'
  BY <1>1, <1>7, Zenon DEF WaitsRmdir
<1>9. DataOK'
  <2>1. Len(queueClean') <= CleanSize
    BY <1>2, <1>4, ContainerEnrichAssumption
  <2> QED  BY <1>0, <1>1, <1>4, <2>1, Zenon DEF DataInv, DataOK
<1>10. PlaceInv'
  <2>1. PassedIds' \subseteq 1 .. received'
    BY <1>0, <1>1, <1>2
  <2>2. \A i \in Elems(orphan') : Waits(i, Current)'
    BY ElemsEmpty
  <2>3. Cleaning' => WaitsRmdir(rmdir)' /\ rmdir' \notin Elems(queueClean')
    <3> SUFFICES ASSUME Cleaning PROVE WaitsRmdir(rmdir)' /\ rmdir \notin Elems(queueClean')
      BY Zenon
    <3>1. WaitsRmdir(rmdir) /\ rmdir \notin Elems(queueClean)
      BY Zenon DEF DataInv, PlaceInv
    <3>2. rmdir # received'
      BY <1>1, <3>1 DEF WaitsRmdir
    <3>3. WaitsRmdir(rmdir)'
      BY <1>0, <1>1, <3>1, Zenon DEF WaitsRmdir
    <3> QED  BY <1>4, <3>1, <3>2, <3>3
  <2>4. \A i \in Elems(queueClean') : WaitsRmdir(i)'
    <3> SUFFICES ASSUME NEW i \in Elems(queueClean') PROVE WaitsRmdir(i)'
      OBVIOUS
    <3>1. CASE i \in Elems(queueClean)
      BY <1>8, <3>1, Zenon DEF DataInv, PlaceInv
    <3>2. CASE i = received'
      BY <1>1, <1>3, <1>7, <3>2, Zenon
    <3> QED  BY <1>4, <3>1, <3>2
  <2> QED  BY <1>4, <1>5, <1>6, <2>1, <2>2, <2>3, <2>4, Zenon DEF DataInv, PlaceInv
<1>11. ASSUME RmdirLast PROVE RmdirLast'
  BY <1>2, <1>11, LastSame, Zenon
<1>12. ASSUME \A i \in 1 .. received : Kept(i), NEW i \in 1 .. received' PROVE Kept(i)'
  <2>0. \A j \in Elems(queueClean) : j \in Elems(queueClean')
    BY <1>4
  <2>1. CASE i = received'
    <3>1. i \in Elems(queueClean')
      BY <1>4, <2>1
    <3> QED  BY <3>1, Zenon DEF Kept
  <2>2. CASE i \in 1 .. received
    <3>1. Kept(i)
      BY <1>12, <2>2, Zenon
    <3> QED  BY <1>0, <2>0, <3>1, Zenon DEF Kept
  <2> QED  BY <1>1, <2>1, <2>2, Zenon
<1> QED  BY <1>9, <1>10, <1>11, <1>12, Zenon DEF DataInv

(* It waits for its container, in the hands of the writer; its cgroup may  *)
(* get a queue.                                                            *)
LEMMA EnsureData ==
    ASSUME DataInv, orphan = << >>, received < Len(inputs), received' = received + 1,
           \/ cgroupQueues' = cgroupQueues
           \/ /\ inputs[received'].cgroup \notin DOMAIN cgroupQueues
              /\ cgroupQueues' = [c \in DOMAIN cgroupQueues \cup {inputs[received'].cgroup} |->
                                     IF c \in DOMAIN cgroupQueues THEN cgroupQueues[c] ELSE << >>],
           queueClean' = queueClean, passed' = passed, inputs' = inputs,
           rmdir' = rmdir, orphan' = orphan, ~InHand, InHand', Cleaning' <=> Cleaning
    PROVE  /\ DataInv' /\ (RmdirLast => RmdirLast')
           /\ (\A i \in 1 .. received : Kept(i)) => \A i \in 1 .. received' : Kept(i)'
           /\ DOMAIN cgroupQueues \subseteq DOMAIN cgroupQueues'
           /\ \A d \in DOMAIN cgroupQueues : cgroupQueues'[d] = cgroupQueues[d]
<1>0. Ids' = Ids /\ Passes' = Passes /\ PassedIds' = PassedIds
  BY DEF Ids, Passes, PassedIds
<1>1. /\ received \in Nat /\ received' \in Ids /\ received' \in 0 .. Len(inputs)
      /\ \A i \in 1 .. received : i \in 1 .. received' /\ i # received'
      /\ \A i \in 1 .. received' : i \in 1 .. received \/ i = received'
  BY InputType DEF DataInv, DataOK, Ids
<1>2. /\ passed \in Seq(Passes) /\ AtMostOnce /\ PassedIds \subseteq 1 .. received
      /\ inputs \in EnrichInputs
  BY Zenon DEF DataInv, DataOK, PlaceInv
<1>3. received' \notin PassedIds
  BY <1>1, <1>2
<1>4. /\ DOMAIN cgroupQueues \subseteq DOMAIN cgroupQueues' /\ DOMAIN cgroupQueues' \subseteq Cgroups
      /\ \A d \in DOMAIN cgroupQueues : cgroupQueues'[d] = cgroupQueues[d]
      /\ \A d \in DOMAIN cgroupQueues' : d \in DOMAIN cgroupQueues \/ cgroupQueues'[d] = << >>
      /\ cgroupQueues' \in [DOMAIN cgroupQueues' -> Seq(Ids)]
  <2>1. /\ DOMAIN cgroupQueues \subseteq Cgroups /\ inputs[received'].cgroup \in Cgroups
        /\ cgroupQueues \in [DOMAIN cgroupQueues -> Seq(Ids)] /\ << >> \in Seq(Ids)
    BY <1>1, <1>2, InputType DEF DataInv, DataOK
  <2>2. CASE cgroupQueues' = cgroupQueues
    BY <2>1, <2>2
  <2>3. CASE cgroupQueues' = [c \in DOMAIN cgroupQueues \cup {inputs[received'].cgroup} |->
                                     IF c \in DOMAIN cgroupQueues THEN cgroupQueues[c] ELSE << >>]
    BY <2>1, <2>3
  <2> QED  BY <2>2, <2>3
<1>5. AtMostOnce'
  BY <1>2, Zenon DEF AtMostOnce
<1>6. \A i, c : Waits(i, c) => Waits(i, c)'
  BY <1>0, <1>1 DEF Waits
<1>7. \A i : WaitsRmdir(i) => WaitsRmdir(i)'
  BY <1>0, <1>1 DEF WaitsRmdir
<1>8. DataOK'
  <2>1. \A d \in DOMAIN cgroupQueues' : Len(cgroupQueues'[d]) <= ContQueueSize
    <3> SUFFICES ASSUME NEW d \in DOMAIN cgroupQueues' PROVE Len(cgroupQueues'[d]) <= ContQueueSize
      OBVIOUS
    <3>1. CASE d \in DOMAIN cgroupQueues
      BY <1>4, <3>1, Zenon DEF DataInv, DataOK
    <3>2. CASE cgroupQueues'[d] = << >>
      BY <3>2, ContainerEnrichAssumption
    <3> QED  BY <1>4, <3>1, <3>2, Zenon
  <2> QED  BY <1>0, <1>1, <1>4, <2>1, Zenon DEF DataInv, DataOK
<1>9. PlaceInv'
  <2>1. PassedIds' \subseteq 1 .. received'
    BY <1>0, <1>1, <1>2
  <2>2. \A i \in Elems(orphan') : Waits(i, Current)'
    BY ElemsEmpty
  <2>3. Cleaning' => WaitsRmdir(rmdir)' /\ rmdir' \notin Elems(queueClean')
    <3>1. WaitsRmdir(rmdir) => WaitsRmdir(rmdir)'
      BY <1>7, Zenon DEF WaitsRmdir
    <3> QED  BY <3>1, Zenon DEF DataInv, PlaceInv
  <2>4. \A d \in DOMAIN cgroupQueues' :
           Distinct(cgroupQueues'[d]) /\ \A i \in Elems(cgroupQueues'[d]) : Waits(i, d)'
    <3> SUFFICES ASSUME NEW d \in DOMAIN cgroupQueues'
                 PROVE  Distinct(cgroupQueues'[d]) /\ \A i \in Elems(cgroupQueues'[d]) : Waits(i, d)'
      OBVIOUS
    <3>1. CASE d \in DOMAIN cgroupQueues
      BY <1>4, <1>6, <3>1, Zenon DEF DataInv, PlaceInv
    <3>2. CASE cgroupQueues'[d] = << >>
      BY <3>2, ElemsEmpty
    <3> QED  BY <1>4, <3>1, <3>2, Zenon
  <2>5. Distinct(queueClean') /\ \A i \in Elems(queueClean') : WaitsRmdir(i)'
    BY <1>7, Zenon DEF DataInv, PlaceInv
  <2>6. received' \notin PassedIds'
    BY <1>0, <1>3
  <2> QED  BY <1>5, <2>1, <2>2, <2>3, <2>4, <2>5, <2>6, Zenon DEF PlaceInv
<1>10. ASSUME RmdirLast PROVE RmdirLast'
  BY <1>2, <1>10, LastSame, Zenon
<1>11. ASSUME \A i \in 1 .. received : Kept(i), NEW i \in 1 .. received' PROVE Kept(i)'
  <2>1. CASE i = received'
    BY <2>1, Zenon DEF Kept
  <2>2. CASE i \in 1 .. received
    <3>1. Kept(i)
      BY <1>11, <2>2, Zenon
    <3>2. CASE \E c \in DOMAIN cgroupQueues : i \in Elems(cgroupQueues[c])
      <4>1. PICK c \in DOMAIN cgroupQueues : i \in Elems(cgroupQueues[c])
        BY <3>2
      <4>2. c \in DOMAIN cgroupQueues' /\ i \in Elems(cgroupQueues'[c])
        BY <1>4, <4>1
      <4> QED  BY <4>2, Zenon DEF Kept
    <3> QED  BY <1>0, <3>1, <3>2, Zenon DEF Kept
  <2> QED  BY <1>1, <2>1, <2>2, Zenon
<1> QED  BY <1>4, <1>8, <1>9, <1>10, <1>11, Zenon DEF DataInv

(* The event in the hands of the writer goes into the queue of its cgroup. *)
LEMMA EnqueueData ==
    ASSUME DataInv, WriterInv, orphan = << >>, InHand, ~InHand', Current \in DOMAIN cgroupQueues,
           Len(cgroupQueues[Current]) < ContQueueSize,
           cgroupQueues' = [cgroupQueues EXCEPT ![Current] = Append(@, received)],
           queueClean' = queueClean, passed' = passed, inputs' = inputs, received' = received,
           rmdir' = rmdir, orphan' = orphan, Cleaning' <=> Cleaning
    PROVE  /\ DataInv' /\ (RmdirLast => RmdirLast') /\ \A i : Kept(i) => Kept(i)'
           /\ DOMAIN cgroupQueues' = DOMAIN cgroupQueues
           /\ \A d \in DOMAIN cgroupQueues : d # Current => cgroupQueues'[d] = cgroupQueues[d]
<1> DEFINE q == cgroupQueues[Current]
<1>0. Ids' = Ids /\ Passes' = Passes /\ PassedIds' = PassedIds
  BY DEF Ids, Passes, PassedIds
<1>1. Busy /\ received \in Ids /\ inputs[received].type = "queued"
  BY DEF WriterInv, Busy, InHand
<1>2. /\ passed \in Seq(Passes) /\ AtMostOnce /\ PassedIds \subseteq 1 .. received
      /\ q \in Seq(Ids) /\ Distinct(q) /\ received \notin PassedIds
      /\ \A i \in Elems(q) : Waits(i, Current)
  BY DEF DataInv, DataOK, PlaceInv
<1>3. received \notin Elems(q)
  BY <1>2, Zenon DEF Waits
<1>4. /\ Append(q, received) \in Seq(Ids) /\ Len(Append(q, received)) = Len(q) + 1
      /\ Elems(Append(q, received)) = Elems(q) \cup {received} /\ Distinct(Append(q, received))
  <2>1. q \in Seq(Ids) /\ received \in Ids /\ Distinct(q) /\ received \notin Elems(q)
    BY <1>1, <1>2, <1>3
  <2> HIDE DEF q
  <2> QED  BY <2>1, ElemsAppend
<1>5. /\ DOMAIN cgroupQueues' = DOMAIN cgroupQueues /\ cgroupQueues'[Current] = Append(q, received)
      /\ \A d \in DOMAIN cgroupQueues : d # Current => cgroupQueues'[d] = cgroupQueues[d]
      /\ cgroupQueues' \in [DOMAIN cgroupQueues -> Seq(Ids)]
  BY <1>4 DEF DataInv, DataOK
<1>6. AtMostOnce'
  BY <1>2, Zenon DEF AtMostOnce
<1>7. \A i, c : Waits(i, c)' <=>
           i \in 1 .. received /\ inputs[i].cgroup = c /\ inputs[i].type = "queued" /\ i \notin PassedIds
  BY <1>0, Zenon DEF Waits
<1>8. \A i : WaitsRmdir(i)' <=> WaitsRmdir(i)
  BY <1>0, Zenon DEF WaitsRmdir
<1>9. DataOK'
  <2>1. \A d \in DOMAIN cgroupQueues' : Len(cgroupQueues'[d]) <= ContQueueSize
    <3> SUFFICES ASSUME NEW d \in DOMAIN cgroupQueues PROVE Len(cgroupQueues'[d]) <= ContQueueSize
      BY <1>5, Zenon
    <3>1. CASE d # Current
      BY <1>5, <3>1, Zenon DEF DataInv, DataOK
    <3>2. CASE d = Current
      <4>1. Len(q) \in Nat /\ ContQueueSize \in Nat
        BY <1>2, ContainerEnrichAssumption
      <4>2. Len(Append(q, received)) <= ContQueueSize
        BY <1>4, <4>1
      <4> QED  BY <1>5, <3>2, <4>2, Zenon
    <3> QED  BY <3>1, <3>2
  <2> QED  BY <1>0, <1>5, <2>1, Zenon DEF DataInv, DataOK
<1> HIDE DEF q
<1>10. PlaceInv'
  <2>1. \A i \in Elems(orphan') : Waits(i, Current)'
    BY ElemsEmpty
  <2>2. Cleaning' => WaitsRmdir(rmdir)' /\ rmdir' \notin Elems(queueClean')
    <3>1. WaitsRmdir(rmdir) => WaitsRmdir(rmdir)'
      BY <1>8, Zenon DEF WaitsRmdir
    <3> QED  BY <3>1, Zenon DEF DataInv, PlaceInv
  <2>3. \A d \in DOMAIN cgroupQueues :
           Distinct(cgroupQueues'[d]) /\ \A i \in Elems(cgroupQueues'[d]) : Waits(i, d)'
    <3> SUFFICES ASSUME NEW d \in DOMAIN cgroupQueues
                 PROVE  Distinct(cgroupQueues'[d]) /\ \A i \in Elems(cgroupQueues'[d]) : Waits(i, d)'
      OBVIOUS
    <3>1. CASE d # Current
      <4>1. Distinct(cgroupQueues[d]) /\ \A i \in Elems(cgroupQueues[d]) : Waits(i, d)
        BY Zenon DEF DataInv, PlaceInv
      <4> QED  BY <1>5, <1>7, <3>1, <4>1, Zenon DEF Waits
    <3>2. CASE d = Current
      <4>1. \A i \in Elems(q) : i \in 1 .. received /\ inputs[i].cgroup = Current
                                /\ inputs[i].type = "queued" /\ i \notin PassedIds
        BY <1>2, Zenon DEF Waits
      <4>2. received \in 1 .. received
        BY <1>1, <1>2, InputType DEF Ids, DataInv, DataOK
      <4>3. inputs[received].cgroup = Current
        BY DEF Current
      <4>4. \A i \in Elems(Append(q, received)) :
               i \in 1 .. received /\ inputs[i].cgroup = Current
               /\ inputs[i].type = "queued" /\ i \notin PassedIds
        BY <1>1, <1>2, <1>4, <4>1, <4>2, <4>3
      <4>5. cgroupQueues'[d] = Append(q, received)
        BY <1>5, <3>2, Zenon
      <4> QED  BY <1>4, <1>7, <3>2, <4>4, <4>5, Zenon
    <3> QED  BY <3>1, <3>2
  <2>4. Distinct(queueClean') /\ \A i \in Elems(queueClean') : WaitsRmdir(i)'
    BY <1>8, Zenon DEF DataInv, PlaceInv
  <2> QED  BY <1>0, <1>2, <1>5, <1>6, <2>1, <2>2, <2>3, <2>4, Zenon DEF PlaceInv
<1>11. ASSUME RmdirLast PROVE RmdirLast'
  BY <1>2, <1>11, LastSame, Zenon
<1>12. ASSUME NEW i, Kept(i) PROVE Kept(i)'
  <2>1. ASSUME NEW d \in DOMAIN cgroupQueues, i \in Elems(cgroupQueues[d])
        PROVE  i \in Elems(cgroupQueues'[d])
    <3>1. CASE d # Current
      BY <1>5, <2>1, <3>1, Zenon
    <3>2. CASE d = Current
      <4>1. i \in Elems(Append(q, received))
        BY <1>4, <2>1, <3>2 DEF q
      <4> QED  BY <1>5, <3>2, <4>1, Zenon
    <3> QED  BY <3>1, <3>2
  <2>2. received \in Elems(cgroupQueues'[Current])
    BY <1>4, <1>5, Zenon
  <2> QED  BY <1>0, <1>5, <1>12, <2>1, <2>2, Zenon DEF Kept
<1> QED  BY <1>5, <1>9, <1>10, <1>11, <1>12, Zenon DEF DataInv

(* An event x that has left its place is sent on; queues may be forgotten. *)
LEMMA SendData ==
    ASSUME DataInv, NEW x \in Ids, NEW way \in {"direct", "queue", "cleaner"},
           x \in 1 .. received, x \notin PassedIds, passed' = Append(passed, Sent(x, way)),
           inputs' = inputs, received' = received, queueClean' = queueClean, rmdir' = rmdir,
           DOMAIN cgroupQueues' \subseteq DOMAIN cgroupQueues,
           cgroupQueues' \in [DOMAIN cgroupQueues' -> Seq(Ids)],
           \A d \in DOMAIN cgroupQueues' :
              cgroupQueues'[d] = cgroupQueues[d] /\ x \notin Elems(cgroupQueues[d]),
           orphan' \in Seq(Ids), \A i \in Elems(orphan') : Waits(i, Current) /\ i # x,
           x \notin Elems(queueClean),
           InHand' => InHand /\ received # x, Cleaning' => Cleaning /\ rmdir # x
    PROVE  DataInv' /\ PassedIds' = PassedIds \cup {x}
<1>0. Ids' = Ids /\ Passes' = Passes /\ Current' = Current
  BY DEF Ids, Passes, Current
<1>1. passed \in Seq(Passes) /\ AtMostOnce
  BY Zenon DEF DataInv, DataOK, PlaceInv
<1> DEFINE r == Sent(x, way)
<1>2. r \in Passes /\ r.id = x /\ passed' = Append(passed, r)
  BY SentType
<1> HIDE DEF r
<1>3. AtMostOnce' /\ PassedIds' = PassedIds \cup {x}
  BY <1>1, <1>2, PassOne, Zenon
<1>4. \A i, c : Waits(i, c) /\ i # x => Waits(i, c)'
  BY <1>3 DEF Waits
<1>5. \A i : WaitsRmdir(i) /\ i # x => WaitsRmdir(i)'
  BY <1>3 DEF WaitsRmdir
<1>6. DataOK'
  <2>1. passed' \in Seq(Passes)
    BY <1>1, <1>2
  <2>2. \A d \in DOMAIN cgroupQueues' : Len(cgroupQueues'[d]) <= ContQueueSize
    <3> SUFFICES ASSUME NEW d \in DOMAIN cgroupQueues' PROVE Len(cgroupQueues'[d]) <= ContQueueSize
      OBVIOUS
    <3>1. d \in DOMAIN cgroupQueues /\ cgroupQueues'[d] = cgroupQueues[d]
      BY Zenon
    <3> QED  BY <3>1, Zenon DEF DataInv, DataOK
  <2>3. DOMAIN cgroupQueues' \subseteq Cgroups
    BY Zenon DEF DataInv, DataOK
  <2> QED  BY <1>0, <2>1, <2>2, <2>3, Zenon DEF DataInv, DataOK
<1>7. PlaceInv'
  <2>1. PassedIds' \subseteq 1 .. received'
    BY <1>3 DEF DataInv, PlaceInv
  <2>2. InHand' => received' \notin PassedIds'
    BY <1>3 DEF DataInv, PlaceInv
  <2>3. Cleaning' => WaitsRmdir(rmdir)' /\ rmdir' \notin Elems(queueClean')
    <3> SUFFICES ASSUME Cleaning' PROVE WaitsRmdir(rmdir)' /\ rmdir \notin Elems(queueClean)
      BY Zenon
    <3>1. WaitsRmdir(rmdir) /\ rmdir # x /\ rmdir \notin Elems(queueClean)
      BY Zenon DEF DataInv, PlaceInv
    <3>2. WaitsRmdir(rmdir)'
      BY <1>3, <3>1 DEF WaitsRmdir
    <3> QED  BY <3>1, <3>2
  <2>4. Distinct(queueClean') /\ \A i \in Elems(queueClean') : WaitsRmdir(i)'
    BY <1>5, Zenon DEF DataInv, PlaceInv
  <2>5. \A d \in DOMAIN cgroupQueues' :
           Distinct(cgroupQueues'[d]) /\ \A i \in Elems(cgroupQueues'[d]) : Waits(i, d)'
    <3> SUFFICES ASSUME NEW d \in DOMAIN cgroupQueues'
                 PROVE  Distinct(cgroupQueues'[d]) /\ \A i \in Elems(cgroupQueues'[d]) : Waits(i, d)'
      OBVIOUS
    <3>1. /\ d \in DOMAIN cgroupQueues /\ cgroupQueues'[d] = cgroupQueues[d]
          /\ x \notin Elems(cgroupQueues[d])
      BY Zenon
    <3>2. Distinct(cgroupQueues[d]) /\ \A i \in Elems(cgroupQueues[d]) : Waits(i, d)
      BY <3>1, Zenon DEF DataInv, PlaceInv
    <3> QED  BY <1>4, <3>1, <3>2, Zenon
  <2>6. \A i \in Elems(orphan') : Waits(i, Current)'
    BY <1>0, <1>4, Zenon
  <2> QED  BY <1>3, <2>1, <2>2, <2>3, <2>4, <2>5, <2>6, Zenon DEF PlaceInv
<1> QED  BY <1>3, <1>6, <1>7, Zenon DEF DataInv

(* The cleaner takes a cgroup_rmdir out of queueClean.                     *)
LEMMA SelectData ==
    ASSUME DataInv, queueClean # << >>, ~Cleaning, Cleaning',
           rmdir' = Head(queueClean), queueClean' = Tail(queueClean),
           inputs' = inputs, received' = received, cgroupQueues' = cgroupQueues,
           passed' = passed, orphan' = orphan, InHand' <=> InHand
    PROVE  DataInv' /\ (RmdirLast => RmdirLast') /\ \A i : Kept(i) => Kept(i)'
<1>0. Ids' = Ids /\ Passes' = Passes /\ PassedIds' = PassedIds /\ Current' = Current
  BY DEF Ids, Passes, PassedIds, Current
<1>1. queueClean \in Seq(Ids) /\ Distinct(queueClean) /\ Len(queueClean) <= CleanSize
  BY Zenon DEF DataInv, DataOK, PlaceInv
<1>2. /\ rmdir' \in Ids /\ rmdir' \in Elems(queueClean) /\ queueClean' \in Seq(Ids)
      /\ Len(queueClean') = Len(queueClean) - 1
      /\ Elems(queueClean') = Elems(queueClean) \ {rmdir'} /\ Distinct(queueClean')
  <2>1. /\ Head(queueClean) \in Ids /\ Head(queueClean) \in Elems(queueClean)
        /\ Tail(queueClean) \in Seq(Ids) /\ Len(Tail(queueClean)) = Len(queueClean) - 1
        /\ Elems(Tail(queueClean)) = Elems(queueClean) \ {Head(queueClean)}
        /\ Distinct(Tail(queueClean))
    BY <1>1, ElemsTail, Zenon
  <2> QED  BY <2>1, Zenon
<1>3. \A i, c : Waits(i, c)' <=> Waits(i, c)
  BY <1>0, Zenon DEF Waits
<1>4. \A i : WaitsRmdir(i)' <=> WaitsRmdir(i)
  BY <1>0, Zenon DEF WaitsRmdir
<1>5. DataOK'
  <2>1. Len(queueClean') <= CleanSize
    BY <1>1, <1>2, ContainerEnrichAssumption
  <2> QED  BY <1>0, <1>2, <2>1, Zenon DEF DataInv, DataOK
<1>6. PlaceInv'
  <2>1. AtMostOnce'
    BY Zenon DEF DataInv, PlaceInv, AtMostOnce
  <2>2. \A i \in Elems(queueClean) : WaitsRmdir(i)
    BY Zenon DEF DataInv, PlaceInv
  <2>3. WaitsRmdir(rmdir)' /\ rmdir' \notin Elems(queueClean')
    <3>1. rmdir' \in 1 .. received /\ inputs[rmdir'].type = "rmdir" /\ rmdir' \notin PassedIds
      BY <1>2, <2>2, Zenon DEF WaitsRmdir
    <3> QED  BY <1>0, <1>2, <3>1 DEF WaitsRmdir
  <2>4. \A i \in Elems(queueClean') : WaitsRmdir(i)'
    BY <1>2, <1>4, <2>2
  <2>5. \A i \in Elems(orphan') : Waits(i, Current)'
    BY <1>0, <1>3, Zenon DEF DataInv, PlaceInv
  <2> QED  BY <1>0, <1>2, <1>3, <2>1, <2>3, <2>4, <2>5, Zenon DEF DataInv, PlaceInv
<1>7. ASSUME RmdirLast PROVE RmdirLast'
  BY <1>7, LastSame, Zenon DEF DataInv, DataOK
<1>8. ASSUME NEW i, Kept(i) PROVE Kept(i)'
  <2>1. CASE i \in Elems(queueClean)
    <3>1. i \in Elems(queueClean') \/ i = rmdir'
      BY <1>2, <2>1
    <3> QED  BY <3>1, Zenon DEF Kept
  <2> QED  BY <1>0, <1>8, <2>1, Zenon DEF Kept
<1> QED  BY <1>5, <1>6, <1>7, <1>8, Zenon DEF DataInv

(* The cleaner puts it back.                                               *)
LEMMA PutBackData ==
    ASSUME DataInv, Cleaning, ~Cleaning', Len(queueClean) < CleanSize,
           queueClean' = Append(queueClean, rmdir),
           inputs' = inputs, received' = received, cgroupQueues' = cgroupQueues,
           passed' = passed, orphan' = orphan, InHand' <=> InHand
    PROVE  DataInv' /\ (RmdirLast => RmdirLast') /\ \A i : Kept(i) => Kept(i)'
<1>0. Ids' = Ids /\ Passes' = Passes /\ PassedIds' = PassedIds /\ Current' = Current
  BY DEF Ids, Passes, PassedIds, Current
<1>1. /\ queueClean \in Seq(Ids) /\ Distinct(queueClean) /\ rmdir \in Ids
      /\ WaitsRmdir(rmdir) /\ rmdir \notin Elems(queueClean)
  BY Zenon DEF DataInv, DataOK, PlaceInv
<1>2. /\ queueClean' \in Seq(Ids) /\ Len(queueClean') = Len(queueClean) + 1
      /\ Elems(queueClean') = Elems(queueClean) \cup {rmdir} /\ Distinct(queueClean')
  BY <1>1, ElemsAppend
<1>3. \A i, c : Waits(i, c)' <=> Waits(i, c)
  BY <1>0, Zenon DEF Waits
<1>4. \A i : WaitsRmdir(i)' <=> WaitsRmdir(i)
  BY <1>0, Zenon DEF WaitsRmdir
<1>5. DataOK'
  <2>1. Len(queueClean') <= CleanSize
    BY <1>1, <1>2, ContainerEnrichAssumption
  <2> QED  BY <1>0, <1>2, <2>1, Zenon DEF DataInv, DataOK
<1>6. PlaceInv'
  <2>1. AtMostOnce'
    BY Zenon DEF DataInv, PlaceInv, AtMostOnce
  <2>2. \A i \in Elems(queueClean) : WaitsRmdir(i)
    BY Zenon DEF DataInv, PlaceInv
  <2>3. \A i \in Elems(queueClean') : WaitsRmdir(i)'
    BY <1>1, <1>2, <1>4, <2>2
  <2>4. \A i \in Elems(orphan') : Waits(i, Current)'
    BY <1>0, <1>3, Zenon DEF DataInv, PlaceInv
  <2> QED  BY <1>0, <1>2, <1>3, <2>1, <2>3, <2>4, Zenon DEF DataInv, PlaceInv
<1>7. ASSUME RmdirLast PROVE RmdirLast'
  BY <1>7, LastSame, Zenon DEF DataInv, DataOK
<1>8. ASSUME NEW i, Kept(i) PROVE Kept(i)'
  <2>1. CASE i \in Elems(queueClean) \/ i = rmdir
    <3>1. i \in Elems(queueClean')
      BY <1>2, <2>1
    <3> QED  BY <3>1, Zenon DEF Kept
  <2> QED  BY <1>0, <1>8, <2>1, Zenon DEF Kept
<1> QED  BY <1>5, <1>6, <1>7, <1>8, Zenon DEF DataInv

-----------------------------------------------------------------------------
(* The actions.                                                            *)

LEMMA EnrichParts ==
    EnrichInv <=> DataInv /\ ControlOK /\ WriterInv /\ ReaderInv /\ CleanerInv /\ WholeInv /\ RmdirLast
BY TypeParts, Zenon DEF EnrichInv, DataInv, CtrlInv

LEMMA EnrichPartsNext ==
    EnrichInv' <=> DataInv' /\ ControlOK' /\ WriterInv' /\ ReaderInv' /\ CleanerInv'
                   /\ WholeInv' /\ RmdirLast'
<1>1. EnrichTypeOK' <=> DataOK' /\ ControlOK'
  BY Zenon DEF EnrichTypeOK, DataOK, ControlOK, Cleaning, Passes
<1> QED  BY <1>1, Zenon DEF EnrichInv, DataInv, CtrlInv

LEMMA WholeKept ==
    ASSUME WholeInv, inputs' = inputs, handle' = "closed" => handle = "closed",
           InOrder /\ (\A i \in 1 .. received : Kept(i)) => \A i \in 1 .. received' : Kept(i)',
           InOrder /\ cleaner' = "close" => cgroupQueues'[Removed'] = << >>
    PROVE  WholeInv'
<1>1. InOrder' <=> InOrder
  BY DEF InOrder, Ids
<1> QED  BY <1>1, Zenon DEF WholeInv

LEMMA QuietStep ==
    ASSUME EnrichInv, inputs' = inputs, received' = received, cgroupQueues' = cgroupQueues,
           queueClean' = queueClean, rmdir' = rmdir, passed' = passed,
           orphan' = orphan \/ orphan' = << >>, InHand' <=> InHand, Cleaning' <=> Cleaning,
           handle' = "closed" => handle = "closed",
           cleaner' = "close" => cleaner = "close" \/ cgroupQueues[Removed] = << >>,
           ControlOK', WriterInv', ReaderInv', CleanerInv'
    PROVE  EnrichInv'
<1>1. DataInv /\ WholeInv /\ RmdirLast
  BY EnrichParts, Zenon
<1>2. DataInv' /\ (RmdirLast => RmdirLast') /\ \A i : Kept(i) => Kept(i)'
  BY <1>1, QuietData, Zenon
<1>3. Removed' = Removed
  BY DEF Removed
<1>4. WholeInv'
  <2>1. (\A i \in 1 .. received : Kept(i)) => \A i \in 1 .. received' : Kept(i)'
    BY <1>2, Zenon
  <2>2. InOrder /\ cleaner' = "close" => cgroupQueues'[Removed'] = << >>
    BY <1>1, <1>3, Zenon DEF WholeInv
  <2> QED  BY <1>1, <2>1, <2>2, WholeKept, Zenon
<1> QED  BY <1>1, <1>2, <1>4, EnrichPartsNext, Zenon

LEMMA LookupStep == EnrichInv /\ WriterLookup => EnrichInv'
<1> SUFFICES ASSUME EnrichInv, WriterLookup PROVE EnrichInv'
  OBVIOUS
<1>1. DataInv /\ ControlOK /\ WriterInv /\ ReaderInv /\ CleanerInv
  BY EnrichParts, Zenon
<1>2. /\ writer = "lookup" /\ writer' = "send" /\ orphan' = orphan /\ passed' = passed
      /\ handle' = IF Current \in DOMAIN cgroupQueues THEN "open" ELSE "nil"
      /\ cgroupQueues' = cgroupQueues /\ queueReady' = queueReady /\ bLock' = bLock
      /\ enriching' = enriching /\ enrichDone' = enrichDone /\ queueClean' = queueClean
      /\ inputs' = inputs /\ received' = received /\ reader' = reader /\ ready' = ready
      /\ cleaner' = cleaner /\ rmdir' = rmdir /\ canReschedule' = canReschedule
  BY DEF WriterLookup, WriterOnly, readerVars, cleanerVars
<1>3. ControlOK'
  BY <1>1, <1>2 DEF ControlOK
<1>4. WriterInv'
  BY <1>1, <1>2 DEF WriterInv, Busy, Current, Ids
<1>5. ReaderInv'
  BY <1>1, <1>2 DEF ReaderInv
<1>6. CleanerInv'
  BY <1>1, <1>2 DEF CleanerInv, Removed
<1>7. (InHand' <=> InHand) /\ (Cleaning' <=> Cleaning) /\ handle' # "closed"
  BY <1>2 DEF InHand, Cleaning
<1> QED  BY <1>2, <1>3, <1>4, <1>5, <1>6, <1>7, QuietStep, Zenon

LEMMA ScheduleStep == EnrichInv /\ WriterSchedule => EnrichInv'
<1> SUFFICES ASSUME EnrichInv, WriterSchedule PROVE EnrichInv'
  OBVIOUS
<1>1. DataInv /\ ControlOK /\ WriterInv /\ ReaderInv /\ CleanerInv
  BY EnrichParts, Zenon
<1>2. /\ writer = "schedule"
      /\ \/ /\ Len(queueReady) < ReadySize /\ queueReady' = Append(queueReady, Current)
            /\ writer' = "take" /\ handle' = "nil" /\ orphan' = << >>
         \/ /\ queueReady' = queueReady
            /\ writer' = "fallback" /\ handle' = handle /\ orphan' = orphan
      /\ inputs' = inputs /\ bLock' = bLock /\ cgroupQueues' = cgroupQueues
      /\ enriching' = enriching /\ enrichDone' = enrichDone /\ queueClean' = queueClean
      /\ received' = received /\ reader' = reader /\ ready' = ready /\ cleaner' = cleaner
      /\ rmdir' = rmdir /\ canReschedule' = canReschedule /\ passed' = passed
  BY DEF WriterSchedule, WriterOnly, WriterNextEvent, readerVars, cleanerVars
<1>0. queueReady' \in Seq(Cgroups) /\ Len(queueReady') <= ReadySize
  <2>1. /\ queueReady \in Seq(Cgroups) /\ Len(queueReady) \in Nat /\ ReadySize \in Nat
        /\ Len(queueReady) <= ReadySize
    BY <1>1, ContainerEnrichAssumption DEF ControlOK
  <2>2. Current \in Cgroups
    BY <1>1, <1>2, InputType DEF WriterInv, Busy, Current, DataInv, DataOK
  <2> QED  BY <1>2, <2>1, <2>2
<1>3. ControlOK'
  BY <1>1, <1>2, <1>0 DEF ControlOK
<1>4. WriterInv'
  BY <1>1, <1>2 DEF WriterInv, Busy, Current, Ids, ControlOK
<1>5. ReaderInv'
  BY <1>1, <1>2 DEF ReaderInv, CleanerInv, ControlOK
<1>6. CleanerInv'
  BY <1>1, <1>2 DEF CleanerInv, Removed, ReaderInv, ControlOK
<1>7. /\ (InHand' <=> InHand) /\ (Cleaning' <=> Cleaning)
      /\ (handle' = "closed" => handle = "closed")
      /\ (cleaner' = "close" => cleaner = "close" \/ cgroupQueues[Removed] = << >>)
      /\ (orphan' = orphan \/ orphan' = << >>)
  BY <1>2 DEF InHand, Cleaning
<1> QED  BY <1>2, <1>3, <1>4, <1>5, <1>6, <1>7, QuietStep, Zenon

LEMMA EndStep == EnrichInv /\ WriterEnd => EnrichInv'
<1> SUFFICES ASSUME EnrichInv, WriterEnd PROVE EnrichInv'
  OBVIOUS
<1>1. DataInv /\ ControlOK /\ WriterInv /\ ReaderInv /\ CleanerInv
  BY EnrichParts, Zenon
<1>2. /\ writer = "take" /\ received = Len(inputs) /\ writer' = "done" /\ inputs' = inputs
      /\ bLock' = bLock /\ cgroupQueues' = cgroupQueues /\ enriching' = enriching
      /\ enrichDone' = enrichDone /\ queueReady' = queueReady /\ queueClean' = queueClean
      /\ received' = received /\ handle' = handle /\ orphan' = orphan /\ reader' = reader
      /\ ready' = ready /\ cleaner' = cleaner /\ rmdir' = rmdir
      /\ canReschedule' = canReschedule /\ passed' = passed
  BY DEF WriterEnd, WriterOnly, WriterNextEvent, readerVars, cleanerVars
<1>3. ControlOK'
  BY <1>1, <1>2 DEF ControlOK
<1>4. WriterInv'
  BY <1>1, <1>2 DEF WriterInv, Busy, Current, Ids, ControlOK
<1>5. ReaderInv'
  BY <1>1, <1>2 DEF ReaderInv, CleanerInv, ControlOK
<1>6. CleanerInv'
  BY <1>1, <1>2 DEF CleanerInv, Removed, ReaderInv, ControlOK
<1>7. /\ (InHand' <=> InHand) /\ (Cleaning' <=> Cleaning)
      /\ (handle' = "closed" => handle = "closed")
      /\ (cleaner' = "close" => cleaner = "close" \/ cgroupQueues[Removed] = << >>)
      /\ (orphan' = orphan \/ orphan' = << >>)
  BY <1>2 DEF InHand, Cleaning
<1> QED  BY <1>2, <1>3, <1>4, <1>5, <1>6, <1>7, QuietStep, Zenon

LEMMA ResultStep == ASSUME EnrichInv, NEW c \in Cgroups, EnrichResult(c) PROVE EnrichInv'
<1>1. DataInv /\ ControlOK /\ WriterInv /\ ReaderInv /\ CleanerInv
  BY EnrichParts, Zenon
<1>2. /\ enriching[c] > 0 /\ enriching' = [enriching EXCEPT ![c] = @ - 1]
      /\ enrichDone' = enrichDone \cup {c} /\ inputs' = inputs /\ bLock' = bLock
      /\ cgroupQueues' = cgroupQueues /\ queueReady' = queueReady
      /\ queueClean' = queueClean /\ received' = received /\ writer' = writer
      /\ handle' = handle /\ orphan' = orphan /\ reader' = reader /\ ready' = ready
      /\ cleaner' = cleaner /\ rmdir' = rmdir /\ canReschedule' = canReschedule
      /\ passed' = passed
  BY DEF EnrichResult, writerVars, readerVars, cleanerVars
<1>0. enriching' \in [Cgroups -> Nat] /\ enrichDone' \subseteq Cgroups
  <2>1. enriching \in [Cgroups -> Nat] /\ enrichDone \subseteq Cgroups
    BY <1>1 DEF ControlOK
  <2> QED  BY <1>2, <2>1
<1>3. ControlOK'
  BY <1>1, <1>2, <1>0 DEF ControlOK
<1>4. WriterInv'
  BY <1>1, <1>2 DEF WriterInv, Busy, Current, Ids, ControlOK
<1>5. ReaderInv'
  BY <1>1, <1>2 DEF ReaderInv, CleanerInv, ControlOK
<1>6. CleanerInv'
  BY <1>1, <1>2 DEF CleanerInv, Removed, ReaderInv, ControlOK
<1>7. /\ (InHand' <=> InHand) /\ (Cleaning' <=> Cleaning)
      /\ (handle' = "closed" => handle = "closed")
      /\ (cleaner' = "close" => cleaner = "close" \/ cgroupQueues[Removed] = << >>)
      /\ (orphan' = orphan \/ orphan' = << >>)
  BY <1>2 DEF InHand, Cleaning
<1> QED  BY <1>2, <1>3, <1>4, <1>5, <1>6, <1>7, QuietStep, Zenon

LEMMA ReaderSelectStep == EnrichInv /\ ReaderSelect => EnrichInv'
<1> SUFFICES ASSUME EnrichInv, ReaderSelect PROVE EnrichInv'
  OBVIOUS
<1>1. DataInv /\ ControlOK /\ WriterInv /\ ReaderInv /\ CleanerInv
  BY EnrichParts, Zenon
<1>2. /\ reader = "select" /\ queueReady # << >> /\ ready' = Head(queueReady)
      /\ queueReady' = Tail(queueReady) /\ reader' = "ready" /\ inputs' = inputs
      /\ bLock' = bLock /\ cgroupQueues' = cgroupQueues /\ enriching' = enriching
      /\ enrichDone' = enrichDone /\ queueClean' = queueClean /\ received' = received
      /\ writer' = writer /\ handle' = handle /\ orphan' = orphan /\ cleaner' = cleaner
      /\ rmdir' = rmdir /\ canReschedule' = canReschedule /\ passed' = passed
  BY DEF ReaderSelect, ReaderOnly, readerVars, writerVars, cleanerVars
<1>0. queueReady' \in Seq(Cgroups) /\ Len(queueReady') <= ReadySize /\ ready' \in Cgroups
  <2>1. /\ queueReady \in Seq(Cgroups) /\ Len(queueReady) \in Nat /\ ReadySize \in Nat
        /\ Len(queueReady) <= ReadySize
    BY <1>1, ContainerEnrichAssumption DEF ControlOK
  <2>2. /\ Head(queueReady) \in Cgroups /\ Tail(queueReady) \in Seq(Cgroups)
        /\ Len(Tail(queueReady)) = Len(queueReady) - 1
    BY <1>2, <2>1
  <2> QED  BY <1>2, <2>1, <2>2
<1>3. ControlOK'
  BY <1>1, <1>2, <1>0 DEF ControlOK
<1>4. WriterInv'
  BY <1>1, <1>2 DEF WriterInv, Busy, Current, Ids, ControlOK
<1>5. ReaderInv'
  BY <1>1, <1>2 DEF ReaderInv, CleanerInv, ControlOK
<1>6. CleanerInv'
  BY <1>1, <1>2 DEF CleanerInv, Removed, ReaderInv, ControlOK
<1>7. /\ (InHand' <=> InHand) /\ (Cleaning' <=> Cleaning)
      /\ (handle' = "closed" => handle = "closed")
      /\ (cleaner' = "close" => cleaner = "close" \/ cgroupQueues[Removed] = << >>)
      /\ (orphan' = orphan \/ orphan' = << >>)
  BY <1>2 DEF InHand, Cleaning
<1> QED  BY <1>2, <1>3, <1>4, <1>5, <1>6, <1>7, QuietStep, Zenon

LEMMA RescheduleStep == EnrichInv /\ ReaderReschedule => EnrichInv'
<1> SUFFICES ASSUME EnrichInv, ReaderReschedule PROVE EnrichInv'
  OBVIOUS
<1>1. DataInv /\ ControlOK /\ WriterInv /\ ReaderInv /\ CleanerInv
  BY EnrichParts, Zenon
<1>2. /\ reader = "ready" /\ bLock # "cleaner"
      /\ \/ /\ Len(queueReady) < ReadySize /\ queueReady' = Append(queueReady, ready)
            /\ reader' = "select" /\ bLock' = bLock
         \/ /\ queueReady' = queueReady /\ ready \in DOMAIN cgroupQueues
            /\ reader' = "len" /\ bLock' = "reader"
         \/ /\ queueReady' = queueReady /\ reader' = "select" /\ bLock' = bLock
      /\ inputs' = inputs /\ cgroupQueues' = cgroupQueues /\ enriching' = enriching
      /\ enrichDone' = enrichDone /\ queueClean' = queueClean /\ received' = received
      /\ writer' = writer /\ handle' = handle /\ orphan' = orphan /\ ready' = ready
      /\ cleaner' = cleaner /\ rmdir' = rmdir /\ canReschedule' = canReschedule
      /\ passed' = passed
  BY DEF ReaderReschedule, ReaderOnly, readerVars, writerVars, cleanerVars
<1>0. queueReady' \in Seq(Cgroups) /\ Len(queueReady') <= ReadySize
  <2>1. /\ queueReady \in Seq(Cgroups) /\ Len(queueReady) \in Nat /\ ReadySize \in Nat
        /\ Len(queueReady) <= ReadySize
    BY <1>1, ContainerEnrichAssumption DEF ControlOK
  <2>2. ready \in Cgroups
    BY <1>1, <1>2 DEF ControlOK
  <2> QED  BY <1>2, <2>1, <2>2
<1>3. ControlOK'
  BY <1>1, <1>2, <1>0 DEF ControlOK
<1>4. WriterInv'
  BY <1>1, <1>2 DEF WriterInv, Busy, Current, Ids, ControlOK
<1>5. ReaderInv'
  BY <1>1, <1>2 DEF ReaderInv, CleanerInv, ControlOK
<1>6. CleanerInv'
  BY <1>1, <1>2 DEF CleanerInv, Removed, ReaderInv, ControlOK
<1>7. /\ (InHand' <=> InHand) /\ (Cleaning' <=> Cleaning)
      /\ (handle' = "closed" => handle = "closed")
      /\ (cleaner' = "close" => cleaner = "close" \/ cgroupQueues[Removed] = << >>)
      /\ (orphan' = orphan \/ orphan' = << >>)
  BY <1>2 DEF InHand, Cleaning
<1> QED  BY <1>2, <1>3, <1>4, <1>5, <1>6, <1>7, QuietStep, Zenon

LEMMA ReaderLenStep == EnrichInv /\ ReaderLen => EnrichInv'
<1> SUFFICES ASSUME EnrichInv, ReaderLen PROVE EnrichInv'
  OBVIOUS
<1>1. DataInv /\ ControlOK /\ WriterInv /\ ReaderInv /\ CleanerInv
  BY EnrichParts, Zenon
<1>2. /\ reader = "len"
      /\ \/ reader' = "receive" /\ bLock' = bLock
         \/ reader' = "select" /\ bLock' = "free"
      /\ inputs' = inputs /\ cgroupQueues' = cgroupQueues /\ enriching' = enriching
      /\ enrichDone' = enrichDone /\ queueReady' = queueReady /\ queueClean' = queueClean
      /\ received' = received /\ writer' = writer /\ handle' = handle /\ orphan' = orphan
      /\ ready' = ready /\ cleaner' = cleaner /\ rmdir' = rmdir
      /\ canReschedule' = canReschedule /\ passed' = passed
  BY DEF ReaderLen, ReaderOnly, readerVars, writerVars, cleanerVars
<1>3. ControlOK'
  BY <1>1, <1>2 DEF ControlOK
<1>4. WriterInv'
  BY <1>1, <1>2 DEF WriterInv, Busy, Current, Ids, ControlOK
<1>5. ReaderInv'
  BY <1>1, <1>2 DEF ReaderInv, CleanerInv, ControlOK
<1>6. CleanerInv'
  BY <1>1, <1>2 DEF CleanerInv, Removed, ReaderInv, ControlOK
<1>7. /\ (InHand' <=> InHand) /\ (Cleaning' <=> Cleaning)
      /\ (handle' = "closed" => handle = "closed")
      /\ (cleaner' = "close" => cleaner = "close" \/ cgroupQueues[Removed] = << >>)
      /\ (orphan' = orphan \/ orphan' = << >>)
  BY <1>2 DEF InHand, Cleaning
<1> QED  BY <1>2, <1>3, <1>4, <1>5, <1>6, <1>7, QuietStep, Zenon

LEMMA ReaderDoneStep == EnrichInv /\ ReaderWriterDone => EnrichInv'
<1> SUFFICES ASSUME EnrichInv, ReaderWriterDone PROVE EnrichInv'
  OBVIOUS
<1>1. DataInv /\ ControlOK /\ WriterInv /\ ReaderInv /\ CleanerInv
  BY EnrichParts, Zenon
<1>2. /\ reader = "select" /\ writer = "done" /\ reader' = "drain" /\ inputs' = inputs
      /\ bLock' = bLock /\ cgroupQueues' = cgroupQueues /\ enriching' = enriching
      /\ enrichDone' = enrichDone /\ queueReady' = queueReady /\ queueClean' = queueClean
      /\ received' = received /\ writer' = writer /\ handle' = handle /\ orphan' = orphan
      /\ ready' = ready /\ cleaner' = cleaner /\ rmdir' = rmdir
      /\ canReschedule' = canReschedule /\ passed' = passed
  BY DEF ReaderWriterDone, ReaderOnly, readerVars, writerVars, cleanerVars
<1>3. ControlOK'
  BY <1>1, <1>2 DEF ControlOK
<1>4. WriterInv'
  BY <1>1, <1>2 DEF WriterInv, Busy, Current, Ids, ControlOK
<1>5. ReaderInv'
  BY <1>1, <1>2 DEF ReaderInv, CleanerInv, ControlOK
<1>6. CleanerInv'
  BY <1>1, <1>2 DEF CleanerInv, Removed, ReaderInv, ControlOK
<1>7. /\ (InHand' <=> InHand) /\ (Cleaning' <=> Cleaning)
      /\ (handle' = "closed" => handle = "closed")
      /\ (cleaner' = "close" => cleaner = "close" \/ cgroupQueues[Removed] = << >>)
      /\ (orphan' = orphan \/ orphan' = << >>)
  BY <1>2 DEF InHand, Cleaning
<1> QED  BY <1>2, <1>3, <1>4, <1>5, <1>6, <1>7, QuietStep, Zenon

LEMMA DrainAllStep == EnrichInv /\ ReaderDrainAll => EnrichInv'
<1> SUFFICES ASSUME EnrichInv, ReaderDrainAll PROVE EnrichInv'
  OBVIOUS
<1>1. DataInv /\ ControlOK /\ WriterInv /\ ReaderInv /\ CleanerInv
  BY EnrichParts, Zenon
<1>2. /\ reader = "drain" /\ bLock # "cleaner" /\ reader' = "all" /\ bLock' = "reader"
      /\ inputs' = inputs /\ cgroupQueues' = cgroupQueues /\ enriching' = enriching
      /\ enrichDone' = enrichDone /\ queueReady' = queueReady /\ queueClean' = queueClean
      /\ received' = received /\ writer' = writer /\ handle' = handle /\ orphan' = orphan
      /\ ready' = ready /\ cleaner' = cleaner /\ rmdir' = rmdir
      /\ canReschedule' = canReschedule /\ passed' = passed
  BY DEF ReaderDrainAll, ReaderOnly, readerVars, writerVars, cleanerVars
<1>3. ControlOK'
  BY <1>1, <1>2 DEF ControlOK
<1>4. WriterInv'
  BY <1>1, <1>2 DEF WriterInv, Busy, Current, Ids, ControlOK
<1>5. ReaderInv'
  BY <1>1, <1>2 DEF ReaderInv, CleanerInv, ControlOK
<1>6. CleanerInv'
  BY <1>1, <1>2 DEF CleanerInv, Removed, ReaderInv, ControlOK
<1>7. /\ (InHand' <=> InHand) /\ (Cleaning' <=> Cleaning)
      /\ (handle' = "closed" => handle = "closed")
      /\ (cleaner' = "close" => cleaner = "close" \/ cgroupQueues[Removed] = << >>)
      /\ (orphan' = orphan \/ orphan' = << >>)
  BY <1>2 DEF InHand, Cleaning
<1> QED  BY <1>2, <1>3, <1>4, <1>5, <1>6, <1>7, QuietStep, Zenon

LEMMA ReaderEndStep == EnrichInv /\ ReaderEnd => EnrichInv'
<1> SUFFICES ASSUME EnrichInv, ReaderEnd PROVE EnrichInv'
  OBVIOUS
<1>1. DataInv /\ ControlOK /\ WriterInv /\ ReaderInv /\ CleanerInv
  BY EnrichParts, Zenon
<1>2. /\ reader = "all" /\ (\A c \in DOMAIN cgroupQueues : cgroupQueues[c] = << >>)
      /\ reader' = "done" /\ bLock' = "free" /\ inputs' = inputs
      /\ cgroupQueues' = cgroupQueues /\ enriching' = enriching
      /\ enrichDone' = enrichDone /\ queueReady' = queueReady /\ queueClean' = queueClean
      /\ received' = received /\ writer' = writer /\ handle' = handle /\ orphan' = orphan
      /\ ready' = ready /\ cleaner' = cleaner /\ rmdir' = rmdir
      /\ canReschedule' = canReschedule /\ passed' = passed
  BY DEF ReaderEnd, ReaderOnly, readerVars, writerVars, cleanerVars
<1>3. ControlOK'
  BY <1>1, <1>2 DEF ControlOK
<1>4. WriterInv'
  BY <1>1, <1>2 DEF WriterInv, Busy, Current, Ids, ControlOK
<1>5. ReaderInv'
  BY <1>1, <1>2 DEF ReaderInv, CleanerInv, ControlOK
<1>6. CleanerInv'
  BY <1>1, <1>2 DEF CleanerInv, Removed, ReaderInv, ControlOK
<1>7. /\ (InHand' <=> InHand) /\ (Cleaning' <=> Cleaning)
      /\ (handle' = "closed" => handle = "closed")
      /\ (cleaner' = "close" => cleaner = "close" \/ cgroupQueues[Removed] = << >>)
      /\ (orphan' = orphan \/ orphan' = << >>)
  BY <1>2 DEF InHand, Cleaning
<1> QED  BY <1>2, <1>3, <1>4, <1>5, <1>6, <1>7, QuietStep, Zenon

LEMMA CleanerDrainStep == EnrichInv /\ CleanerDrain => EnrichInv'
<1> SUFFICES ASSUME EnrichInv, CleanerDrain PROVE EnrichInv'
  OBVIOUS
<1>1. DataInv /\ ControlOK /\ WriterInv /\ ReaderInv /\ CleanerInv
  BY EnrichParts, Zenon
<1>2. /\ cleaner = "clean" /\ bLock = "free" /\ Removed \in DOMAIN cgroupQueues
      /\ cleaner' = "len" /\ bLock' = "cleaner" /\ inputs' = inputs
      /\ cgroupQueues' = cgroupQueues /\ enriching' = enriching
      /\ enrichDone' = enrichDone /\ queueReady' = queueReady /\ queueClean' = queueClean
      /\ received' = received /\ writer' = writer /\ handle' = handle /\ orphan' = orphan
      /\ reader' = reader /\ ready' = ready /\ rmdir' = rmdir
      /\ canReschedule' = canReschedule /\ passed' = passed
  BY DEF CleanerDrain, CleanerOnly, readerVars, writerVars, cleanerVars
<1>3. ControlOK'
  BY <1>1, <1>2 DEF ControlOK
<1>4. WriterInv'
  BY <1>1, <1>2 DEF WriterInv, Busy, Current, Ids, ControlOK
<1>5. ReaderInv'
  BY <1>1, <1>2 DEF ReaderInv, CleanerInv, ControlOK
<1>6. CleanerInv'
  BY <1>1, <1>2 DEF CleanerInv, Removed, ReaderInv, ControlOK
<1>7. /\ (InHand' <=> InHand) /\ (Cleaning' <=> Cleaning)
      /\ (handle' = "closed" => handle = "closed")
      /\ (cleaner' = "close" => cleaner = "close" \/ cgroupQueues[Removed] = << >>)
      /\ (orphan' = orphan \/ orphan' = << >>)
  BY <1>2 DEF InHand, Cleaning
<1> QED  BY <1>2, <1>3, <1>4, <1>5, <1>6, <1>7, QuietStep, Zenon

LEMMA CleanerLenStep == EnrichInv /\ CleanerLen => EnrichInv'
<1> SUFFICES ASSUME EnrichInv, CleanerLen PROVE EnrichInv'
  OBVIOUS
<1>1. DataInv /\ ControlOK /\ WriterInv /\ ReaderInv /\ CleanerInv
  BY EnrichParts, Zenon
<1>2. /\ cleaner = "len"
      /\ \/ cleaner' = "receive"
         \/ cleaner' = "close" /\ cgroupQueues[Removed] = << >>
      /\ inputs' = inputs /\ bLock' = bLock /\ cgroupQueues' = cgroupQueues
      /\ enriching' = enriching /\ enrichDone' = enrichDone /\ queueReady' = queueReady
      /\ queueClean' = queueClean /\ received' = received /\ writer' = writer
      /\ handle' = handle /\ orphan' = orphan /\ reader' = reader /\ ready' = ready
      /\ rmdir' = rmdir /\ canReschedule' = canReschedule /\ passed' = passed
  BY DEF CleanerLen, CleanerOnly, readerVars, writerVars, cleanerVars
<1>3. ControlOK'
  BY <1>1, <1>2 DEF ControlOK
<1>4. WriterInv'
  BY <1>1, <1>2 DEF WriterInv, Busy, Current, Ids, ControlOK
<1>5. ReaderInv'
  BY <1>1, <1>2 DEF ReaderInv, CleanerInv, ControlOK
<1>6. CleanerInv'
  BY <1>1, <1>2 DEF CleanerInv, Removed, ReaderInv, ControlOK
<1>7. /\ (InHand' <=> InHand) /\ (Cleaning' <=> Cleaning)
      /\ (handle' = "closed" => handle = "closed")
      /\ (cleaner' = "close" => cleaner = "close" \/ cgroupQueues[Removed] = << >>)
      /\ (orphan' = orphan \/ orphan' = << >>)
  BY <1>2 DEF InHand, Cleaning
<1> QED  BY <1>2, <1>3, <1>4, <1>5, <1>6, <1>7, QuietStep, Zenon

LEMMA CleanerDoneStep == EnrichInv /\ CleanerWriterDone => EnrichInv'
<1> SUFFICES ASSUME EnrichInv, CleanerWriterDone PROVE EnrichInv'
  OBVIOUS
<1>1. DataInv /\ ControlOK /\ WriterInv /\ ReaderInv /\ CleanerInv
  BY EnrichParts, Zenon
<1>2. /\ cleaner = "select" /\ writer = "done" /\ canReschedule' = FALSE
      /\ inputs' = inputs /\ bLock' = bLock /\ cgroupQueues' = cgroupQueues
      /\ enriching' = enriching /\ enrichDone' = enrichDone /\ queueReady' = queueReady
      /\ queueClean' = queueClean /\ received' = received /\ writer' = writer
      /\ handle' = handle /\ orphan' = orphan /\ reader' = reader /\ ready' = ready
      /\ cleaner' = cleaner /\ rmdir' = rmdir /\ passed' = passed
  BY DEF CleanerWriterDone, CleanerOnly, readerVars, writerVars, cleanerVars
<1>3. ControlOK'
  BY <1>1, <1>2, Zenon DEF ControlOK
<1>4. WriterInv'
  BY <1>1, <1>2 DEF WriterInv, Busy, Current, Ids, ControlOK
<1>5. ReaderInv'
  BY <1>1, <1>2 DEF ReaderInv, CleanerInv, ControlOK
<1>6. CleanerInv'
  BY <1>1, <1>2 DEF CleanerInv, Removed, ReaderInv, ControlOK
<1>7. /\ (InHand' <=> InHand) /\ (Cleaning' <=> Cleaning)
      /\ (handle' = "closed" => handle = "closed")
      /\ (cleaner' = "close" => cleaner = "close" \/ cgroupQueues[Removed] = << >>)
      /\ (orphan' = orphan \/ orphan' = << >>)
  BY <1>2 DEF InHand, Cleaning
<1> QED  BY <1>2, <1>3, <1>4, <1>5, <1>6, <1>7, QuietStep, Zenon

LEMMA CleanerEndStep == EnrichInv /\ CleanerEnd => EnrichInv'
<1> SUFFICES ASSUME EnrichInv, CleanerEnd PROVE EnrichInv'
  OBVIOUS
<1>1. DataInv /\ ControlOK /\ WriterInv /\ ReaderInv /\ CleanerInv
  BY EnrichParts, Zenon
<1>2. /\ cleaner = "select" /\ ~canReschedule /\ queueClean = << >> /\ cleaner' = "done"
      /\ inputs' = inputs /\ bLock' = bLock /\ cgroupQueues' = cgroupQueues
      /\ enriching' = enriching /\ enrichDone' = enrichDone /\ queueReady' = queueReady
      /\ queueClean' = queueClean /\ received' = received /\ writer' = writer
      /\ handle' = handle /\ orphan' = orphan /\ reader' = reader /\ ready' = ready
      /\ rmdir' = rmdir /\ canReschedule' = canReschedule /\ passed' = passed
  BY DEF CleanerEnd, CleanerOnly, readerVars, writerVars, cleanerVars
<1>3. ControlOK'
  BY <1>1, <1>2 DEF ControlOK
<1>4. WriterInv'
  BY <1>1, <1>2 DEF WriterInv, Busy, Current, Ids, ControlOK
<1>5. ReaderInv'
  BY <1>1, <1>2 DEF ReaderInv, CleanerInv, ControlOK
<1>6. CleanerInv'
  BY <1>1, <1>2 DEF CleanerInv, Removed, ReaderInv, ControlOK
<1>7. /\ (InHand' <=> InHand) /\ (Cleaning' <=> Cleaning)
      /\ (handle' = "closed" => handle = "closed")
      /\ (cleaner' = "close" => cleaner = "close" \/ cgroupQueues[Removed] = << >>)
      /\ (orphan' = orphan \/ orphan' = << >>)
  BY <1>2 DEF InHand, Cleaning
<1> QED  BY <1>2, <1>3, <1>4, <1>5, <1>6, <1>7, QuietStep, Zenon

LEMMA TakeStep ==
    ASSUME EnrichInv, NEW c \in DOMAIN cgroupQueues, cgroupQueues[c] # << >>, TakeEvent(c),
           inputs' = inputs, received' = received, queueClean' = queueClean, rmdir' = rmdir,
           orphan' = orphan \/ orphan' = << >>, InHand' <=> InHand, Cleaning' <=> Cleaning,
           handle' = "closed" => handle = "closed", cleaner' = "close" => cleaner = "close",
           ControlOK', WriterInv', ReaderInv', CleanerInv'
    PROVE  EnrichInv'
<1>1. DataInv /\ WriterInv /\ CleanerInv /\ WholeInv /\ RmdirLast
  BY EnrichParts, Zenon
<1>2. /\ DataInv' /\ (RmdirLast => RmdirLast') /\ \A i : Kept(i) => Kept(i)'
      /\ \A d \in DOMAIN cgroupQueues : cgroupQueues[d] = << >> => cgroupQueues'[d] = << >>
  BY <1>1, TakeData, Zenon
<1>3. Removed' = Removed
  BY DEF Removed
<1>4. WholeInv'
  <2>1. (\A i \in 1 .. received : Kept(i)) => \A i \in 1 .. received' : Kept(i)'
    BY <1>2, Zenon
  <2>2. ASSUME InOrder, cleaner' = "close" PROVE cgroupQueues'[Removed'] = << >>
    <3>1. Removed \in DOMAIN cgroupQueues
      BY <1>1, <2>2 DEF CleanerInv
    <3>2. cgroupQueues[Removed] = << >>
      BY <1>1, <2>2, Zenon DEF WholeInv
    <3> QED  BY <1>2, <1>3, <3>1, <3>2, Zenon
  <2> QED  BY <1>1, <2>1, <2>2, WholeKept, Zenon
<1> QED  BY <1>1, <1>2, <1>4, EnrichPartsNext, Zenon

LEMMA DrainStep ==
    ASSUME EnrichInv, NEW c \in DOMAIN cgroupQueues,
           cgroupQueues' = [cgroupQueues EXCEPT ![c] = << >>], passed' = passed \o Drained(c),
           inputs' = inputs, received' = received, queueClean' = queueClean, rmdir' = rmdir,
           orphan' = orphan, InHand' <=> InHand, Cleaning' <=> Cleaning,
           handle' = "closed" => handle = "closed", cleaner' = "close" => cleaner = "close",
           ControlOK', WriterInv', ReaderInv', CleanerInv'
    PROVE  EnrichInv'
<1>1. DataInv /\ WriterInv /\ CleanerInv /\ WholeInv /\ RmdirLast
  BY EnrichParts, Zenon
<1>2. /\ DataInv' /\ (RmdirLast => RmdirLast') /\ \A i : Kept(i) => Kept(i)'
      /\ \A d \in DOMAIN cgroupQueues : cgroupQueues[d] = << >> => cgroupQueues'[d] = << >>
  BY <1>1, DrainData, Zenon
<1>3. Removed' = Removed
  BY DEF Removed
<1>4. WholeInv'
  <2>1. (\A i \in 1 .. received : Kept(i)) => \A i \in 1 .. received' : Kept(i)'
    BY <1>2, Zenon
  <2>2. ASSUME InOrder, cleaner' = "close" PROVE cgroupQueues'[Removed'] = << >>
    <3>1. Removed \in DOMAIN cgroupQueues
      BY <1>1, <2>2 DEF CleanerInv
    <3>2. cgroupQueues[Removed] = << >>
      BY <1>1, <2>2, Zenon DEF WholeInv
    <3> QED  BY <1>2, <1>3, <3>1, <3>2, Zenon
  <2> QED  BY <1>1, <2>1, <2>2, WholeKept, Zenon
<1> QED  BY <1>1, <1>2, <1>4, EnrichPartsNext, Zenon

LEMMA ReaderReceiveStep == EnrichInv /\ ReaderReceive => EnrichInv'
<1> SUFFICES ASSUME EnrichInv, ReaderReceive PROVE EnrichInv'
  OBVIOUS
<1>1. DataInv /\ ControlOK /\ WriterInv /\ ReaderInv /\ CleanerInv
  BY EnrichParts, Zenon
<1>2. /\ reader = "receive" /\ cgroupQueues[ready] # << >> /\ TakeEvent(ready)
      /\ reader' = "len" /\ inputs' = inputs /\ bLock' = bLock /\ enriching' = enriching
      /\ enrichDone' = enrichDone /\ queueReady' = queueReady /\ queueClean' = queueClean
      /\ received' = received /\ writer' = writer /\ handle' = handle /\ orphan' = orphan
      /\ ready' = ready /\ cleaner' = cleaner /\ rmdir' = rmdir
      /\ canReschedule' = canReschedule
  BY DEF ReaderReceive, ReaderOnly, readerVars, writerVars, cleanerVars
<1>3. ready \in DOMAIN cgroupQueues
  BY <1>1, <1>2 DEF ReaderInv, CleanerInv, WriterInv
<1>4. /\ (InHand' <=> InHand) /\ (Cleaning' <=> Cleaning)
      /\ (handle' = "closed" => handle = "closed")
      /\ (cleaner' = "close" => cleaner = "close")
      /\ (orphan' = orphan \/ orphan' = << >>)
  BY <1>2 DEF InHand, Cleaning
<1>5. /\ DOMAIN cgroupQueues' = DOMAIN cgroupQueues
      /\ \A d \in DOMAIN cgroupQueues : cgroupQueues[d] = << >> => cgroupQueues'[d] = << >>
  BY <1>1, <1>2, <1>3, <1>4, TakeData, Zenon
<1>6. ControlOK'
  BY <1>1, <1>2, <1>5 DEF ControlOK
<1>7. WriterInv'
  BY <1>1, <1>2, <1>5 DEF WriterInv, Busy, Current, Ids, ControlOK
<1>8. ReaderInv'
  BY <1>1, <1>2, <1>5 DEF ReaderInv, CleanerInv, ControlOK
<1>9. CleanerInv'
  BY <1>1, <1>2, <1>5 DEF CleanerInv, Removed, ReaderInv, ControlOK
<1> QED  BY <1>2, <1>3, <1>4, <1>6, <1>7, <1>8, <1>9, TakeStep, Zenon

LEMMA CleanerReceiveStep == EnrichInv /\ CleanerReceive => EnrichInv'
<1> SUFFICES ASSUME EnrichInv, CleanerReceive PROVE EnrichInv'
  OBVIOUS
<1>1. DataInv /\ ControlOK /\ WriterInv /\ ReaderInv /\ CleanerInv
  BY EnrichParts, Zenon
<1>2. /\ cleaner = "receive" /\ cgroupQueues[Removed] # << >> /\ TakeEvent(Removed)
      /\ cleaner' = "len" /\ inputs' = inputs /\ bLock' = bLock /\ enriching' = enriching
      /\ enrichDone' = enrichDone /\ queueReady' = queueReady /\ queueClean' = queueClean
      /\ received' = received /\ writer' = writer /\ handle' = handle /\ orphan' = orphan
      /\ reader' = reader /\ ready' = ready /\ rmdir' = rmdir
      /\ canReschedule' = canReschedule
  BY DEF CleanerReceive, CleanerOnly, readerVars, writerVars, cleanerVars
<1>3. Removed \in DOMAIN cgroupQueues
  BY <1>1, <1>2 DEF ReaderInv, CleanerInv, WriterInv
<1>4. /\ (InHand' <=> InHand) /\ (Cleaning' <=> Cleaning)
      /\ (handle' = "closed" => handle = "closed")
      /\ (cleaner' = "close" => cleaner = "close")
      /\ (orphan' = orphan \/ orphan' = << >>)
  BY <1>2 DEF InHand, Cleaning
<1>5. /\ DOMAIN cgroupQueues' = DOMAIN cgroupQueues
      /\ \A d \in DOMAIN cgroupQueues : cgroupQueues[d] = << >> => cgroupQueues'[d] = << >>
  BY <1>1, <1>2, <1>3, <1>4, TakeData, Zenon
<1>6. ControlOK'
  BY <1>1, <1>2, <1>5 DEF ControlOK
<1>7. WriterInv'
  BY <1>1, <1>2, <1>5 DEF WriterInv, Busy, Current, Ids, ControlOK
<1>8. ReaderInv'
  BY <1>1, <1>2, <1>5 DEF ReaderInv, CleanerInv, ControlOK
<1>9. CleanerInv'
  BY <1>1, <1>2, <1>5 DEF CleanerInv, Removed, ReaderInv, ControlOK
<1> QED  BY <1>2, <1>3, <1>4, <1>6, <1>7, <1>8, <1>9, TakeStep, Zenon

LEMMA DrainQueueStep == ASSUME EnrichInv, NEW c \in DOMAIN cgroupQueues, ReaderDrainQueue(c) PROVE EnrichInv'
<1>1. DataInv /\ ControlOK /\ WriterInv /\ ReaderInv /\ CleanerInv
  BY EnrichParts, Zenon
<1>2. /\ reader = "all" /\ cgroupQueues' = [cgroupQueues EXCEPT ![c] = << >>]
      /\ passed' = passed \o Drained(c) /\ inputs' = inputs /\ bLock' = bLock
      /\ enriching' = enriching /\ enrichDone' = enrichDone /\ queueReady' = queueReady
      /\ queueClean' = queueClean /\ received' = received /\ writer' = writer
      /\ handle' = handle /\ orphan' = orphan /\ reader' = reader /\ ready' = ready
      /\ cleaner' = cleaner /\ rmdir' = rmdir /\ canReschedule' = canReschedule
  BY DEF ReaderDrainQueue, ReaderOnly, readerVars, writerVars, cleanerVars
<1>3. c \in DOMAIN cgroupQueues
  OBVIOUS
<1>4. /\ (InHand' <=> InHand) /\ (Cleaning' <=> Cleaning)
      /\ (handle' = "closed" => handle = "closed")
      /\ (cleaner' = "close" => cleaner = "close")
      /\ (orphan' = orphan \/ orphan' = << >>)
  BY <1>2 DEF InHand, Cleaning
<1>5. /\ DOMAIN cgroupQueues' = DOMAIN cgroupQueues
      /\ \A d \in DOMAIN cgroupQueues : cgroupQueues[d] = << >> => cgroupQueues'[d] = << >>
  BY <1>1, <1>2, <1>3, <1>4, DrainData, Zenon
<1>6. ControlOK'
  BY <1>1, <1>2, <1>5 DEF ControlOK
<1>7. WriterInv'
  BY <1>1, <1>2, <1>5 DEF WriterInv, Busy, Current, Ids, ControlOK
<1>8. ReaderInv'
  BY <1>1, <1>2, <1>5 DEF ReaderInv, CleanerInv, ControlOK
<1>9. CleanerInv'
  BY <1>1, <1>2, <1>5 DEF CleanerInv, Removed, ReaderInv, ControlOK
<1> QED  BY <1>2, <1>3, <1>4, <1>6, <1>7, <1>8, <1>9, DrainStep, Zenon

LEMMA DequeueStep == EnrichInv /\ ReaderDequeue => EnrichInv'
<1> SUFFICES ASSUME EnrichInv, ReaderDequeue PROVE EnrichInv'
  OBVIOUS
<1>1. DataInv /\ ControlOK /\ WriterInv /\ ReaderInv /\ CleanerInv
  BY EnrichParts, Zenon
<1>2. /\ reader = "ready" /\ reader' = "select" /\ inputs' = inputs /\ bLock' = bLock
      /\ enriching' = enriching /\ enrichDone' = enrichDone /\ queueReady' = queueReady
      /\ queueClean' = queueClean /\ received' = received /\ writer' = writer
      /\ handle' = handle /\ orphan' = orphan /\ ready' = ready /\ cleaner' = cleaner
      /\ rmdir' = rmdir /\ canReschedule' = canReschedule
  BY DEF ReaderDequeue, ReaderOnly, readerVars, writerVars, cleanerVars
<1>3. /\ (InHand' <=> InHand) /\ (Cleaning' <=> Cleaning)
      /\ (handle' = "closed" => handle = "closed")
      /\ (cleaner' = "close" => cleaner = "close")
  BY <1>2 DEF InHand, Cleaning
<1>4. CASE ready \in DOMAIN cgroupQueues /\ cgroupQueues[ready] # << >>
  <2>1. /\ ready \in DOMAIN cgroupQueues /\ cgroupQueues[ready] # << >> /\ TakeEvent(ready)
    BY <1>4 DEF ReaderDequeue
  <2>2. /\ DOMAIN cgroupQueues' = DOMAIN cgroupQueues
        /\ \A d \in DOMAIN cgroupQueues : cgroupQueues[d] = << >> => cgroupQueues'[d] = << >>
    BY <1>1, <1>2, <1>3, <2>1, TakeData, Zenon
  <2>3. ControlOK'
    BY <1>1, <1>2, <2>2 DEF ControlOK
  <2>4. WriterInv'
    BY <1>1, <1>2, <2>2 DEF WriterInv, Busy, Current, Ids, ControlOK
  <2>5. ReaderInv'
    BY <1>1, <1>2, <2>2 DEF ReaderInv, CleanerInv, ControlOK
  <2>6. CleanerInv'
    BY <1>1, <1>2, <2>2 DEF CleanerInv, Removed, ReaderInv, ControlOK
  <2> QED  BY <1>2, <1>3, <2>1, <2>3, <2>4, <2>5, <2>6, TakeStep, Zenon
<1>5. CASE ~(ready \in DOMAIN cgroupQueues /\ cgroupQueues[ready] # << >>)
  <2>1. cgroupQueues' = cgroupQueues /\ passed' = passed
    BY <1>5 DEF ReaderDequeue
  <2>2. ControlOK'
    BY <1>1, <1>2, <2>1 DEF ControlOK
  <2>3. WriterInv'
    BY <1>1, <1>2, <2>1 DEF WriterInv, Busy, Current, Ids, ControlOK
  <2>4. ReaderInv'
    BY <1>1, <1>2, <2>1 DEF ReaderInv, CleanerInv, ControlOK
  <2>5. CleanerInv'
    BY <1>1, <1>2, <2>1 DEF CleanerInv, Removed, ReaderInv, ControlOK
  <2> QED  BY <1>2, <1>3, <2>1, <2>2, <2>3, <2>4, <2>5, QuietStep, Zenon
<1> QED  BY <1>4, <1>5

LEMMA ReaderDrainStep == EnrichInv /\ ReaderDrain => EnrichInv'
<1> SUFFICES ASSUME EnrichInv, ReaderDrain PROVE EnrichInv'
  OBVIOUS
<1>1. DataInv /\ ControlOK /\ WriterInv /\ ReaderInv /\ CleanerInv
  BY EnrichParts, Zenon
<1>2. /\ reader = "drain" /\ queueReady # << >> /\ queueReady' = Tail(queueReady)
      /\ inputs' = inputs /\ bLock' = bLock /\ enriching' = enriching
      /\ enrichDone' = enrichDone /\ queueClean' = queueClean /\ received' = received
      /\ writer' = writer /\ handle' = handle /\ orphan' = orphan /\ reader' = reader
      /\ ready' = ready /\ cleaner' = cleaner /\ rmdir' = rmdir
      /\ canReschedule' = canReschedule
  BY DEF ReaderDrain, ReaderOnly, readerVars, writerVars, cleanerVars
<1>0. queueReady' \in Seq(Cgroups) /\ Len(queueReady') <= ReadySize
  <2>1. /\ queueReady \in Seq(Cgroups) /\ Len(queueReady) \in Nat /\ ReadySize \in Nat
        /\ Len(queueReady) <= ReadySize
    BY <1>1, ContainerEnrichAssumption DEF ControlOK
  <2>2. Tail(queueReady) \in Seq(Cgroups) /\ Len(Tail(queueReady)) = Len(queueReady) - 1
    BY <1>2, <2>1
  <2> QED  BY <1>2, <2>1, <2>2
<1>3. /\ (InHand' <=> InHand) /\ (Cleaning' <=> Cleaning)
      /\ (handle' = "closed" => handle = "closed")
      /\ (cleaner' = "close" => cleaner = "close")
  BY <1>2 DEF InHand, Cleaning
<1>4. CASE Head(queueReady) \in DOMAIN cgroupQueues
  <2>1. /\ Head(queueReady) \in DOMAIN cgroupQueues
        /\ cgroupQueues' = [cgroupQueues EXCEPT ![Head(queueReady)] = << >>]
        /\ passed' = passed \o Drained(Head(queueReady))
    BY <1>4 DEF ReaderDrain
  <2>2. /\ DOMAIN cgroupQueues' = DOMAIN cgroupQueues
        /\ \A d \in DOMAIN cgroupQueues : cgroupQueues[d] = << >> => cgroupQueues'[d] = << >>
    BY <1>1, <1>2, <1>3, <2>1, DrainData, Zenon
  <2>3. ControlOK'
    BY <1>1, <1>2, <1>0, <2>2 DEF ControlOK
  <2>4. WriterInv'
    BY <1>1, <1>2, <1>0, <2>2 DEF WriterInv, Busy, Current, Ids, ControlOK
  <2>5. ReaderInv'
    BY <1>1, <1>2, <1>0, <2>2 DEF ReaderInv, CleanerInv, ControlOK
  <2>6. CleanerInv'
    BY <1>1, <1>2, <1>0, <2>2 DEF CleanerInv, Removed, ReaderInv, ControlOK
  <2> QED  BY <1>2, <1>3, <2>1, <2>3, <2>4, <2>5, <2>6, DrainStep, Zenon
<1>5. CASE ~(Head(queueReady) \in DOMAIN cgroupQueues)
  <2>1. cgroupQueues' = cgroupQueues /\ passed' = passed
    BY <1>5 DEF ReaderDrain
  <2>2. ControlOK'
    BY <1>1, <1>2, <1>0, <2>1 DEF ControlOK
  <2>3. WriterInv'
    BY <1>1, <1>2, <1>0, <2>1 DEF WriterInv, Busy, Current, Ids, ControlOK
  <2>4. ReaderInv'
    BY <1>1, <1>2, <1>0, <2>1 DEF ReaderInv, CleanerInv, ControlOK
  <2>5. CleanerInv'
    BY <1>1, <1>2, <1>0, <2>1 DEF CleanerInv, Removed, ReaderInv, ControlOK
  <2> QED  BY <1>2, <1>3, <2>1, <2>2, <2>3, <2>4, <2>5, QuietStep, Zenon
<1> QED  BY <1>4, <1>5

LEMMA FallbackStep == EnrichInv /\ WriterFallback => EnrichInv'
<1> SUFFICES ASSUME EnrichInv, WriterFallback PROVE EnrichInv'
  OBVIOUS
<1>1. DataInv /\ ControlOK /\ WriterInv /\ ReaderInv /\ CleanerInv /\ WholeInv /\ RmdirLast
  BY EnrichParts, Zenon
<1>2. /\ writer = "fallback" /\ writer' = "take" /\ handle' = "nil" /\ orphan' = << >>
      /\ inputs' = inputs /\ bLock' = bLock /\ enriching' = enriching /\ enrichDone' = enrichDone
      /\ queueReady' = queueReady /\ queueClean' = queueClean /\ received' = received
      /\ reader' = reader /\ ready' = ready /\ cleaner' = cleaner /\ rmdir' = rmdir
      /\ canReschedule' = canReschedule
  BY DEF WriterFallback, WriterOnly, WriterNextEvent, readerVars, cleanerVars
<1>3. (InHand' <=> InHand) /\ (Cleaning' <=> Cleaning) /\ ~InHand /\ handle' # "closed"
  BY <1>2 DEF InHand, Cleaning
<1>4. CASE handle = "open" /\ cgroupQueues[Current] # << >>
           /\ cgroupQueues' = [cgroupQueues EXCEPT ![Current] = Tail(@)]
           /\ passed' = Append(passed, Sent(Head(cgroupQueues[Current]), "queue"))
  <2>1. Current \in DOMAIN cgroupQueues /\ cgroupQueues[Current] # << >> /\ TakeEvent(Current)
    BY <1>1, <1>4 DEF TakeEvent, WriterInv
  <2>2. /\ DOMAIN cgroupQueues' = DOMAIN cgroupQueues
        /\ \A d \in DOMAIN cgroupQueues : cgroupQueues[d] = << >> => cgroupQueues'[d] = << >>
    BY <1>1, <1>2, <1>3, <2>1, TakeData, Zenon
  <2>3. ControlOK'
    BY <1>1, <1>2 DEF ControlOK
  <2>4. WriterInv'
    BY <1>2 DEF WriterInv, Busy
  <2>5. ReaderInv'
    BY <1>1, <1>2, <2>2 DEF ReaderInv
  <2>6. CleanerInv'
    BY <1>1, <1>2, <2>2 DEF CleanerInv, Removed
  <2> QED  BY <1>2, <1>3, <2>1, <2>3, <2>4, <2>5, <2>6, TakeStep, Zenon
<1>5. CASE handle = "closed" /\ cgroupQueues' = cgroupQueues
           /\ passed' = IF orphan = << >> THEN passed ELSE Append(passed, Sent(Head(orphan), "queue"))
  <2>1. ControlOK'
    BY <1>1, <1>2 DEF ControlOK
  <2>2. WriterInv'
    BY <1>2 DEF WriterInv, Busy
  <2>3. ReaderInv'
    BY <1>1, <1>2, <1>5 DEF ReaderInv
  <2>4. CleanerInv'
    BY <1>1, <1>2, <1>5 DEF CleanerInv, Removed
  <2>5. CASE orphan = << >>
    <3>1. passed' = passed
      BY <1>5, <2>5
    <3> QED  BY <1>2, <1>3, <1>5, <2>1, <2>2, <2>3, <2>4, <3>1, QuietStep, Zenon
  <2>6. CASE orphan # << >>
    <3> DEFINE x == Head(orphan)
    <3>1. passed' = Append(passed, Sent(x, "queue")) /\ orphan \in Seq(Ids)
      BY <1>1, <1>5, <2>6 DEF DataInv, DataOK
    <3>2. x \in Elems(orphan)
      BY <2>6, <3>1, ElemsOf, Zenon
    <3>3. x \in Ids
      BY <2>6, <3>1
    <3> HIDE DEF x
    <3>4. Waits(x, Current)
      BY <1>1, <3>2, Zenon DEF DataInv, PlaceInv
    <3>5. x \in 1 .. received /\ x \notin PassedIds /\ inputs[x].type = "queued"
          /\ inputs[x].cgroup = Current
      BY <3>4, Zenon DEF Waits
    <3>6. Current \notin DOMAIN cgroupQueues
      BY <1>1, <1>5, Zenon DEF WriterInv
    <3>7. \A d \in DOMAIN cgroupQueues : x \notin Elems(cgroupQueues[d])
      BY <1>1, <3>5, <3>6, Zenon DEF DataInv, PlaceInv, Waits
    <3>8. x \notin Elems(queueClean) /\ (Cleaning => rmdir # x)
      <4>1. \A i : WaitsRmdir(i) => i # x
        BY <3>5 DEF WaitsRmdir
      <4> QED  BY <1>1, <4>1, Zenon DEF DataInv, PlaceInv
    <3>9. orphan' \in Seq(Ids) /\ Elems(orphan') = {}
      <4>1. << >> \in Seq(Ids)
        OBVIOUS
      <4> QED  BY <1>2, <4>1, ElemsEmpty, Zenon
    <3>10. /\ DOMAIN cgroupQueues' \subseteq DOMAIN cgroupQueues
           /\ cgroupQueues' \in [DOMAIN cgroupQueues' -> Seq(Ids)]
           /\ \A d \in DOMAIN cgroupQueues' :
                 cgroupQueues'[d] = cgroupQueues[d] /\ x \notin Elems(cgroupQueues[d])
      BY <1>1, <1>5, <3>7, Zenon DEF DataInv, DataOK
    <3>11. \A i \in Elems(orphan') : Waits(i, Current) /\ i # x
      BY <3>9
    <3>12. "queue" \in {"direct", "queue", "cleaner"}
      OBVIOUS
    <3>13. DataInv' /\ PassedIds' = PassedIds \cup {x}
      BY <1>1, <1>2, <1>3, <3>1, <3>3, <3>5, <3>8, <3>9, <3>10, <3>11, <3>12, SendData, Zenon
    <3>14. RmdirLast'
      <4>1. Sent(x, "queue") \in Passes /\ Sent(x, "queue").way # "cleaner"
        BY <3>3, SentType
      <4>2. passed \in Seq(Passes)
        BY <1>1, Zenon DEF DataInv, DataOK
      <4> QED  BY <1>1, <1>2, <3>1, <4>1, <4>2, LastAppend, Zenon
    <3>15. WholeInv'
      <4>1. ~InOrder
        BY <1>1, <1>5, Zenon DEF WholeInv
      <4> QED  BY <1>1, <1>2, <1>3, <4>1, WholeKept, Zenon
    <3> QED  BY <2>1, <2>2, <2>3, <2>4, <3>13, <3>14, <3>15, EnrichPartsNext, Zenon
  <2> QED  BY <2>5, <2>6
<1> QED  BY <1>4, <1>5, Zenon DEF WriterFallback

LEMMA PassStep == EnrichInv /\ WriterPass => EnrichInv'
<1> SUFFICES ASSUME EnrichInv, WriterPass PROVE EnrichInv'
  OBVIOUS
<1>1. DataInv /\ ControlOK /\ WriterInv /\ ReaderInv /\ CleanerInv /\ WholeInv /\ RmdirLast
  BY EnrichParts, Zenon
<1>2. /\ writer = "take" /\ received < Len(inputs) /\ received' = received + 1
      /\ inputs' = inputs /\ bLock' = bLock /\ cgroupQueues' = cgroupQueues
      /\ enriching' = enriching /\ enrichDone' = enrichDone /\ queueReady' = queueReady
      /\ writer' = writer /\ handle' = handle /\ orphan' = orphan /\ reader' = reader
      /\ ready' = ready /\ cleaner' = cleaner /\ rmdir' = rmdir
      /\ canReschedule' = canReschedule
  BY DEF WriterPass, mapVars, readerVars, cleanerVars
<1>3. handle = "nil" /\ orphan = << >>
  BY <1>1, <1>2 DEF WriterInv
<1>4. ~InHand /\ ~InHand' /\ (Cleaning' <=> Cleaning)
  BY <1>2 DEF InHand, Cleaning
<1>5. ControlOK'
  BY <1>1, <1>2 DEF ControlOK
<1>6. WriterInv'
  BY <1>2, <1>3 DEF WriterInv, Busy
<1>7. ReaderInv'
  BY <1>1, <1>2 DEF ReaderInv
<1>8. CleanerInv'
  BY <1>1, <1>2 DEF CleanerInv, Removed
<1>9. /\ DataInv' /\ RmdirLast'
      /\ (\A i \in 1 .. received : Kept(i)) => \A i \in 1 .. received' : Kept(i)'
  <2>1. CASE /\ inputs[received'].type = "rmdir" /\ Len(queueClean) < CleanSize
             /\ queueClean' = Append(queueClean, received') /\ passed' = passed
    BY <1>1, <1>2, <1>3, <1>4, <2>1, CleanData, Zenon
  <2>2. CASE passed' = Append(passed, Sent(received', "direct")) /\ queueClean' = queueClean
    BY <1>1, <1>2, <1>3, <1>4, <2>2, DirectData, Zenon
  <2> QED  BY <2>1, <2>2 DEF WriterPass
<1>10. WholeInv'
  <2>1. InOrder /\ cleaner' = "close" => cgroupQueues'[Removed'] = << >>
    BY <1>1, <1>2 DEF WholeInv, Removed
  <2> QED  BY <1>1, <1>2, <1>9, <2>1, WholeKept, Zenon
<1> QED  BY <1>5, <1>6, <1>7, <1>8, <1>9, <1>10, EnrichPartsNext, Zenon

LEMMA EnsureStep == EnrichInv /\ WriterEnsure => EnrichInv'
<1> SUFFICES ASSUME EnrichInv, WriterEnsure PROVE EnrichInv'
  OBVIOUS
<1>1. DataInv /\ ControlOK /\ WriterInv /\ ReaderInv /\ CleanerInv /\ WholeInv /\ RmdirLast
  BY EnrichParts, Zenon
<1>2. /\ writer = "take" /\ received < Len(inputs) /\ received' = received + 1
      /\ inputs[received'].type = "queued" /\ bLock = "free" /\ writer' = "lookup"
      /\ inputs' = inputs /\ bLock' = bLock /\ enrichDone' = enrichDone
      /\ queueReady' = queueReady /\ queueClean' = queueClean /\ handle' = handle
      /\ orphan' = orphan /\ reader' = reader /\ ready' = ready /\ cleaner' = cleaner
      /\ rmdir' = rmdir /\ canReschedule' = canReschedule /\ passed' = passed
  BY DEF WriterEnsure, readerVars, cleanerVars
<1>3. handle = "nil" /\ orphan = << >>
  BY <1>1, <1>2 DEF WriterInv
<1>4. ~InHand /\ InHand' /\ (Cleaning' <=> Cleaning)
  BY <1>2 DEF InHand, Cleaning
<1>5. \/ cgroupQueues' = cgroupQueues /\ enriching' = enriching
      \/ /\ inputs[received'].cgroup \notin DOMAIN cgroupQueues
         /\ cgroupQueues' = [c \in DOMAIN cgroupQueues \cup {inputs[received'].cgroup} |->
                                IF c \in DOMAIN cgroupQueues THEN cgroupQueues[c] ELSE << >>]
         /\ enriching' = [enriching EXCEPT ![inputs[received'].cgroup] = @ + 1]
  BY DEF WriterEnsure
<1>6. /\ DataInv' /\ RmdirLast'
      /\ (\A i \in 1 .. received : Kept(i)) => \A i \in 1 .. received' : Kept(i)'
      /\ DOMAIN cgroupQueues \subseteq DOMAIN cgroupQueues'
  BY <1>1, <1>2, <1>3, <1>4, <1>5, EnsureData, Zenon
<1>7. ControlOK'
  <2>1. enriching \in [Cgroups -> Nat]
    BY <1>1 DEF ControlOK
  <2>2. enriching' \in [Cgroups -> Nat]
    BY <1>5, <2>1
  <2> QED  BY <1>1, <1>2, <2>2 DEF ControlOK
<1>8. WriterInv'
  <2>1. received' \in Ids'
    BY <1>1, <1>2 DEF DataInv, DataOK, Ids
  <2> QED  BY <1>2, <1>3, <2>1 DEF WriterInv, Busy
<1>9. ReaderInv'
  BY <1>1, <1>2, <1>6 DEF ReaderInv
<1>10. CleanerInv'
  BY <1>1, <1>2, <1>6 DEF CleanerInv, Removed
<1>11. cleaner' # "close"
  BY <1>1, <1>2 DEF CleanerInv
<1>12. WholeInv'
  BY <1>1, <1>2, <1>6, <1>11, WholeKept, Zenon
<1> QED  BY <1>6, <1>7, <1>8, <1>9, <1>10, <1>12, EnrichPartsNext, Zenon

(* The event in the hands of the cleaner is nowhere else.                  *)
LEMMA RmdirApart ==
    ASSUME DataInv, WriterInv, Cleaning
    PROVE  /\ rmdir \in Ids /\ rmdir \in 1 .. received /\ rmdir \notin PassedIds
           /\ inputs[rmdir].type = "rmdir" /\ rmdir \notin Elems(queueClean)
           /\ \A d \in DOMAIN cgroupQueues : rmdir \notin Elems(cgroupQueues[d])
           /\ rmdir \notin Elems(orphan)
           /\ Busy => received # rmdir
<1>1. WaitsRmdir(rmdir) /\ rmdir \notin Elems(queueClean) /\ rmdir \in Ids
  BY Zenon DEF DataInv, DataOK, PlaceInv
<1>2. rmdir \in 1 .. received /\ rmdir \notin PassedIds /\ inputs[rmdir].type = "rmdir"
  BY <1>1, Zenon DEF WaitsRmdir
<1>3. \A c : ~Waits(rmdir, c)
  BY <1>2 DEF Waits
<1>4. /\ \A d \in DOMAIN cgroupQueues : rmdir \notin Elems(cgroupQueues[d])
      /\ rmdir \notin Elems(orphan)
  BY <1>3, Zenon DEF DataInv, PlaceInv
<1>5. Busy => received # rmdir
  BY <1>2 DEF WriterInv
<1> QED  BY <1>1, <1>2, <1>4, <1>5, Zenon

(* The writer is past the events of a cgroup that was removed.             *)
LEMMA RemovedBehind ==
    ASSUME DataInv, WriterInv, Cleaning, InOrder, Busy
    PROVE  Removed # Current
<1>1. rmdir \in Ids /\ rmdir \in 1 .. received /\ inputs[rmdir].type = "rmdir" /\ received # rmdir
  BY RmdirApart, Zenon
<1>2. received \in Ids /\ inputs[received].type = "queued"
  BY Zenon DEF WriterInv
<1>3. rmdir < received
  BY <1>1, <1>2 DEF Ids
<1> QED  BY <1>1, <1>2, <1>3, Zenon DEF InOrder, Removed, Current

LEMMA RemovedPassed ==
    ASSUME DataInv, WriterInv, WholeInv, Cleaning, InOrder,
           Removed \in DOMAIN cgroupQueues => cgroupQueues[Removed] = << >>
    PROVE  \A i \in 1 .. rmdir :
               inputs[i].cgroup = Removed /\ inputs[i].type = "queued" => i \in PassedIds
<1> SUFFICES ASSUME NEW i \in 1 .. rmdir, inputs[i].cgroup = Removed, inputs[i].type = "queued"
             PROVE  i \in PassedIds
  OBVIOUS
<1>1. rmdir \in Ids /\ rmdir \in 1 .. received /\ inputs[rmdir].type = "rmdir"
  BY RmdirApart, Zenon
<1>2. received \in 0 .. Len(inputs) /\ Len(inputs) \in Nat
  <2>1. inputs \in EnrichInputs /\ received \in 0 .. Len(inputs)
    BY Zenon DEF DataInv, DataOK
  <2> QED  BY <2>1, InputType, Zenon
<1>3. i \in 1 .. received /\ i # rmdir
  BY <1>1, <1>2 DEF Ids
<1>4. i # received
  BY <1>1, <1>2, <1>3 DEF Ids
<1>5. Kept(i)
  BY <1>3, Zenon DEF WholeInv
<1>6. i \notin Elems(queueClean)
  <2>1. ~WaitsRmdir(i)
    BY DEF WaitsRmdir
  <2> QED  BY <2>1, Zenon DEF DataInv, PlaceInv
<1>7. ASSUME NEW c \in DOMAIN cgroupQueues, i \in Elems(cgroupQueues[c]) PROVE FALSE
  <2>1. c = Removed
    BY <1>7, Zenon DEF DataInv, PlaceInv, Waits
  <2> QED  BY <1>7, <2>1, ElemsEmpty
<1> QED  BY <1>3, <1>4, <1>5, <1>6, <1>7, Zenon DEF Kept

LEMMA WriterSendStep == EnrichInv /\ WriterSend => EnrichInv'
<1> SUFFICES ASSUME EnrichInv, WriterSend PROVE EnrichInv'
  OBVIOUS
<1>1. DataInv /\ ControlOK /\ WriterInv /\ ReaderInv /\ CleanerInv /\ WholeInv /\ RmdirLast
  BY EnrichParts, Zenon
<1>2. /\ writer = "send" /\ handle # "closed"
      /\ inputs' = inputs /\ bLock' = bLock /\ enriching' = enriching
      /\ enrichDone' = enrichDone /\ queueReady' = queueReady /\ queueClean' = queueClean
      /\ received' = received /\ reader' = reader /\ ready' = ready /\ cleaner' = cleaner
      /\ rmdir' = rmdir /\ canReschedule' = canReschedule
  BY DEF WriterSend, WriterOnly, readerVars, cleanerVars
<1>3. InHand /\ Busy /\ (Cleaning' <=> Cleaning) /\ orphan = << >>
  BY <1>1, <1>2 DEF InHand, Busy, Cleaning, WriterInv
<1>4. CASE /\ handle = "open" /\ Len(cgroupQueues[Current]) < ContQueueSize
           /\ cgroupQueues' = [cgroupQueues EXCEPT ![Current] = Append(@, received)]
           /\ writer' = "schedule" /\ handle' = handle /\ orphan' = orphan /\ passed' = passed
  <2>1. Current \in DOMAIN cgroupQueues /\ ~InHand'
    BY <1>1, <1>4 DEF WriterInv, InHand
  <2>2. /\ DataInv' /\ RmdirLast' /\ \A i : Kept(i) => Kept(i)'
        /\ DOMAIN cgroupQueues' = DOMAIN cgroupQueues
        /\ \A d \in DOMAIN cgroupQueues : d # Current => cgroupQueues'[d] = cgroupQueues[d]
    BY <1>1, <1>2, <1>3, <1>4, <2>1, EnqueueData, Zenon
  <2>3. ControlOK'
    BY <1>1, <1>2, <1>4 DEF ControlOK
  <2>4. WriterInv'
    BY <1>1, <1>2, <1>3, <1>4, <2>1, <2>2 DEF WriterInv, Busy, Current, Ids
  <2>5. ReaderInv'
    BY <1>1, <1>2, <1>4, <2>2 DEF ReaderInv
  <2>6. CleanerInv'
    BY <1>1, <1>2, <1>4, <2>2 DEF CleanerInv, Removed
  <2>7. WholeInv'
    <3>1. ASSUME InOrder, cleaner' = "close" PROVE cgroupQueues'[Removed'] = << >>
      <4>1. Cleaning /\ cleaner = "close" /\ Removed' = Removed
        BY <1>2, <3>1 DEF Cleaning, Removed
      <4>2. Removed # Current
        BY <1>1, <1>3, <3>1, <4>1, RemovedBehind, Zenon
      <4>3. Removed \in DOMAIN cgroupQueues /\ cgroupQueues[Removed] = << >>
        BY <1>1, <3>1, <4>1 DEF CleanerInv, WholeInv
      <4> QED  BY <2>2, <4>1, <4>2, <4>3, Zenon
    <3> QED  BY <1>1, <1>2, <1>4, <2>2, <3>1, WholeKept, Zenon
  <2> QED  BY <2>2, <2>3, <2>4, <2>5, <2>6, <2>7, EnrichPartsNext, Zenon
<1>5. CASE /\ writer' = "take" /\ handle' = "nil" /\ orphan' = << >>
           /\ passed' = Append(passed, Sent(received, "direct")) /\ cgroupQueues' = cgroupQueues
  <2>1. received \in Ids /\ inputs[received].type = "queued" /\ received \in 1 .. received
    BY <1>1, <1>3 DEF WriterInv, Ids
  <2>2. received \notin PassedIds
    BY <1>1, <1>3, Zenon DEF DataInv, PlaceInv
  <2>3. \A c : ~Waits(received, c)
    BY <1>3, Zenon DEF Waits
  <2>4. ~WaitsRmdir(received)
    BY <2>1 DEF WaitsRmdir
  <2>5. received \notin Elems(queueClean) /\ (Cleaning => rmdir # received)
    BY <1>1, <2>4, Zenon DEF DataInv, PlaceInv
  <2>6. /\ DOMAIN cgroupQueues' \subseteq DOMAIN cgroupQueues
        /\ cgroupQueues' \in [DOMAIN cgroupQueues' -> Seq(Ids)]
        /\ \A d \in DOMAIN cgroupQueues' :
              cgroupQueues'[d] = cgroupQueues[d] /\ received \notin Elems(cgroupQueues[d])
    BY <1>1, <1>5, <2>3, Zenon DEF DataInv, DataOK, PlaceInv
  <2>7. orphan' \in Seq(Ids) /\ \A i \in Elems(orphan') : Waits(i, Current) /\ i # received
    <3>1. << >> \in Seq(Ids)
      OBVIOUS
    <3> QED  BY <1>5, <3>1, ElemsEmpty
  <2>8. ~InHand' /\ "direct" \in {"direct", "queue", "cleaner"}
    BY <1>5 DEF InHand
  <2>9. DataInv' /\ PassedIds' = PassedIds \cup {received}
    BY <1>1, <1>2, <1>3, <1>5, <2>1, <2>2, <2>5, <2>6, <2>7, <2>8, SendData, Zenon
  <2>10. RmdirLast'
    <3>1. Sent(received, "direct") \in Passes /\ Sent(received, "direct").way # "cleaner"
      BY <2>1, SentType
    <3>2. passed \in Seq(Passes)
      BY <1>1, Zenon DEF DataInv, DataOK
    <3> QED  BY <1>1, <1>2, <1>5, <3>1, <3>2, LastAppend, Zenon
  <2>11. \A i : Kept(i) => Kept(i)'
    <3>1. \A i : i \in PassedIds \/ i = received => i \in PassedIds'
      BY <2>9
    <3> QED  BY <1>2, <1>3, <1>5, <3>1, Zenon DEF Kept
  <2>12. WholeInv'
    <3>1. InOrder /\ cleaner' = "close" => cgroupQueues'[Removed'] = << >>
      BY <1>1, <1>2, <1>5 DEF WholeInv, Removed
    <3> QED  BY <1>1, <1>2, <1>5, <2>11, <3>1, WholeKept
  <2>13. ControlOK'
    BY <1>1, <1>2, <1>5 DEF ControlOK
  <2>14. WriterInv'
    BY <1>5 DEF WriterInv, Busy
  <2>15. ReaderInv'
    BY <1>1, <1>2, <1>5 DEF ReaderInv
  <2>16. CleanerInv'
    BY <1>1, <1>2, <1>5 DEF CleanerInv, Removed
  <2> QED  BY <2>9, <2>10, <2>12, <2>13, <2>14, <2>15, <2>16, EnrichPartsNext, Zenon
<1> QED  BY <1>4, <1>5 DEF WriterSend, WriterNextEvent

LEMMA CleanerSelectStep == EnrichInv /\ CleanerSelect => EnrichInv'
<1> SUFFICES ASSUME EnrichInv, CleanerSelect PROVE EnrichInv'
  OBVIOUS
<1>1. DataInv /\ ControlOK /\ WriterInv /\ ReaderInv /\ CleanerInv /\ WholeInv /\ RmdirLast
  BY EnrichParts, Zenon
<1>2. /\ cleaner = "select" /\ queueClean # << >> /\ rmdir' = Head(queueClean)
      /\ queueClean' = Tail(queueClean) /\ cleaner' = "clean" /\ inputs' = inputs
      /\ bLock' = bLock /\ cgroupQueues' = cgroupQueues /\ enriching' = enriching
      /\ enrichDone' = enrichDone /\ queueReady' = queueReady /\ received' = received
      /\ writer' = writer /\ handle' = handle /\ orphan' = orphan /\ reader' = reader
      /\ ready' = ready /\ canReschedule' = canReschedule /\ passed' = passed
  BY DEF CleanerSelect, CleanerOnly, readerVars
<1>3. ~Cleaning /\ Cleaning' /\ (InHand' <=> InHand)
  BY <1>2 DEF Cleaning, InHand
<1>4. DataInv' /\ RmdirLast' /\ \A i : Kept(i) => Kept(i)'
  BY <1>1, <1>2, <1>3, SelectData, Zenon
<1>5. ControlOK'
  BY <1>1, <1>2 DEF ControlOK
<1>6. WriterInv'
  BY <1>1, <1>2 DEF WriterInv, Busy, Current, Ids
<1>7. ReaderInv'
  BY <1>1, <1>2 DEF ReaderInv
<1>8. CleanerInv'
  BY <1>1, <1>2 DEF CleanerInv
<1>9. WholeInv'
  <2>1. cleaner' # "close"
    BY <1>2
  <2> QED  BY <1>1, <1>2, <1>4, <2>1, WholeKept, Zenon
<1> QED  BY <1>4, <1>5, <1>6, <1>7, <1>8, <1>9, EnrichPartsNext, Zenon

LEMMA CleanerPassStep == EnrichInv /\ CleanerPass => EnrichInv'
<1> SUFFICES ASSUME EnrichInv, CleanerPass PROVE EnrichInv'
  OBVIOUS
<1>1. DataInv /\ ControlOK /\ WriterInv /\ ReaderInv /\ CleanerInv /\ WholeInv /\ RmdirLast
  BY EnrichParts, Zenon
<1>2. /\ cleaner = "clean" /\ bLock = "free" /\ cleaner' = "select" /\ inputs' = inputs
      /\ bLock' = bLock /\ cgroupQueues' = cgroupQueues /\ enriching' = enriching
      /\ enrichDone' = enrichDone /\ queueReady' = queueReady /\ received' = received
      /\ writer' = writer /\ handle' = handle /\ orphan' = orphan /\ reader' = reader
      /\ ready' = ready /\ rmdir' = rmdir /\ canReschedule' = canReschedule
  BY DEF CleanerPass, CleanerOnly, readerVars
<1>3. Cleaning /\ ~Cleaning' /\ (InHand' <=> InHand)
  BY <1>2 DEF Cleaning, InHand
<1>4. ControlOK'
  BY <1>1, <1>2 DEF ControlOK
<1>5. WriterInv'
  BY <1>1, <1>2 DEF WriterInv, Busy, Current, Ids
<1>6. ReaderInv'
  BY <1>1, <1>2 DEF ReaderInv
<1>7. CleanerInv'
  BY <1>1, <1>2 DEF CleanerInv
<1>8. DataInv' /\ RmdirLast' /\ \A i : Kept(i) => Kept(i)'
  <2>1. CASE /\ Removed \notin DOMAIN cgroupQueues
             /\ passed' = Append(passed, Sent(rmdir, "cleaner")) /\ queueClean' = queueClean
    <3>1. /\ rmdir \in Ids /\ rmdir \in 1 .. received /\ rmdir \notin PassedIds
          /\ rmdir \notin Elems(queueClean)
          /\ \A d \in DOMAIN cgroupQueues : rmdir \notin Elems(cgroupQueues[d])
          /\ rmdir \notin Elems(orphan)
          /\ Busy => received # rmdir
      BY <1>1, <1>3, RmdirApart, Zenon
    <3>2. InHand' => InHand /\ received # rmdir
      BY <1>3, <3>1, Zenon DEF InHand, Busy
    <3>3. /\ DOMAIN cgroupQueues' \subseteq DOMAIN cgroupQueues
          /\ cgroupQueues' \in [DOMAIN cgroupQueues' -> Seq(Ids)]
          /\ \A d \in DOMAIN cgroupQueues' :
                cgroupQueues'[d] = cgroupQueues[d] /\ rmdir \notin Elems(cgroupQueues[d])
      BY <1>1, <1>2, <3>1, Zenon DEF DataInv, DataOK
    <3>4. orphan' \in Seq(Ids) /\ \A i \in Elems(orphan') : Waits(i, Current) /\ i # rmdir
      BY <1>1, <1>2, <3>1, Zenon DEF DataInv, DataOK, PlaceInv
    <3>5. "cleaner" \in {"direct", "queue", "cleaner"}
      OBVIOUS
    <3>6. DataInv' /\ PassedIds' = PassedIds \cup {rmdir}
      BY <1>1, <1>2, <1>3, <2>1, <3>1, <3>2, <3>3, <3>4, <3>5, SendData, Zenon
    <3>7. RmdirLast'
      <4>1. Sent(rmdir, "cleaner") \in Passes /\ Sent(rmdir, "cleaner").id = rmdir
        BY <3>1, SentType
      <4>2. passed \in Seq(Passes)
        BY <1>1, Zenon DEF DataInv, DataOK
      <4>3. InOrder => \A i \in 1 .. rmdir :
               inputs[i].cgroup = Removed /\ inputs[i].type = "queued" => i \in PassedIds
        BY <1>1, <1>3, <2>1, RemovedPassed, Zenon
      <4> QED  BY <1>1, <1>2, <2>1, <4>1, <4>2, <4>3, LastAppend, Zenon DEF Removed
    <3>8. \A i : Kept(i) => Kept(i)'
      <4>1. \A i : i \in PassedIds \/ i = rmdir => i \in PassedIds'
        BY <3>6
      <4> QED  BY <1>2, <1>3, <2>1, <4>1, Zenon DEF Kept
    <3> QED  BY <3>6, <3>7, <3>8
  <2>2. CASE /\ Len(queueClean) < CleanSize
             /\ queueClean' = Append(queueClean, rmdir) /\ passed' = passed
    BY <1>1, <1>2, <1>3, <2>2, PutBackData, Zenon
  <2> QED  BY <2>1, <2>2 DEF CleanerPass
<1>9. WholeInv'
  <2>1. cleaner' # "close"
    BY <1>2
  <2> QED  BY <1>1, <1>2, <1>8, <2>1, WholeKept, Zenon
<1> QED  BY <1>4, <1>5, <1>6, <1>7, <1>8, <1>9, EnrichPartsNext, Zenon

LEMMA CleanerCloseStep == EnrichInv /\ CleanerClose => EnrichInv'
<1> SUFFICES ASSUME EnrichInv, CleanerClose PROVE EnrichInv'
  OBVIOUS
<1>1. DataInv /\ ControlOK /\ WriterInv /\ ReaderInv /\ CleanerInv /\ WholeInv /\ RmdirLast
  BY EnrichParts, Zenon
<1>2. /\ cleaner = "close" /\ cleaner' = "select" /\ bLock' = "free"
      /\ cgroupQueues' = [c \in DOMAIN cgroupQueues \ {Removed} |-> cgroupQueues[c]]
      /\ enrichDone' = enrichDone \ {Removed}
      /\ passed' = Append(passed, Sent(rmdir, "cleaner")) /\ inputs' = inputs
      /\ enriching' = enriching /\ queueReady' = queueReady /\ queueClean' = queueClean
      /\ received' = received /\ writer' = writer /\ reader' = reader /\ ready' = ready
      /\ rmdir' = rmdir /\ canReschedule' = canReschedule
  BY DEF CleanerClose, CleanerOnly, readerVars
<1>3. \/ /\ handle = "open" /\ Current = Removed
         /\ handle' = "closed" /\ orphan' = cgroupQueues[Removed]
      \/ ~(handle = "open" /\ Current = Removed) /\ handle' = handle /\ orphan' = orphan
  BY DEF CleanerClose
<1>4. Cleaning /\ ~Cleaning' /\ (InHand' <=> InHand)
  BY <1>2 DEF Cleaning, InHand
<1>5. bLock = "cleaner" /\ Removed \in DOMAIN cgroupQueues
  BY <1>1, <1>2 DEF CleanerInv
<1>6. /\ DOMAIN cgroupQueues' = DOMAIN cgroupQueues \ {Removed}
      /\ \A d \in DOMAIN cgroupQueues' : cgroupQueues'[d] = cgroupQueues[d]
  BY <1>2
<1>7. /\ rmdir \in Ids /\ rmdir \in 1 .. received /\ rmdir \notin PassedIds
      /\ rmdir \notin Elems(queueClean)
      /\ \A d \in DOMAIN cgroupQueues : rmdir \notin Elems(cgroupQueues[d])
      /\ rmdir \notin Elems(orphan)
      /\ Busy => received # rmdir
  BY <1>1, <1>4, RmdirApart, Zenon
<1>8. DataInv' /\ PassedIds' = PassedIds \cup {rmdir}
  <2>1. InHand' => InHand /\ received # rmdir
    BY <1>4, <1>7, Zenon DEF InHand, Busy
  <2>2. cgroupQueues \in [DOMAIN cgroupQueues -> Seq(Ids)] /\ orphan \in Seq(Ids)
    BY <1>1, Zenon DEF DataInv, DataOK
  <2>3. /\ DOMAIN cgroupQueues' \subseteq DOMAIN cgroupQueues
        /\ cgroupQueues' \in [DOMAIN cgroupQueues' -> Seq(Ids)]
    BY <1>2, <2>2
  <2>4. \A d \in DOMAIN cgroupQueues' :
           cgroupQueues'[d] = cgroupQueues[d] /\ rmdir \notin Elems(cgroupQueues[d])
    BY <1>6, <1>7, <2>3, Zenon
  <2>5. orphan' \in Seq(Ids) /\ \A i \in Elems(orphan') : Waits(i, Current) /\ i # rmdir
    <3>1. CASE orphan' = orphan
      BY <1>1, <1>7, <2>2, <3>1, Zenon DEF DataInv, PlaceInv
    <3>2. CASE Current = Removed /\ orphan' = cgroupQueues[Removed]
      <4>1. cgroupQueues[Removed] \in Seq(Ids)
        BY <1>5, <2>2
      <4> QED  BY <1>1, <1>5, <1>7, <3>2, <4>1, Zenon DEF DataInv, PlaceInv
    <3> QED  BY <1>3, <3>1, <3>2, Zenon
  <2>6. "cleaner" \in {"direct", "queue", "cleaner"}
    OBVIOUS
  <2> QED  BY <1>1, <1>2, <1>4, <1>7, <2>1, <2>3, <2>4, <2>5, <2>6, SendData, Zenon
<1>9. InOrder => cgroupQueues[Removed] = << >>
  BY <1>1, <1>2, Zenon DEF WholeInv
<1>10. RmdirLast'
  <2>1. Sent(rmdir, "cleaner") \in Passes /\ Sent(rmdir, "cleaner").id = rmdir
    BY <1>7, SentType
  <2>2. passed \in Seq(Passes)
    BY <1>1, Zenon DEF DataInv, DataOK
  <2>3. InOrder => \A i \in 1 .. rmdir :
           inputs[i].cgroup = Removed /\ inputs[i].type = "queued" => i \in PassedIds
    BY <1>1, <1>4, <1>9, RemovedPassed, Zenon
  <2> QED  BY <1>1, <1>2, <2>1, <2>2, <2>3, LastAppend, Zenon DEF Removed
<1>11. WholeInv'
  <2> SUFFICES ASSUME InOrder PROVE /\ handle' # "closed" /\ cleaner' # "close"
                                    /\ \A i \in 1 .. received' : Kept(i)'
    <3>1. inputs' = inputs
      BY <1>2
    <3>2. InOrder' <=> InOrder
      BY <3>1 DEF InOrder, Ids
    <3> QED  BY <3>2, Zenon DEF WholeInv
  <2>1. handle' # "closed"
    <3>1. handle = "open" => Busy
      BY <1>1 DEF WriterInv, Busy, ControlOK
    <3>2. ~(handle = "open" /\ Current = Removed)
      BY <1>1, <1>4, <3>1, RemovedBehind, Zenon
    <3>3. handle # "closed"
      BY <1>1, Zenon DEF WholeInv
    <3> QED  BY <1>3, <3>2, <3>3, Zenon
  <2>2. ASSUME NEW i \in 1 .. received PROVE Kept(i)'
    <3>1. Kept(i)
      BY <1>1, Zenon DEF WholeInv
    <3>2. i \in PassedIds \/ i = rmdir => i \in PassedIds'
      BY <1>8
    <3>3. \A c \in DOMAIN cgroupQueues : i \in Elems(cgroupQueues[c]) =>
             c \in DOMAIN cgroupQueues' /\ cgroupQueues'[c] = cgroupQueues[c]
      <4>1. \A c \in DOMAIN cgroupQueues : c = Removed \/ c \in DOMAIN cgroupQueues'
        BY <1>6
      <4> QED  BY <1>6, <1>9, <4>1, ElemsEmpty
    <3> QED  BY <1>2, <1>4, <3>1, <3>2, <3>3, Zenon DEF Kept
  <2> QED  BY <1>2, <2>1, <2>2
<1>12. ControlOK'
  <2>1. enrichDone' \subseteq Cgroups
    BY <1>1, <1>2 DEF ControlOK
  <2> QED  BY <1>1, <1>2, <1>3, <2>1 DEF ControlOK
<1>13. WriterInv'
  <2>1. /\ Current' = Current /\ (Busy' <=> Busy) /\ Ids' = Ids
        /\ DOMAIN cgroupQueues' = DOMAIN cgroupQueues \ {Removed}
    BY <1>2, <1>6 DEF Current, Busy, Ids
  <2> QED  BY <1>1, <1>2, <1>3, <2>1 DEF WriterInv, Busy
<1>14. ReaderInv'
  BY <1>1, <1>2, <1>5, <1>6 DEF ReaderInv
<1>15. CleanerInv'
  BY <1>1, <1>2 DEF CleanerInv
<1> QED  BY <1>8, <1>10, <1>11, <1>12, <1>13, <1>14, <1>15, EnrichPartsNext, Zenon

-----------------------------------------------------------------------------
LEMMA InitEnrich == EnrichInit => EnrichInv
<1> SUFFICES ASSUME EnrichInit PROVE EnrichInv
  OBVIOUS
<1>1. /\ inputs \in EnrichInputs /\ bLock = "free" /\ cgroupQueues = [c \in {} |-> << >>]
      /\ enriching = [c \in Cgroups |-> 0] /\ enrichDone = {}
      /\ queueReady = << >> /\ queueClean = << >> /\ received = 0 /\ writer = "take"
      /\ handle = "nil" /\ orphan = << >> /\ reader = "select" /\ cleaner = "select"
      /\ canReschedule = TRUE /\ passed = << >>
  BY DEF EnrichInit
<1>2. DOMAIN cgroupQueues = {} /\ cgroupQueues \in [DOMAIN cgroupQueues -> Seq(Ids)]
  BY <1>1
<1>3. ~InHand /\ ~Busy /\ ~Cleaning
  BY <1>1 DEF InHand, Busy, Cleaning
<1>4. Len(passed) = 0 /\ PassedIds = {} /\ 1 .. received = {}
  BY <1>1 DEF PassedIds
<1>5. DataOK
  <2>1. Len(inputs) \in Nat
    BY <1>1, InputType, Zenon
  <2>2. received \in 0 .. Len(inputs)
    BY <1>1, <2>1
  <2>3. /\ queueClean \in Seq(Ids) /\ Len(queueClean) <= CleanSize /\ orphan \in Seq(Ids)
        /\ passed \in Seq(Passes)
    BY <1>1, ContainerEnrichAssumption
  <2> QED  BY <1>1, <1>2, <1>3, <2>2, <2>3 DEF DataOK
<1>6. PlaceInv
  <2>1. AtMostOnce
    BY <1>4 DEF AtMostOnce
  <2> QED  BY <1>1, <1>2, <1>3, <1>4, <2>1, ElemsEmpty DEF PlaceInv
<1>7. ControlOK
  <2>1. queueReady \in Seq(Cgroups) /\ Len(queueReady) <= ReadySize
    BY <1>1, ContainerEnrichAssumption
  <2>2. enriching \in [Cgroups -> Nat] /\ enrichDone \subseteq Cgroups /\ canReschedule \in BOOLEAN
    BY <1>1
  <2> QED  BY <1>1, <2>1, <2>2 DEF ControlOK
<1>8. WriterInv /\ ReaderInv /\ CleanerInv
  BY <1>1, <1>3 DEF WriterInv, ReaderInv, CleanerInv
<1>9. WholeInv
  BY <1>1, <1>4 DEF WholeInv
<1>10. RmdirLast
  BY <1>4 DEF RmdirLast
<1> QED  BY <1>5, <1>6, <1>7, <1>8, <1>9, <1>10, EnrichParts, Zenon DEF DataInv

LEMMA NextEnrich == EnrichInv /\ [EnrichNext]_enrichVars => EnrichInv'
<1> SUFFICES ASSUME EnrichInv, [EnrichNext]_enrichVars PROVE EnrichInv'
  OBVIOUS
<1>1. CASE WriterNext
  BY <1>1, PassStep, EnsureStep, LookupStep, WriterSendStep, ScheduleStep, FallbackStep,
     EndStep, Zenon DEF WriterNext
<1>2. CASE ReaderNext
  BY <1>2, ReaderSelectStep, DequeueStep, RescheduleStep, ReaderLenStep, ReaderReceiveStep,
     ReaderDrainStep, DrainAllStep, ReaderEndStep, DrainQueueStep, Zenon DEF ReaderNext
<1>3. CASE CleanerNext
  BY <1>3, CleanerSelectStep, CleanerPassStep, CleanerDrainStep, CleanerLenStep,
     CleanerReceiveStep, CleanerCloseStep, CleanerEndStep, Zenon DEF CleanerNext
<1>4. CASE ReaderWriterDone \/ CleanerWriterDone
  BY <1>4, ReaderDoneStep, CleanerDoneStep, Zenon
<1>5. CASE \E c \in Cgroups : EnrichResult(c)
  BY <1>5, ResultStep, Zenon
<1>6. CASE UNCHANGED enrichVars
  <2>1. /\ inputs' = inputs /\ bLock' = bLock /\ cgroupQueues' = cgroupQueues
        /\ enriching' = enriching /\ enrichDone' = enrichDone /\ queueReady' = queueReady
        /\ queueClean' = queueClean /\ received' = received /\ writer' = writer
        /\ handle' = handle /\ orphan' = orphan /\ reader' = reader /\ ready' = ready
        /\ cleaner' = cleaner /\ rmdir' = rmdir /\ canReschedule' = canReschedule
        /\ passed' = passed
    BY <1>6 DEF enrichVars, mapVars, writerVars, readerVars, cleanerVars
  <2>2. ControlOK /\ WriterInv /\ ReaderInv /\ CleanerInv
    BY EnrichParts, Zenon
  <2>3. ControlOK'
    BY <2>1, <2>2 DEF ControlOK
  <2>4. WriterInv'
    BY <2>1, <2>2 DEF WriterInv, Busy, Current, Ids
  <2>5. ReaderInv'
    BY <2>1, <2>2 DEF ReaderInv
  <2>6. CleanerInv'
    BY <2>1, <2>2, Zenon DEF CleanerInv, Removed
  <2>7. (InHand' <=> InHand) /\ (Cleaning' <=> Cleaning)
    BY <2>1 DEF InHand, Cleaning
  <2> QED  BY <2>1, <2>3, <2>4, <2>5, <2>6, <2>7, QuietStep, Zenon
<1> QED  BY <1>1, <1>2, <1>3, <1>4, <1>5, <1>6, Zenon DEF EnrichNext

(* The writer has no event, the queues are empty: everything was sent on.  *)
LEMMA EndedWhole == EnrichInv => EachOnce
<1> SUFFICES ASSUME EnrichInv PROVE EachOnce
  OBVIOUS
<1>1. DataInv /\ WriterInv /\ ReaderInv /\ CleanerInv /\ WholeInv
  BY EnrichParts, Zenon
<1>2. AtMostOnce
  BY <1>1, Zenon DEF DataInv, PlaceInv
<1>3. ASSUME InOrder, Ended, NEW i \in Ids PROVE i \in PassedIds
  <2>1. writer = "done" /\ reader = "done" /\ cleaner = "done"
    BY <1>3, Zenon DEF Ended
  <2>2. i \in 1 .. received
    BY <1>1, <2>1 DEF WriterInv, Ids
  <2>3. Kept(i)
    BY <1>1, <1>3, <2>2, Zenon DEF WholeInv
  <2>4. ~InHand /\ ~Cleaning
    BY <2>1 DEF InHand, Cleaning
  <2>5. queueClean = << >> /\ \A c \in DOMAIN cgroupQueues : cgroupQueues[c] = << >>
    BY <1>1, <2>1, Zenon DEF ReaderInv, CleanerInv
  <2> QED  BY <2>3, <2>4, <2>5, ElemsEmpty DEF Kept
<1>4. AllEnriched
  BY <1>3 DEF AllEnriched, PassedIds
<1> QED  BY <1>2, <1>4 DEF EachOnce

LEMMA AlwaysEnrich == EnrichSpec => []EnrichInv
BY InitEnrich, NextEnrich, PTL DEF EnrichSpec

(* However the writer, the reader, the cleaner and the queries interleave, *)
(* no event leaves the enrichment stage twice, and when its goroutines are *)
(* done every event has left, if the events of a cgroup came before its    *)
(* removal.                                                                *)
THEOREM SentOnce == EnrichSpec => []EachOnce
BY AlwaysEnrich, EndedWhole, PTL

(* A cgroup_rmdir that the cleaner let go leaves after all the earlier     *)
(* events of its cgroup that had to wait in a queue.                       *)
THEOREM RemovalLast == EnrichSpec => []RmdirLast
<1>1. EnrichInv => RmdirLast
  BY Zenon DEF EnrichInv
<1> QED  BY <1>1, AlwaysEnrich, PTL

(* The writer sends to a queue that the cleaner has closed only if an      *)
(* event of a cgroup came after the removal of the cgroup.                 *)
THEOREM ClosedOutOfOrder == EnrichSpec => [](InOrder => NoSendOnClosed)
<1>1. EnrichInv => (InOrder => NoSendOnClosed)
  BY Zenon DEF EnrichInv, WholeInv, NoSendOnClosed
<1> QED  BY <1>1, AlwaysEnrich, PTL
=============================================================================
