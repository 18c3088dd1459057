------------------------------ MODULE AvatarProofs ------------------------------
(* Proofs about Avatar, for every set of owners, keys and files, and any number *)
(* of requests.                                                                *)
EXTENDS Avatar, TLAPS

-----------------------------------------------------------------------------
(* Objects and the states of a handler *)

LEMMA ObjectsApart ==
  /\ \A k \in Keys : Pending(k) \in Objects /\ Promoted(k) \in Objects
  /\ \A k, l \in Keys : Promoted(k) = Promoted(l) => k = l
  /\ \A k, l \in Keys : Pending(k) = Pending(l) => k = l
  /\ \A k, l \in Keys : Pending(k) # Promoted(l)
BY DEF Pending, Promoted, Objects

Keyed == Keys \union {NoKey}
Busy == {"head", "copy", "write"}
Trash == {trash \in Seq(Objects) : Len(trash) \in 1..2}

LEMMA StateShape ==
  ASSUME NEW s \in HandlerStates
  PROVE  \/ s = Idle /\ s.pc = "idle"
         \/ s.pc \in Busy /\ s.owner \in Owners /\ s.old \in Keyed /\ s.key \in Keyed
         \/ s.pc = "discard" /\ s.trash \in Trash
BY DEF HandlerStates, Idle, Busy, Keyed, Trash

LEMMA BusyState ==
  ASSUME NEW o \in Owners, NEW old \in Keyed, NEW key \in Keyed, NEW pc \in Busy
  PROVE  [pc |-> pc, owner |-> o, old |-> old, key |-> key] \in HandlerStates
BY DEF HandlerStates, Busy, Keyed

LEMMA NextState ==
  ASSUME NEW s \in HandlerStates, s.pc \in Busy, NEW p \in Busy
  PROVE  LET t == [s EXCEPT !.pc = p]
         IN  t \in HandlerStates /\ t.pc = p /\ t.owner = s.owner /\ t.old = s.old /\ t.key = s.key
BY DEF HandlerStates, Idle, Busy, Keyed

LEMMA DiscardState ==
  ASSUME NEW trash \in Trash
  PROVE  [pc |-> "discard", trash |-> trash] \in HandlerStates
BY DEF HandlerStates, Trash

LEMMA IdleState == Idle \in HandlerStates /\ Idle.pc = "idle"
BY DEF HandlerStates, Idle

LEMMA OneMoves ==
  ASSUME handlers \in [Handlers -> HandlerStates], NEW h \in Handlers, NEW s \in HandlerStates,
         Goes(h, s)
  PROVE  /\ handlers' \in [Handlers -> HandlerStates] /\ handlers'[h] = s
         /\ \A g \in Handlers : g # h => handlers'[g] = handlers[g]
BY DEF Goes

\* What a handler is about to delete.
Deletes(s, k) == s.pc = "discard" /\ \E i \in 1..Len(s.trash) : s.trash[i] = Promoted(k)

\* The handler has only its trash left, and of the promoted objects just the keys of S in it.
Empties(h, S) ==
  /\ handlers' \in [Handlers -> HandlerStates]
  /\ \A g \in Handlers : g # h => handlers'[g] = handlers[g]
  /\ handlers'[h].pc \in {"idle", "discard"}
  /\ \A k \in Keys : Deletes(handlers'[h], k) <=> k \in S

LEMMA DiscardingEmpties ==
  ASSUME handlers \in [Handlers -> HandlerStates], NEW h \in Handlers, NEW S,
         NEW trash \in Seq(Objects), Len(trash) \in 0..2, Discarding(h, trash),
         \A k \in Keys : (\E i \in 1..Len(trash) : trash[i] = Promoted(k)) <=> k \in S
  PROVE  Empties(h, S)
<1>1. CASE trash = << >>
  <2>1. Goes(h, Idle) /\ Len(trash) = 0
    BY <1>1 DEF Discarding
  <2>2. \A k \in Keys : k \notin S
    BY <2>1
  <2> QED
    BY <2>1, <2>2, OneMoves, IdleState DEF Empties, Deletes
<1>2. CASE trash # << >>
  <2> DEFINE s == [pc |-> "discard", trash |-> trash]
  <2>1. Goes(h, s) /\ trash \in Trash
    BY <1>2 DEF Discarding, Trash
  <2>2. s \in HandlerStates
    BY <2>1, DiscardState
  <2>3. handlers' \in [Handlers -> HandlerStates] /\ handlers'[h] = s
        /\ \A g \in Handlers : g # h => handlers'[g] = handlers[g]
    BY <2>1, <2>2, OneMoves
  <2> QED
    BY <2>3 DEF Empties, Deletes
<1> QED
  BY <1>1, <1>2

\* The trash of a write that succeeds: the old object, unless it is the one just named.
LEMMA SupersededHolds ==
  ASSUME NEW h \in Handlers, handlers[h].old \in Keyed, handlers[h].key \in Keyed
  PROVE  /\ Superseded(h) \in Seq(Objects) /\ Len(Superseded(h)) \in 0..2
         /\ \A k \in Keys : (\E i \in 1..Len(Superseded(h)) : Superseded(h)[i] = Promoted(k))
                              <=> k \in {handlers[h].old} \ {handlers[h].key}
<1> DEFINE old == handlers[h].old
           key == handlers[h].key
           first == IF key = NoKey THEN << >> ELSE <<Pending(key)>>
           second == IF old \in {NoKey, key} THEN << >> ELSE <<Promoted(old)>>
<1>1. Superseded(h) = first \o second
  BY DEF Superseded
<1>2. first \in Seq(Objects) /\ second \in Seq(Objects) /\ Len(first) \in 0..1 /\ Len(second) \in 0..1
  BY ObjectsApart DEF Keyed
<1>3. /\ first \o second \in Seq(Objects) /\ Len(first \o second) = Len(first) + Len(second)
      /\ \A i \in 1..Len(first) : (first \o second)[i] = first[i]
      /\ \A i \in 1..Len(second) : (first \o second)[Len(first) + i] = second[i]
  BY <1>2
<1>4. ASSUME NEW k \in Keys, NEW i \in 1..Len(first \o second), (first \o second)[i] = Promoted(k)
      PROVE  k = old /\ k # key
  <2>1. CASE i \in 1..Len(first)
    <3>1. key # NoKey /\ first[i] = Pending(key)
      BY <2>1
    <3> QED
      BY <2>1, <3>1, <1>3, <1>4, ObjectsApart DEF Keyed
  <2>2. CASE i \notin 1..Len(first)
    <3>1. PICK j \in 1..Len(second) : i = Len(first) + j
      <4>1. i - Len(first) \in 1..Len(second)
        BY <2>2, <1>2, <1>3
      <4> QED
        BY <4>1, <1>2
    <3>2. old \notin {NoKey, key} /\ second[j] = Promoted(old)
      BY <3>1
    <3> QED
      BY <3>1, <3>2, <1>3, <1>4, ObjectsApart DEF Keyed
  <2> QED
    BY <2>1, <2>2
<1>5. ASSUME NEW k \in Keys, k = old, k # key
      PROVE  \E i \in 1..Len(first \o second) : (first \o second)[i] = Promoted(k)
  <2>1. Len(second) = 1 /\ second[1] = Promoted(k)
    BY <1>5, NothingAssumption
  <2> QED
    BY <2>1, <1>2, <1>3
<1> QED
  BY <1>1, <1>2, <1>3, <1>4, <1>5

\* The trash of a write that fails: what was promoted for it.
LEMMA PromotedAloneHolds ==
  ASSUME NEW h \in Handlers, handlers[h].key \in Keyed
  PROVE  /\ PromotedAlone(h) \in Seq(Objects) /\ Len(PromotedAlone(h)) \in 0..2
         /\ \A k \in Keys : (\E i \in 1..Len(PromotedAlone(h)) : PromotedAlone(h)[i] = Promoted(k))
                              <=> k = handlers[h].key
<1>1. CASE handlers[h].key = NoKey
  BY <1>1, NothingAssumption DEF PromotedAlone
<1>2. CASE handlers[h].key # NoKey
  <2>1. PromotedAlone(h) = <<Promoted(handlers[h].key)>> /\ handlers[h].key \in Keys
    BY <1>2 DEF PromotedAlone, Keyed
  <2> QED
    BY <2>1, ObjectsApart
<1> QED
  BY <1>1, <1>2

-----------------------------------------------------------------------------
(* What each step does to its handler *)

Others(h) == \A g \in Handlers : g # h => handlers'[g] = handlers[g]

LEMMA ConfirmEffect ==
  ASSUME TypeOK, NEW h \in Handlers, NEW o \in Owners, ConfirmCalled(h, o)
  PROVE  /\ handlers' \in [Handlers -> HandlerStates] /\ Others(h)
         /\ handlers'[h].pc = "head" /\ handlers'[h].owner = o /\ handlers'[h].old = rows[o]
         /\ handlers'[h].key \in Keys /\ OwnerOf[handlers'[h].key] = o
<1>1. PICK object \in Objects :
        /\ OwnsPendingKey(o, object)
        /\ Goes(h, [pc |-> "head", owner |-> o, old |-> rows[o], key |-> object[2]])
  BY DEF ConfirmCalled
<1> DEFINE s == [pc |-> "head", owner |-> o, old |-> rows[o], key |-> object[2]]
<1>2. object[2] \in Keys /\ OwnerOf[object[2]] = o
  BY <1>1 DEF OwnsPendingKey, Objects
<1>3. rows[o] \in Keyed /\ object[2] \in Keyed
  BY <1>2 DEF TypeOK, Keyed
<1>4. s \in HandlerStates
  BY <1>3, BusyState DEF Busy
<1>5. /\ handlers' \in [Handlers -> HandlerStates] /\ handlers'[h] = s
      /\ \A g \in Handlers : g # h => handlers'[g] = handlers[g]
  BY <1>1, <1>4, OneMoves DEF TypeOK
<1> QED
  BY <1>2, <1>5 DEF Others

LEMMA RemoveEffect ==
  ASSUME TypeOK, NEW h \in Handlers, NEW o \in Owners, RemoveCalled(h, o)
  PROVE  /\ handlers' \in [Handlers -> HandlerStates] /\ Others(h)
         /\ handlers'[h].pc = "write" /\ handlers'[h].owner = o /\ handlers'[h].old = rows[o]
         /\ handlers'[h].key = NoKey /\ rows[o] \in Keys
<1> DEFINE s == [pc |-> "write", owner |-> o, old |-> rows[o], key |-> NoKey]
<1>1. rows[o] \in Keyed /\ NoKey \in Keyed /\ rows[o] # NoKey
  BY DEF RemoveCalled, TypeOK, Keyed
<1>2. s \in HandlerStates
  BY <1>1, BusyState DEF Busy
<1>3. /\ handlers' \in [Handlers -> HandlerStates] /\ handlers'[h] = s
      /\ \A g \in Handlers : g # h => handlers'[g] = handlers[g]
  BY <1>2, OneMoves DEF TypeOK, RemoveCalled
<1> QED
  BY <1>1, <1>3 DEF Others, Keyed

\* The handler goes on to p with what it has.
GoesOn(h, p) ==
  /\ handlers'[h].pc = p
  /\ handlers'[h].owner = handlers[h].owner
  /\ handlers'[h].old = handlers[h].old
  /\ handlers'[h].key = handlers[h].key

LEMMA GoesOnEffect ==
  ASSUME TypeOK, NEW h \in Handlers, handlers[h].pc \in Busy, NEW p \in Busy,
         Goes(h, [handlers[h] EXCEPT !.pc = p])
  PROVE  handlers' \in [Handlers -> HandlerStates] /\ Others(h) /\ GoesOn(h, p)
<1> DEFINE s == handlers[h]
           t == [s EXCEPT !.pc = p]
<1>1. s \in HandlerStates
  BY DEF TypeOK
<1>2. t \in HandlerStates /\ t.pc = p /\ t.owner = s.owner /\ t.old = s.old /\ t.key = s.key
  BY <1>1, NextState
<1> HIDE DEF t
<1>3. Goes(h, t)
  BY DEF t
<1>4. /\ handlers' \in [Handlers -> HandlerStates] /\ handlers'[h] = t
      /\ \A g \in Handlers : g # h => handlers'[g] = handlers[g]
  BY <1>2, <1>3, OneMoves DEF TypeOK
<1> QED
  BY <1>2, <1>4 DEF Others, GoesOn

LEMMA EndsEffect ==
  ASSUME TypeOK, NEW h \in Handlers, Goes(h, Idle)
  PROVE  handlers' \in [Handlers -> HandlerStates] /\ Others(h) /\ handlers'[h].pc = "idle"
BY OneMoves, IdleState DEF TypeOK, Others

LEMMA InspectEffect ==
  ASSUME TypeOK, NEW h \in Handlers, Inspect(h)
  PROVE  /\ handlers' \in [Handlers -> HandlerStates] /\ Others(h)
         /\ handlers[h].pc = "head"
         /\ handlers'[h].pc = "idle" \/ GoesOn(h, "copy")
<1>1. CASE Goes(h, Idle)
  BY <1>1, EndsEffect DEF Inspect
<1>2. CASE Goes(h, [handlers[h] EXCEPT !.pc = "copy"])
  BY <1>2, GoesOnEffect DEF Inspect, Busy
<1> QED
  BY <1>1, <1>2 DEF Inspect

LEMMA CopyEffect ==
  ASSUME TypeOK, NEW h \in Handlers, Copy(h)
  PROVE  /\ handlers' \in [Handlers -> HandlerStates] /\ Others(h)
         /\ handlers[h].pc = "copy" /\ GoesOn(h, "write") /\ handlers[h].key \in Keys
<1>1. handlers[h].key \in Keys
  <2>1. handlers[h] \in HandlerStates /\ handlers[h].pc = "copy" /\ handlers[h].key # NoKey
    BY DEF TypeOK, Copy
  <2> QED
    BY <2>1, StateShape DEF Keyed
<1> QED
  BY <1>1, GoesOnEffect DEF Copy, Busy

LEMMA KeyOfCopy ==
  ASSUME TypeOK, NEW h \in Handlers, handlers[h].pc = "copy"
  PROVE  handlers[h].key \in Keys
<1>1. handlers[h] \in HandlerStates /\ handlers[h].key # NoKey
  BY DEF TypeOK
<1> QED
  BY <1>1, StateShape DEF Keyed

LEMMA WriteEffect ==
  ASSUME TypeOK, NEW h \in Handlers, handlers[h].pc = "write"
  PROVE  /\ handlers[h].owner \in Owners /\ handlers[h].old \in Keyed /\ handlers[h].key \in Keyed
         /\ Write(h) => Empties(h, {handlers[h].old} \ {handlers[h].key})
         /\ WriteFails(h) => Empties(h, {handlers[h].key})
<1>1. handlers[h].owner \in Owners /\ handlers[h].old \in Keyed /\ handlers[h].key \in Keyed
  <2>1. handlers[h] \in HandlerStates
    BY DEF TypeOK
  <2> QED
    BY <2>1, StateShape
<1>2. handlers \in [Handlers -> HandlerStates]
  BY DEF TypeOK
<1>3. ASSUME Write(h)
      PROVE  Empties(h, {handlers[h].old} \ {handlers[h].key})
  BY <1>1, <1>2, <1>3, SupersededHolds, DiscardingEmpties DEF Write
<1>4. ASSUME WriteFails(h)
      PROVE  Empties(h, {handlers[h].key})
  <2>1. \A k \in Keys : k = handlers[h].key <=> k \in {handlers[h].key}
    OBVIOUS
  <2> QED
    BY <1>1, <1>2, <1>4, <2>1, PromotedAloneHolds, DiscardingEmpties DEF WriteFails
<1> QED
  BY <1>1, <1>3, <1>4

\* Of the trash, all but its head is left.
LEMMA DiscardEffect ==
  ASSUME TypeOK, NEW h \in Handlers, Discard(h)
  PROVE  /\ handlers' \in [Handlers -> HandlerStates] /\ Others(h)
         /\ handlers'[h].pc \in {"idle", "discard"}
         /\ Head(handlers[h].trash) \in Objects
         /\ \A k \in Keys : Deletes(handlers'[h], k) => Deletes(handlers[h], k)
         /\ \A k \in Keys : Deletes(handlers[h], k) =>
              Deletes(handlers'[h], k) \/ Head(handlers[h].trash) = Promoted(k)
         /\ \A k \in Keys : Head(handlers[h].trash) = Promoted(k) => Deletes(handlers[h], k)
<1> DEFINE trash == handlers[h].trash
           S == {k \in Keys : \E i \in 1..Len(Tail(trash)) : Tail(trash)[i] = Promoted(k)}
<1>1. handlers[h].pc = "discard" /\ trash \in Seq(Objects) /\ Len(trash) \in 1..2
  <2>1. handlers[h] \in HandlerStates /\ handlers[h].pc = "discard"
    BY DEF TypeOK, Discard
  <2> QED
    BY <2>1, StateShape DEF Trash, Busy
<1>2. handlers \in [Handlers -> HandlerStates] /\ Discarding(h, Tail(trash))
  BY DEF TypeOK, Discard
<1> HIDE DEF trash
<1>3. /\ Tail(trash) \in Seq(Objects) /\ Len(Tail(trash)) = Len(trash) - 1
      /\ \A i \in 1..(Len(trash) - 1) : Tail(trash)[i] = trash[i + 1]
      /\ Head(trash) = trash[1] /\ Head(trash) \in Objects
  BY <1>1
<1>4. Empties(h, S)
  <2>1. Len(Tail(trash)) \in 0..2
    BY <1>1, <1>3
  <2> QED
    BY <1>2, <1>3, <2>1, DiscardingEmpties
<1>5. \A k \in Keys : Deletes(handlers[h], k) <=> \E i \in 1..Len(trash) : trash[i] = Promoted(k)
  BY <1>1 DEF Deletes, trash
<1>6. ASSUME NEW k \in Keys, k \in S
      PROVE  Deletes(handlers[h], k)
  <2>1. PICK i \in 1..Len(Tail(trash)) : Tail(trash)[i] = Promoted(k)
    BY <1>6
  <2>2. i \in 1..(Len(trash) - 1) /\ i + 1 \in 1..Len(trash)
    BY <2>1, <1>1, <1>3
  <2>3. trash[i + 1] = Promoted(k)
    BY <2>1, <2>2, <1>3
  <2> QED
    BY <1>5, <2>2, <2>3
<1>7. ASSUME NEW k \in Keys, Deletes(handlers[h], k), Head(trash) # Promoted(k)
      PROVE  k \in S
  <2>1. PICK i \in 1..Len(trash) : trash[i] = Promoted(k)
    BY <1>5, <1>7
  <2>2. i # 1
    BY <1>3, <1>7, <2>1
  <2>3. PICK j \in 1..(Len(trash) - 1) : i = j + 1
    <3>1. i - 1 \in 1..(Len(trash) - 1)
      BY <1>1, <2>1, <2>2
    <3> QED
      BY <3>1, <1>1
  <2>4. Tail(trash)[j] = Promoted(k)
    BY <2>1, <2>3, <1>3
  <2> QED
    BY <2>3, <2>4, <1>3
<1>8. ASSUME NEW k \in Keys, Head(trash) = Promoted(k)
      PROVE  Deletes(handlers[h], k)
  <2>1. 1 \in 1..Len(trash) /\ trash[1] = Promoted(k)
    BY <1>1, <1>3, <1>8
  <2> QED
    BY <2>1, <1>5
<1>9. Head(handlers[h].trash) = Head(trash)
  BY DEF trash
<1> HIDE DEF S
<1> QED
  BY <1>3, <1>4, <1>6, <1>7, <1>8, <1>9 DEF Empties, Others

-----------------------------------------------------------------------------
(* Types *)

\* One step per action: the others leave handlers, or the tables, alone.
LEMMA HandlersTyped ==
  ASSUME TypeOK, [Next]_vars
  PROVE  /\ handlers' \in [Handlers -> HandlerStates]
         /\ \A g \in Handlers :
              /\ (handlers'[g].pc \in {"head", "copy"}) => handlers'[g].key # NoKey
              /\ handlers'[g].pc = "write" /\ handlers'[g].key = NoKey => handlers'[g].old # NoKey
<1> DEFINE Sound(s) == /\ (s.pc \in {"head", "copy"}) => s.key # NoKey
                       /\ s.pc = "write" /\ s.key = NoKey => s.old # NoKey
           Typed == handlers' \in [Handlers -> HandlerStates] /\ \A g \in Handlers : Sound(handlers'[g])
<1>1. handlers \in [Handlers -> HandlerStates] /\ \A g \in Handlers : Sound(handlers[g])
  BY DEF TypeOK
<1>2. ASSUME handlers' = handlers
      PROVE  Typed
  BY <1>1, <1>2
<1>3. ASSUME NEW h \in Handlers, handlers' \in [Handlers -> HandlerStates], Others(h),
             Sound(handlers'[h])
      PROVE  Typed
  BY <1>1, <1>3 DEF Others
<1>4. ASSUME NEW h \in Handlers, NEW o \in Owners, ConfirmCalled(h, o)
      PROVE  Typed
  BY <1>3, <1>4, ConfirmEffect, NothingAssumption
<1>5. ASSUME NEW h \in Handlers, NEW o \in Owners, RemoveCalled(h, o)
      PROVE  Typed
  BY <1>3, <1>5, RemoveEffect, NothingAssumption
<1>6. ASSUME NEW h \in Handlers, Inspect(h)
      PROVE  Typed
  BY <1>1, <1>3, <1>6, InspectEffect DEF GoesOn
<1>7. ASSUME NEW h \in Handlers, Copy(h)
      PROVE  Typed
  BY <1>1, <1>3, <1>7, CopyEffect DEF GoesOn
<1>8. ASSUME NEW h \in Handlers, CopyFails(h)
      PROVE  Typed
  BY <1>3, <1>8, EndsEffect DEF CopyFails
<1>9. ASSUME NEW h \in Handlers, Write(h) \/ WriteFails(h)
      PROVE  Typed
  <2>1. handlers[h].pc = "write"
    BY <1>9 DEF Write, WriteFails
  <2>2. PICK S : Empties(h, S)
    BY <1>9, <2>1, WriteEffect
  <2> QED
    BY <1>3, <2>2 DEF Empties, Others
<1>10. ASSUME NEW h \in Handlers, Discard(h)
       PROVE  Typed
  BY <1>3, <1>10, DiscardEffect
<1>11. ASSUME Crash
       PROVE  Typed
  BY <1>11, IdleState DEF Crash
<1>12. ASSUME NEW o \in Owners, Grant(o)
       PROVE  Typed
  BY <1>2, <1>12 DEF Grant
<1>13. ASSUME NEW k \in Keys, Upload(k) \/ Expire(k) \/ Sweep(k)
       PROVE  Typed
  BY <1>2, <1>13 DEF Upload, Expire, Sweep
<1>14. ASSUME UNCHANGED vars
       PROVE  Typed
  BY <1>2, <1>14 DEF vars
<1> HIDE DEF Typed
<1>15. Typed
  BY <1>4, <1>5, <1>6, <1>7, <1>8, <1>9, <1>10, <1>11, <1>12, <1>13, <1>14 DEF Next, Routes
<1> QED
  BY <1>15 DEF Typed

LEMMA PromoteTypes ==
  ASSUME TypeOK, NEW k \in Keys, Promote(k)
  PROVE  bucket' \in [Objects -> Files \union {NoFile}] /\ copied' \in [Keys -> 0..2]
BY ObjectsApart DEF TypeOK, Promote

\* The tables, without the handlers.
Tables ==
  /\ rows \in [Owners -> Keys \union {NoKey}]
  /\ bucket \in [Objects -> Files \union {NoFile}]
  /\ grants \in [Keys -> {"unused", "signed", "expired"}]
  /\ copied \in [Keys -> 0..2]
  /\ unanswered \subseteq Keys /\ orphans \subseteq Keys

LEMMA TablesTyped ==
  ASSUME TypeOK, [Next]_vars
  PROVE  Tables'
<1>1. Tables
  BY DEF TypeOK, Tables
<1>2. ASSUME NEW o \in Owners, Grant(o)
      PROVE  Tables'
  BY <1>1, <1>2 DEF Tables, Grant, history
<1>3. ASSUME NEW k \in Keys, Upload(k)
      PROVE  Tables'
  BY <1>1, <1>3, ObjectsApart DEF Tables, Upload, history
<1>4. ASSUME NEW k \in Keys, Expire(k) \/ Sweep(k)
      PROVE  Tables'
  BY <1>1, <1>4, ObjectsApart DEF Tables, Expire, Sweep, history
<1>5. ASSUME NEW h \in Handlers, NEW o \in Owners, ConfirmCalled(h, o) \/ RemoveCalled(h, o)
      PROVE  Tables'
  BY <1>1, <1>5 DEF Tables, ConfirmCalled, RemoveCalled, history
<1>6. ASSUME NEW h \in Handlers, Inspect(h)
      PROVE  Tables'
  BY <1>1, <1>6 DEF Tables, Inspect, history
<1>7. ASSUME NEW h \in Handlers, Copy(h)
      PROVE  Tables'
  BY <1>1, <1>7, CopyEffect, PromoteTypes DEF Tables, Copy
<1>8. ASSUME NEW h \in Handlers, CopyFails(h)
      PROVE  Tables'
  <2>1. handlers[h].key \in Keys
    BY <1>8, KeyOfCopy DEF CopyFails
  <2> QED
    BY <1>1, <1>8, <2>1, PromoteTypes DEF Tables, CopyFails
<1>9. ASSUME NEW h \in Handlers, Write(h)
      PROVE  Tables'
  <2>1. handlers[h].owner \in Owners /\ handlers[h].key \in Keyed
    BY <1>9, WriteEffect DEF Write
  <2>2. rows[handlers[h].owner] \in Keyed
    BY <1>1, <2>1 DEF Tables, Keyed
  <2> QED
    BY <1>1, <1>9, <2>1, <2>2 DEF Tables, Write, Keyed
<1>10. ASSUME NEW h \in Handlers, WriteFails(h)
       PROVE  Tables'
  <2>1. handlers[h].owner \in Owners /\ handlers[h].key \in Keyed
    BY <1>10, WriteEffect DEF WriteFails
  <2>2. rows[handlers[h].owner] \in Keyed
    BY <1>1, <2>1 DEF Tables, Keyed
  <2> QED
    BY <1>1, <1>10, <2>1, <2>2 DEF Tables, WriteFails, Keyed
<1>11. ASSUME NEW h \in Handlers, Discard(h)
       PROVE  Tables'
  <2>1. Head(handlers[h].trash) \in Objects
    BY <1>11, DiscardEffect
  <2> QED
    BY <1>1, <1>11, <2>1 DEF Tables, Discard
<1>12. ASSUME Crash
       PROVE  Tables'
  BY <1>1, <1>12 DEF Tables, Crash, Holds
<1>13. ASSUME UNCHANGED vars
       PROVE  Tables'
  BY <1>1, <1>13 DEF Tables, vars
<1> QED
  BY <1>2, <1>3, <1>4, <1>5, <1>6, <1>7, <1>8, <1>9, <1>10, <1>11, <1>12, <1>13 DEF Next, Routes

LEMMA TypeStep ==
  ASSUME TypeOK, [Next]_vars
  PROVE  TypeOK'
BY HandlersTyped, TablesTyped DEF TypeOK, Tables

LEMMA TypeInit == Init => TypeOK
BY IdleState DEF Init, TypeOK, Idle

\* Every variable keeps its shape, and remove has an old key to read.
THEOREM TypeCorrect == Spec => []TypeOK
BY TypeInit, TypeStep, PTL DEF Spec

-----------------------------------------------------------------------------
(* Owners *)

\* RowsNameTheirOwn, and from the start of a request.
OwnHandler(s) ==
  s.pc \in Busy => \A k \in {s.old, s.key} \ {NoKey} : OwnerOf[k] = s.owner

Own ==
  /\ \A o \in Owners : rows[o] # NoKey => OwnerOf[rows[o]] = o
  /\ \A h \in Handlers : OwnHandler(handlers[h])

LEMMA OwnStep ==
  ASSUME TypeOK, Own, [Next]_vars
  PROVE  Own'
<1>1. ASSUME handlers' = handlers, rows' = rows
      PROVE  Own'
  BY <1>1 DEF Own, OwnHandler
<1>2. ASSUME NEW h \in Handlers, Others(h), OwnHandler(handlers'[h]), rows' = rows
      PROVE  Own'
  BY <1>2 DEF Own, OwnHandler, Others
<1>3. ASSUME NEW h \in Handlers, NEW o \in Owners, ConfirmCalled(h, o)
      PROVE  Own'
  <2>1. OwnHandler(handlers'[h])
    BY <1>3, ConfirmEffect DEF Own, OwnHandler
  <2> QED
    BY <1>2, <1>3, <2>1, ConfirmEffect DEF ConfirmCalled
<1>4. ASSUME NEW h \in Handlers, NEW o \in Owners, RemoveCalled(h, o)
      PROVE  Own'
  <2>1. OwnHandler(handlers'[h])
    BY <1>4, RemoveEffect DEF Own, OwnHandler
  <2> QED
    BY <1>2, <1>4, <2>1, RemoveEffect DEF RemoveCalled
<1>5. ASSUME NEW h \in Handlers, Inspect(h)
      PROVE  Own'
  <2>1. OwnHandler(handlers'[h])
    BY <1>5, InspectEffect DEF Own, OwnHandler, GoesOn, Busy
  <2> QED
    BY <1>2, <1>5, <2>1, InspectEffect DEF Inspect
<1>6. ASSUME NEW h \in Handlers, Copy(h)
      PROVE  Own'
  <2>1. OwnHandler(handlers'[h])
    BY <1>6, CopyEffect DEF Own, OwnHandler, GoesOn, Busy
  <2> QED
    BY <1>2, <1>6, <2>1, CopyEffect DEF Copy
<1>7. ASSUME NEW h \in Handlers, CopyFails(h)
      PROVE  Own'
  <2>1. OwnHandler(handlers'[h])
    BY <1>7, EndsEffect DEF CopyFails, OwnHandler, Busy
  <2> QED
    BY <1>2, <1>7, <2>1, EndsEffect DEF CopyFails
<1>8. ASSUME NEW h \in Handlers, Write(h) \/ WriteFails(h)
      PROVE  Own'
  <2>1. handlers[h].pc = "write"
    BY <1>8 DEF Write, WriteFails
  <2>2. PICK S : Empties(h, S)
    BY <1>8, <2>1, WriteEffect
  <2>3. \A g \in Handlers : OwnHandler(handlers'[g])
    BY <2>2 DEF Empties, Own, OwnHandler, Busy
  <2>4. \/ rows' = rows
        \/ rows' = [rows EXCEPT ![handlers[h].owner] = handlers[h].key]
    BY <1>8 DEF Write, WriteFails
  <2>5. handlers[h].key # NoKey => OwnerOf[handlers[h].key] = handlers[h].owner
    BY <2>1 DEF Own, OwnHandler, Busy
  <2>6. \A o \in Owners : rows'[o] # NoKey => OwnerOf[rows'[o]] = o
    BY <2>4, <2>5 DEF Own, TypeOK
  <2> QED
    BY <2>3, <2>6 DEF Own, OwnHandler
<1>9. ASSUME NEW h \in Handlers, Discard(h)
      PROVE  Own'
  <2>1. OwnHandler(handlers'[h])
    BY <1>9, DiscardEffect DEF OwnHandler, Busy
  <2> QED
    BY <1>2, <1>9, <2>1, DiscardEffect DEF Discard
<1>10. ASSUME Crash
       PROVE  Own'
  BY <1>10 DEF Crash, Own, OwnHandler, Idle, Busy
<1>11. ASSUME NEW o \in Owners, Grant(o)
       PROVE  Own'
  BY <1>1, <1>11 DEF Grant
<1>12. ASSUME NEW k \in Keys, Upload(k) \/ Expire(k) \/ Sweep(k)
       PROVE  Own'
  BY <1>1, <1>12 DEF Upload, Expire, Sweep
<1>13. ASSUME UNCHANGED vars
       PROVE  Own'
  BY <1>1, <1>13 DEF vars
<1> QED
  BY <1>3, <1>4, <1>5, <1>6, <1>7, <1>8, <1>9, <1>10, <1>11, <1>12, <1>13 DEF Next, Routes

LEMMA OwnInit == Init => Own
BY DEF Init, Own, OwnHandler, Idle, Busy

\* Whatever keys a client names, no request touches what another owner has.
THEOREM OwnersApart == Spec => []RowsNameTheirOwn
<1>1. Own => RowsNameTheirOwn
  BY DEF Own, OwnHandler, Busy, RowsNameTheirOwn
<1> QED
  BY <1>1, TypeInit, TypeStep, OwnInit, OwnStep, PTL DEF Spec

-----------------------------------------------------------------------------
(* What is public *)

\* What waits under pending/ fits as well.
EverythingFits ==
  /\ \A k \in Keys : bucket[Pending(k)] # NoFile => <<k, bucket[Pending(k)]>> \in Fits
  /\ \A k \in Keys : bucket[Promoted(k)] # NoFile => <<k, bucket[Promoted(k)]>> \in Fits

LEMMA PromoteFits ==
  ASSUME TypeOK, EverythingFits, NEW k \in Keys, Promote(k)
  PROVE  EverythingFits'
BY ObjectsApart DEF TypeOK, EverythingFits, Promote

LEMMA FitsStep ==
  ASSUME TypeOK, EverythingFits, [Next]_vars
  PROVE  EverythingFits'
<1>1. ASSUME bucket' = bucket
      PROVE  EverythingFits'
  BY <1>1 DEF EverythingFits
<1>2. ASSUME NEW k \in Keys, Upload(k)
      PROVE  EverythingFits'
  BY <1>2, ObjectsApart DEF TypeOK, EverythingFits, Upload, Signed
<1>3. ASSUME NEW object \in Objects, bucket' = [bucket EXCEPT ![object] = NoFile]
      PROVE  EverythingFits'
  BY <1>3 DEF TypeOK, EverythingFits
<1>4. ASSUME NEW k \in Keys, Sweep(k)
      PROVE  EverythingFits'
  BY <1>3, <1>4, ObjectsApart DEF Sweep
<1>5. ASSUME NEW h \in Handlers, Copy(h)
      PROVE  EverythingFits'
  BY <1>5, CopyEffect, PromoteFits DEF Copy
<1>6. ASSUME NEW h \in Handlers, CopyFails(h)
      PROVE  EverythingFits'
  <2>1. handlers[h].key \in Keys
    BY <1>6, KeyOfCopy DEF CopyFails
  <2> QED
    BY <1>1, <1>6, <2>1, PromoteFits DEF CopyFails
<1>7. ASSUME NEW h \in Handlers, Discard(h)
      PROVE  EverythingFits'
  BY <1>1, <1>3, <1>7, DiscardEffect DEF Discard
<1>8. ASSUME NEW o \in Owners, Routes(o)
      PROVE  EverythingFits'
  BY <1>1, <1>8 DEF Routes, Grant, ConfirmCalled, RemoveCalled
<1>9. ASSUME NEW k \in Keys, Expire(k)
      PROVE  EverythingFits'
  BY <1>1, <1>9 DEF Expire
<1>10. ASSUME NEW h \in Handlers, Inspect(h) \/ Write(h) \/ WriteFails(h)
       PROVE  EverythingFits'
  BY <1>1, <1>10 DEF Inspect, Write, WriteFails
<1>11. ASSUME Crash \/ UNCHANGED vars
       PROVE  EverythingFits'
  BY <1>1, <1>11 DEF Crash, vars
<1> QED
  BY <1>2, <1>4, <1>5, <1>6, <1>7, <1>8, <1>9, <1>10, <1>11 DEF Next

LEMMA FitsInit == Init => EverythingFits
BY ObjectsApart DEF Init, EverythingFits

\* Whatever takes the place of an upload between Head and Copy, the policy signed for it.
THEOREM OnlyWhatWasSignedFor == Spec => []NothingElseIsPublic
<1>1. EverythingFits => NothingElseIsPublic
  BY DEF EverythingFits, NothingElseIsPublic
<1> QED
  BY <1>1, TypeInit, TypeStep, FitsInit, FitsStep, PTL DEF Spec

-----------------------------------------------------------------------------
(* What is left behind *)

Holding(s, k) == (s.pc = "write" /\ s.key = k) \/ Deletes(s, k)

Kept(k) ==
  \/ bucket[Promoted(k)] = NoFile \/ k \in orphans
  \/ \E o \in Owners : rows[o] = k
  \/ \E h \in Handlers : Holding(handlers[h], k)

LEMMA HoldsIsHolding ==
  \A h \in Handlers : \A k \in Keys : k \in Holds(h) <=> Holding(handlers[h], k)
BY DEF Holds, Holding, Deletes

LEMMA KeptStep ==
  ASSUME TypeOK, NEW k \in Keys, Kept(k), [Next]_vars
  PROVE  Kept(k)'
<1>1. ASSUME bucket'[Promoted(k)] \in {bucket[Promoted(k)], NoFile}, rows' = rows, orphans \subseteq orphans',
             \A g \in Handlers : Holding(handlers[g], k) => Holding(handlers'[g], k)
      PROVE  Kept(k)'
  BY <1>1 DEF Kept
<1>2. ASSUME NEW h \in Handlers, Others(h), ~Holding(handlers[h], k) \/ Holding(handlers'[h], k)
      PROVE  \A g \in Handlers : Holding(handlers[g], k) => Holding(handlers'[g], k)
  BY <1>2 DEF Others
<1>3. ASSUME NEW h \in Handlers, NEW o \in Owners, ConfirmCalled(h, o) \/ RemoveCalled(h, o)
      PROVE  Kept(k)'
  <2>1. ~Holding(handlers[h], k)
    BY <1>3 DEF ConfirmCalled, RemoveCalled, Holding, Deletes, Idle
  <2> QED
    BY <1>1, <1>2, <1>3, <2>1, ConfirmEffect, RemoveEffect DEF ConfirmCalled, RemoveCalled, history
<1>4. ASSUME NEW h \in Handlers, Inspect(h)
      PROVE  Kept(k)'
  <2>1. ~Holding(handlers[h], k)
    BY <1>4, InspectEffect DEF Holding, Deletes
  <2> QED
    BY <1>1, <1>2, <1>4, <2>1, InspectEffect DEF Inspect, history
<1>5. ASSUME NEW h \in Handlers, Copy(h)
      PROVE  Kept(k)'
  <2>1. ~Holding(handlers[h], k)
    BY <1>5, CopyEffect DEF Holding, Deletes
  <2>2. CASE handlers[h].key = k
    <3>1. Holding(handlers'[h], k)
      BY <1>5, <2>2, CopyEffect DEF Holding, GoesOn
    <3> QED
      BY <3>1 DEF Kept
  <2>3. CASE handlers[h].key # k
    <3>1. bucket'[Promoted(k)] = bucket[Promoted(k)]
      BY <1>5, <2>3, CopyEffect, ObjectsApart DEF Copy, Promote, TypeOK
    <3> QED
      BY <1>1, <1>2, <1>5, <2>1, <3>1, CopyEffect DEF Copy
  <2> QED
    BY <2>2, <2>3
<1>6. ASSUME NEW h \in Handlers, CopyFails(h)
      PROVE  Kept(k)'
  <2>1. ~Holding(handlers[h], k) /\ handlers[h].key \in Keys /\ Others(h)
    BY <1>6, KeyOfCopy, EndsEffect DEF CopyFails, Holding, Deletes
  <2>2. CASE UNCHANGED <<bucket, copied, orphans>>
    BY <1>1, <1>2, <1>6, <2>1, <2>2 DEF CopyFails
  <2>3. CASE Promote(handlers[h].key) /\ orphans' = orphans \union {handlers[h].key}
    <3>1. CASE handlers[h].key = k
      BY <2>3, <3>1 DEF Kept
    <3>2. CASE handlers[h].key # k
      <4>1. bucket'[Promoted(k)] = bucket[Promoted(k)]
        BY <2>1, <2>3, <3>2, ObjectsApart DEF Promote, TypeOK
      <4> QED
        BY <1>1, <1>2, <1>6, <2>1, <2>3, <4>1 DEF CopyFails
    <3> QED
      BY <3>1, <3>2
  <2> QED
    BY <1>6, <2>2, <2>3 DEF CopyFails
<1>7. ASSUME NEW h \in Handlers, Write(h)
      PROVE  Kept(k)'
  <2> DEFINE o == handlers[h].owner  old == handlers[h].old  key == handlers[h].key
  <2>1. o \in Owners /\ Empties(h, {old} \ {key}) /\ handlers[h].pc = "write"
    BY <1>7, WriteEffect DEF Write
  <2>2. rows' = [rows EXCEPT ![o] = key] /\ bucket' = bucket
        /\ orphans' = orphans \union ({rows[o]} \ {NoKey, old, key})
    BY <1>7 DEF Write
  <2>3. CASE bucket[Promoted(k)] = NoFile \/ k \in orphans
    BY <2>2, <2>3 DEF Kept
  <2>4. CASE k = key
    <3>1. rows'[o] = k
      BY <2>1, <2>2, <2>4 DEF TypeOK
    <3> QED
      BY <2>1, <3>1 DEF Kept
  <2>5. CASE k # key /\ \E p \in Owners : rows[p] = k
    <3>1. PICK p \in Owners : rows[p] = k
      BY <2>5
    <3>2. CASE p # o
      <4>1. rows'[p] = k
        BY <2>1, <2>2, <3>1, <3>2 DEF TypeOK
      <4> QED
        BY <4>1 DEF Kept
    <3>3. CASE p = o /\ k # old
      <4>1. k \in orphans'
        BY <2>2, <2>5, <3>1, <3>3, NothingAssumption
      <4> QED
        BY <4>1 DEF Kept
    <3>4. CASE k = old
      <4>1. Holding(handlers'[h], k)
        BY <2>1, <2>5, <3>4 DEF Empties, Holding
      <4> QED
        BY <4>1 DEF Kept
    <3> QED
      BY <3>2, <3>3, <3>4
  <2>6. CASE k # key /\ \E g \in Handlers : Holding(handlers[g], k)
    <3>1. PICK g \in Handlers : Holding(handlers[g], k)
      BY <2>6
    <3>2. g # h
      BY <2>1, <2>6, <3>1 DEF Holding, Deletes
    <3>3. Holding(handlers'[g], k)
      BY <2>1, <3>1, <3>2 DEF Empties
    <3> QED
      BY <3>3 DEF Kept
  <2> QED
    BY <2>3, <2>4, <2>5, <2>6 DEF Kept
<1>8. ASSUME NEW h \in Handlers, WriteFails(h)
      PROVE  Kept(k)'
  <2> DEFINE o == handlers[h].owner  key == handlers[h].key
  <2>1. o \in Owners /\ Empties(h, {key}) /\ handlers[h].pc = "write"
    BY <1>8, WriteEffect DEF WriteFails
  <2>2. ASSUME NEW g \in Handlers, Holding(handlers[g], k)
        PROVE  Holding(handlers'[g], k)
    BY <2>1, <2>2 DEF Empties, Holding, Deletes
  <2>3. CASE UNCHANGED <<rows, unanswered, orphans>>
    BY <1>1, <1>8, <2>2, <2>3 DEF WriteFails
  <2>4. CASE rows' = [rows EXCEPT ![o] = key] /\ orphans' = orphans \union ({rows[o]} \ {NoKey})
    <3>1. ASSUME NEW p \in Owners, rows[p] = k
          PROVE  rows'[p] = k \/ k \in orphans'
      BY <2>1, <2>4, <3>1, NothingAssumption DEF TypeOK
    <3>2. bucket' = bucket /\ orphans \subseteq orphans'
      BY <1>8, <2>4 DEF WriteFails
    <3> QED
      BY <2>2, <3>1, <3>2 DEF Kept
  <2> QED
    BY <1>8, <2>3, <2>4 DEF WriteFails
<1>9. ASSUME NEW h \in Handlers, Discard(h)
      PROVE  Kept(k)'
  <2> DEFINE object == Head(handlers[h].trash)
  <2>1. /\ Others(h) /\ object \in Objects /\ rows' = rows
        /\ Deletes(handlers[h], k) => Deletes(handlers'[h], k) \/ object = Promoted(k)
    BY <1>9, DiscardEffect DEF Discard
  <2>2. handlers[h].pc = "discard"
    BY <1>9 DEF Discard
  <2>3. ASSUME object # Promoted(k), NEW g \in Handlers, Holding(handlers[g], k)
        PROVE  Holding(handlers'[g], k)
    BY <2>1, <2>2, <2>3 DEF Holding, Others
  <2>4. CASE bucket' = [bucket EXCEPT ![object] = NoFile] /\ UNCHANGED orphans
    <3>1. CASE object = Promoted(k)
      BY <2>1, <2>4, <3>1 DEF Kept, TypeOK
    <3>2. CASE object # Promoted(k)
      <4>1. bucket'[Promoted(k)] = bucket[Promoted(k)]
        BY <2>1, <2>4, <3>2, ObjectsApart DEF TypeOK
      <4> QED
        BY <1>1, <2>1, <2>3, <2>4, <3>2, <4>1
    <3> QED
      BY <3>1, <3>2
  <2>5. CASE UNCHANGED bucket /\ orphans' = orphans \union {l \in Keys : Promoted(l) = object}
    <3>1. CASE object = Promoted(k)
      BY <2>5, <3>1 DEF Kept
    <3>2. CASE object # Promoted(k)
      BY <1>1, <2>1, <2>3, <2>5, <3>2
    <3> QED
      BY <3>1, <3>2
  <2> QED
    BY <1>9, <2>4, <2>5 DEF Discard
<1>10. ASSUME Crash
       PROVE  Kept(k)'
  <2>1. /\ orphans' = orphans \union UNION {Holds(h) : h \in Handlers}
        /\ bucket' = bucket /\ rows' = rows
    BY <1>10 DEF Crash
  <2>2. ASSUME NEW g \in Handlers, Holding(handlers[g], k)
        PROVE  k \in orphans'
    BY <2>1, <2>2, HoldsIsHolding
  <2> QED
    BY <2>1, <2>2 DEF Kept
<1>11. ASSUME NEW o \in Owners, Grant(o)
       PROVE  Kept(k)'
  BY <1>1, <1>11 DEF Grant, history
<1>12. ASSUME NEW l \in Keys, Upload(l)
       PROVE  Kept(k)'
  <2>1. bucket'[Promoted(k)] = bucket[Promoted(k)]
    BY <1>12, ObjectsApart DEF Upload, TypeOK
  <2> QED
    BY <1>1, <1>12, <2>1 DEF Upload, history
<1>13. ASSUME NEW l \in Keys, Expire(l) \/ Sweep(l)
       PROVE  Kept(k)'
  <2>1. bucket'[Promoted(k)] = bucket[Promoted(k)]
    BY <1>13, ObjectsApart DEF Expire, Sweep, TypeOK
  <2> QED
    BY <1>1, <1>13, <2>1 DEF Expire, Sweep, history
<1>14. ASSUME UNCHANGED vars
       PROVE  Kept(k)'
  BY <1>1, <1>14 DEF vars
<1> QED
  BY <1>3, <1>4, <1>5, <1>6, <1>7, <1>8, <1>9, <1>10, <1>11, <1>12, <1>13, <1>14 DEF Next, Routes

AllKept == \A k \in Keys : Kept(k)

LEMMA AllKeptStep ==
  ASSUME TypeOK, AllKept, [Next]_vars
  PROVE  AllKept'
BY KeptStep DEF AllKept

LEMMA AllKeptInit == Init => AllKept
BY ObjectsApart DEF Init, AllKept, Kept

\* An object no row names is in the hands of a request, or a failure or a race left it.
THEOREM OnlyFailuresLeaveObjects == Spec => []NothingIsLeftBehind
<1>1. AllKept => NothingIsLeftBehind
  BY HoldsIsHolding DEF AllKept, Kept, NothingIsLeftBehind
<1> QED
  BY <1>1, TypeInit, TypeStep, AllKeptInit, AllKeptStep, PTL DEF Spec

-----------------------------------------------------------------------------
(* What a row names *)

Writing(s, k) == s.pc = "write" /\ s.key = k
Remembers(s, k) == s.pc \in Busy /\ s.old = k

\* No row, and no other request, knows the key.
Unheard(k) ==
  /\ \A o \in Owners : rows[o] # k
  /\ \A h \in Handlers : ~Remembers(handlers[h], k) /\ ~Deletes(handlers[h], k)

\* The object of a row that names it is there, and nobody deletes it.
Safe(k) ==
  /\ bucket[Promoted(k)] # NoFile
  /\ \A h \in Handlers : ~Deletes(handlers[h], k)

\* A key is heard of when it is promoted, first by the one request that promoted it, then
\* by the row: whoever reads it there deletes it after the row has changed.
Once(k) ==
  /\ copied[k] = 0 => Unheard(k) /\ \A h \in Handlers : ~Writing(handlers[h], k)
  /\ copied[k] = 1 =>
       /\ \A h \in Handlers : Writing(handlers[h], k) =>
            /\ Unheard(k) /\ Safe(k)
            /\ \A g \in Handlers : g # h => ~Writing(handlers[g], k)
       /\ k \notin unanswered => \A o \in Owners : rows[o] = k => Safe(k)

\* A step that promotes nothing and writes no row: at most, a request reads the row.
LEMMA QuietStep ==
  ASSUME TypeOK, NEW k \in Keys, Once(k), rows' = rows, copied' = copied, unanswered' = unanswered,
         bucket'[Promoted(k)] = bucket[Promoted(k)],
         \A g \in Handlers :
           /\ Writing(handlers'[g], k) => Writing(handlers[g], k)
           /\ Deletes(handlers'[g], k) => Deletes(handlers[g], k)
           /\ Remembers(handlers'[g], k) => Remembers(handlers[g], k) \/ \E o \in Owners : rows[o] = k
  PROVE  Once(k)'
BY DEF Once, Unheard, Safe

LEMMA QuietHandler ==
  ASSUME NEW k \in Keys, NEW h \in Handlers, Others(h),
         /\ ~Writing(handlers'[h], k) /\ ~Deletes(handlers'[h], k)
         /\ Remembers(handlers'[h], k) => Remembers(handlers[h], k) \/ \E o \in Owners : rows[o] = k
  PROVE  \A g \in Handlers :
           /\ Writing(handlers'[g], k) => Writing(handlers[g], k)
           /\ Deletes(handlers'[g], k) => Deletes(handlers[g], k)
           /\ Remembers(handlers'[g], k) => Remembers(handlers[g], k) \/ \E o \in Owners : rows[o] = k
BY DEF Others

LEMMA PromoteOther ==
  ASSUME TypeOK, NEW k \in Keys, NEW l \in Keys, l # k, Promote(l)
  PROVE  copied'[k] = copied[k] /\ bucket'[Promoted(k)] = bucket[Promoted(k)]
BY ObjectsApart DEF TypeOK, Promote

LEMMA PromoteSame ==
  ASSUME TypeOK, NEW k \in Keys, Promote(k)
  PROVE  /\ bucket'[Promoted(k)] # NoFile
         /\ copied'[k] \in {1, 2} /\ (copied'[k] = 1 => copied[k] = 0)
BY ObjectsApart DEF TypeOK, Promote

LEMMA OnceCopy ==
  ASSUME TypeOK, NEW k \in Keys, Once(k), NEW h \in Handlers, Copy(h)
  PROVE  Once(k)'
<1>1. /\ handlers[h].key \in Keys /\ Promote(handlers[h].key) /\ Others(h) /\ GoesOn(h, "write")
      /\ handlers[h].pc = "copy" /\ rows' = rows /\ unanswered' = unanswered
  BY CopyEffect DEF Copy
<1>2. /\ \A g \in Handlers : Remembers(handlers'[g], k) => Remembers(handlers[g], k)
      /\ \A g \in Handlers : Deletes(handlers'[g], k) => Deletes(handlers[g], k)
      /\ \A g \in Handlers : g # h => (Writing(handlers'[g], k) => Writing(handlers[g], k))
  BY <1>1 DEF Others, GoesOn, Remembers, Deletes, Writing, Busy
<1>3. CASE handlers[h].key = k
  <2>1. bucket'[Promoted(k)] # NoFile /\ copied'[k] \in {1, 2} /\ (copied'[k] = 1 => copied[k] = 0)
    BY <1>1, <1>3, PromoteSame
  <2>2. ASSUME copied[k] = 0
        PROVE  Unheard(k)' /\ Safe(k)' /\ \A g \in Handlers : g # h => ~Writing(handlers'[g], k)
    BY <1>1, <1>2, <2>1, <2>2 DEF Once, Unheard, Safe
  <2>3. Unheard(k)' => \A o \in Owners : rows'[o] # k
    BY DEF Unheard
  <2> HIDE DEF Unheard, Safe
  <2> QED
    BY <2>1, <2>2, <2>3 DEF Once
<1>4. CASE handlers[h].key # k
  <2>1. copied'[k] = copied[k] /\ bucket'[Promoted(k)] = bucket[Promoted(k)]
    BY <1>1, <1>4, PromoteOther
  <2>2. ~Writing(handlers'[h], k)
    BY <1>1, <1>4 DEF GoesOn, Writing
  <2> QED
    BY <1>1, <1>2, <2>1, <2>2 DEF Once, Unheard, Safe
<1> QED
  BY <1>3, <1>4

LEMMA OnceCopyFails ==
  ASSUME TypeOK, NEW k \in Keys, Once(k), NEW h \in Handlers, CopyFails(h)
  PROVE  Once(k)'
<1>1. /\ handlers[h].key \in Keys /\ Others(h) /\ handlers'[h].pc = "idle"
      /\ rows' = rows /\ unanswered' = unanswered
  BY KeyOfCopy, EndsEffect DEF CopyFails
<1>2. ~Writing(handlers'[h], k) /\ ~Deletes(handlers'[h], k) /\ ~Remembers(handlers'[h], k)
  BY <1>1 DEF Writing, Deletes, Remembers, Busy
<1>3. \A g \in Handlers :
        /\ Writing(handlers'[g], k) => Writing(handlers[g], k)
        /\ Deletes(handlers'[g], k) => Deletes(handlers[g], k)
        /\ Remembers(handlers'[g], k) => Remembers(handlers[g], k)
  BY <1>1, <1>2 DEF Others
<1>4. CASE UNCHANGED <<bucket, copied, orphans>>
  BY <1>1, <1>3, <1>4, QuietStep
<1>5. CASE Promote(handlers[h].key) /\ handlers[h].key = k
  BY <1>1, <1>3, <1>5, PromoteSame DEF Once, Unheard
<1>6. CASE Promote(handlers[h].key) /\ handlers[h].key # k
  <2>1. copied'[k] = copied[k] /\ bucket'[Promoted(k)] = bucket[Promoted(k)]
    BY <1>1, <1>6, PromoteOther
  <2> QED
    BY <1>1, <1>3, <2>1 DEF Once, Unheard, Safe
<1> QED
  BY <1>4, <1>5, <1>6 DEF CopyFails

\* Both ways a write may end, and the row when it was written.
LEMMA OnceWrite ==
  ASSUME TypeOK, Own, NEW k \in Keys, Once(k), NEW h \in Handlers, Write(h)
  PROVE  Once(k)'
<1> DEFINE o == handlers[h].owner  old == handlers[h].old  key == handlers[h].key
<1>1. /\ o \in Owners /\ Empties(h, {old} \ {key}) /\ handlers[h].pc = "write"
      /\ rows' = [rows EXCEPT ![o] = key]
      /\ bucket' = bucket /\ copied' = copied /\ unanswered' = unanswered
  BY WriteEffect DEF Write
<1>2. /\ \A g \in Handlers : Remembers(handlers'[g], k) => Remembers(handlers[g], k)
      /\ \A g \in Handlers : Writing(handlers'[g], k) => Writing(handlers[g], k) /\ g # h
      /\ \A g \in Handlers : Deletes(handlers'[g], k) => Deletes(handlers[g], k) \/ (g = h /\ k = old /\ k # key)
  BY <1>1 DEF Empties, Remembers, Writing, Busy
<1>3. CASE key = k
  <2>1. Writing(handlers[h], k)
    BY <1>1, <1>3 DEF Writing
  <2>2. CASE copied[k] = 1
    <3>1. Unheard(k) /\ Safe(k) /\ \A g \in Handlers : g # h => ~Writing(handlers[g], k)
      BY <2>1, <2>2 DEF Once
    <3>2. Safe(k)'
      BY <1>1, <1>2, <1>3, <3>1 DEF Safe
    <3> QED
      BY <1>1, <1>2, <2>2, <3>1, <3>2 DEF Once
  <2>3. CASE copied[k] = 0
    BY <2>1, <2>3 DEF Once
  <2> QED
    BY <1>1, <2>2, <2>3 DEF Once
<1>4. CASE key # k /\ old = k
  <2>1. Remembers(handlers[h], k)
    BY <1>1, <1>4 DEF Remembers, Busy
  <2>2. copied[k] # 0
    BY <2>1 DEF Once, Unheard
  <2>3. copied[k] = 1 => \A g \in Handlers : ~Writing(handlers[g], k)
    BY <2>1 DEF Once, Unheard
  <2>4. OwnerOf[k] = o
    BY <1>1, <1>4, NothingAssumption DEF Own, OwnHandler, Busy
  <2>5. \A p \in Owners : rows'[p] # k
    BY <1>1, <1>4, <2>4, NothingAssumption DEF Own, TypeOK
  <2> QED
    BY <1>1, <1>2, <2>2, <2>3, <2>5 DEF Once
<1>5. CASE key # k /\ old # k
  <2>1. \A p \in Owners : rows'[p] = k => rows[p] = k
    BY <1>1, <1>5 DEF TypeOK
  <2>2. \A g \in Handlers : Deletes(handlers'[g], k) => Deletes(handlers[g], k)
    BY <1>2, <1>5
  <2> QED
    BY <1>1, <1>2, <2>1, <2>2 DEF Once, Unheard, Safe
<1> QED
  BY <1>3, <1>4, <1>5

LEMMA OnceWriteFails ==
  ASSUME TypeOK, NEW k \in Keys, Once(k), NEW h \in Handlers, WriteFails(h)
  PROVE  Once(k)'
<1> DEFINE o == handlers[h].owner  key == handlers[h].key
<1>1. /\ o \in Owners /\ Empties(h, {key}) /\ handlers[h].pc = "write"
      /\ bucket' = bucket /\ copied' = copied
      /\ \/ rows' = rows /\ unanswered' = unanswered
         \/ /\ rows' = [rows EXCEPT ![o] = key]
            /\ unanswered' = unanswered \union ({key} \ {NoKey})
  BY WriteEffect DEF WriteFails
<1>2. /\ \A g \in Handlers : Remembers(handlers'[g], k) => Remembers(handlers[g], k)
      /\ \A g \in Handlers : Writing(handlers'[g], k) => Writing(handlers[g], k) /\ g # h
      /\ \A g \in Handlers : Deletes(handlers'[g], k) => Deletes(handlers[g], k) \/ (g = h /\ k = key)
  BY <1>1 DEF Empties, Remembers, Writing, Busy
<1>3. CASE key = k
  <2>1. Writing(handlers[h], k)
    BY <1>1, <1>3 DEF Writing
  <2>2. CASE copied[k] = 1
    <3>1. Unheard(k) /\ \A g \in Handlers : g # h => ~Writing(handlers[g], k)
      BY <2>1, <2>2 DEF Once
    <3>2. \A g \in Handlers : ~Writing(handlers'[g], k)
      BY <1>2, <3>1
    <3>3. (\A p \in Owners : rows'[p] # k) \/ k \in unanswered'
      BY <1>1, <1>3, <3>1, NothingAssumption DEF Unheard
    <3> QED
      BY <1>1, <2>2, <3>2, <3>3 DEF Once
  <2>3. CASE copied[k] = 0
    BY <2>1, <2>3 DEF Once
  <2> QED
    BY <1>1, <2>2, <2>3 DEF Once
<1>4. CASE key # k
  <2>1. \A p \in Owners : rows'[p] = k => rows[p] = k
    BY <1>1, <1>4 DEF TypeOK
  <2>2. /\ \A g \in Handlers : Deletes(handlers'[g], k) => Deletes(handlers[g], k)
        /\ k \notin unanswered' => k \notin unanswered
    BY <1>1, <1>2, <1>4
  <2> QED
    BY <1>1, <1>2, <2>1, <2>2 DEF Once, Unheard, Safe
<1> QED
  BY <1>3, <1>4

LEMMA OnceDiscard ==
  ASSUME TypeOK, NEW k \in Keys, Once(k), NEW h \in Handlers, Discard(h)
  PROVE  Once(k)'
<1> DEFINE object == Head(handlers[h].trash)
<1>1. /\ Others(h) /\ object \in Objects /\ handlers'[h].pc \in {"idle", "discard"}
      /\ Deletes(handlers'[h], k) => Deletes(handlers[h], k)
      /\ object = Promoted(k) => Deletes(handlers[h], k)
      /\ rows' = rows /\ copied' = copied /\ unanswered' = unanswered
      /\ bucket' = bucket \/ bucket' = [bucket EXCEPT ![object] = NoFile]
  BY DiscardEffect DEF Discard
<1>2. \A g \in Handlers :
        /\ Writing(handlers'[g], k) => Writing(handlers[g], k)
        /\ Deletes(handlers'[g], k) => Deletes(handlers[g], k)
        /\ Remembers(handlers'[g], k) => Remembers(handlers[g], k)
  BY <1>1 DEF Others, Writing, Remembers, Busy
<1>3. CASE object # Promoted(k)
  <2>1. bucket'[Promoted(k)] = bucket[Promoted(k)]
    BY <1>1, <1>3, ObjectsApart DEF TypeOK
  <2> QED
    BY <1>1, <1>2, <2>1, QuietStep
<1>4. CASE object = Promoted(k)
  BY <1>1, <1>2, <1>4 DEF Once, Unheard, Safe
<1> QED
  BY <1>3, <1>4

LEMMA OnceStep ==
  ASSUME TypeOK, Own, NEW k \in Keys, Once(k), [Next]_vars
  PROVE  Once(k)'
<1>1. ASSUME handlers' = handlers, rows' = rows, copied' = copied, unanswered' = unanswered,
             bucket'[Promoted(k)] = bucket[Promoted(k)]
      PROVE  Once(k)'
  BY <1>1, QuietStep
<1>2. ASSUME NEW h \in Handlers, NEW o \in Owners, ConfirmCalled(h, o) \/ RemoveCalled(h, o)
      PROVE  Once(k)'
  <2>1. /\ Others(h) /\ handlers'[h].old = rows[o]
        /\ ~Writing(handlers'[h], k) /\ ~Deletes(handlers'[h], k)
    BY <1>2, ConfirmEffect, RemoveEffect, NothingAssumption DEF Writing, Deletes
  <2>2. Remembers(handlers'[h], k) => \E p \in Owners : rows[p] = k
    BY <2>1 DEF Remembers
  <2>3. rows' = rows /\ bucket' = bucket /\ copied' = copied /\ unanswered' = unanswered
    BY <1>2 DEF ConfirmCalled, RemoveCalled, history
  <2> QED
    BY <2>1, <2>2, <2>3, QuietHandler, QuietStep
<1>3. ASSUME NEW h \in Handlers, Inspect(h)
      PROVE  Once(k)'
  <2>1. /\ Others(h) /\ ~Writing(handlers'[h], k) /\ ~Deletes(handlers'[h], k)
        /\ Remembers(handlers'[h], k) => Remembers(handlers[h], k)
    BY <1>3, InspectEffect DEF Writing, Deletes, Remembers, GoesOn, Busy
  <2>2. rows' = rows /\ bucket' = bucket /\ copied' = copied /\ unanswered' = unanswered
    BY <1>3 DEF Inspect, history
  <2> QED
    BY <2>1, <2>2, QuietHandler, QuietStep
<1>4. ASSUME Crash
      PROVE  Once(k)'
  <2>1. \A g \in Handlers : ~Writing(handlers'[g], k) /\ ~Deletes(handlers'[g], k) /\ ~Remembers(handlers'[g], k)
    BY <1>4 DEF Crash, Idle, Writing, Deletes, Remembers, Busy
  <2> QED
    BY <1>4, <2>1, QuietStep DEF Crash
<1>5. ASSUME NEW o \in Owners, Grant(o)
      PROVE  Once(k)'
  BY <1>1, <1>5 DEF Grant, history
<1>6. ASSUME NEW l \in Keys, Upload(l) \/ Expire(l) \/ Sweep(l)
      PROVE  Once(k)'
  <2>1. bucket'[Promoted(k)] = bucket[Promoted(k)]
    BY <1>6, ObjectsApart DEF Upload, Expire, Sweep, TypeOK
  <2> QED
    BY <1>1, <1>6, <2>1 DEF Upload, Expire, Sweep, history
<1>7. ASSUME UNCHANGED vars
      PROVE  Once(k)'
  BY <1>1, <1>7 DEF vars
<1> QED
  BY <1>2, <1>3, <1>4, <1>5, <1>6, <1>7, OnceCopy, OnceCopyFails, OnceWrite, OnceWriteFails, OnceDiscard
  DEF Next, Routes

AllOnce == \A k \in Keys : Once(k)

LEMMA AllOnceStep ==
  ASSUME TypeOK, Own, AllOnce, [Next]_vars
  PROVE  AllOnce'
BY OnceStep DEF AllOnce

LEMMA AllOnceInit == Init => AllOnce
BY NothingAssumption DEF Init, AllOnce, Once, Unheard, Writing, Remembers, Deletes, Idle, Busy

\* Whatever fails, dies or overlaps, the avatar of an owner is in the bucket: short of a key
\* promoted twice, or a row written by a statement that did not answer.
THEOREM AvatarIsThere == Spec => []RowNamesStoredObject
<1>1. TypeOK /\ AllOnce => RowNamesStoredObject
  <2> SUFFICES ASSUME TypeOK, AllOnce, NEW o \in Owners,
                      rows[o] # NoKey, ~(copied[rows[o]] > 1), rows[o] \notin unanswered
               PROVE  bucket[Promoted(rows[o])] # NoFile
    BY DEF RowNamesStoredObject
  <2>1. rows[o] \in Keys /\ Once(rows[o]) /\ copied[rows[o]] \in {0, 1}
    BY DEF TypeOK, AllOnce
  <2> QED
    BY <2>1 DEF Once, Unheard, Safe
<1> QED
  BY <1>1, TypeInit, TypeStep, OwnInit, OwnStep, AllOnceInit, AllOnceStep, PTL DEF Spec

-----------------------------------------------------------------------------
(* What a visitor sees *)

\* Nothing is uploaded under a key that was not drawn.
Drawn ==
  \A k \in Keys : bucket[Pending(k)] # NoFile \/ bucket[Promoted(k)] # NoFile => grants[k] # "unused"

LEMMA DrawnInit == Init => Drawn
BY ObjectsApart DEF Init, Drawn

LEMMA DrawnPromote ==
  ASSUME TypeOK, Drawn, NEW k \in Keys, Promote(k), grants' = grants
  PROVE  Drawn'
BY ObjectsApart DEF TypeOK, Drawn, Promote

LEMMA DrawnStep ==
  ASSUME TypeOK, Drawn, [Next]_vars
  PROVE  Drawn'
<1>1. ASSUME bucket' = bucket, grants' = grants
      PROVE  Drawn'
  BY <1>1 DEF Drawn
<1>2. ASSUME NEW k \in Keys, Upload(k)
      PROVE  Drawn'
  BY <1>2, ObjectsApart DEF TypeOK, Drawn, Upload
<1>3. ASSUME NEW object \in Objects, bucket' = [bucket EXCEPT ![object] = NoFile], grants' = grants
      PROVE  Drawn'
  BY <1>3 DEF TypeOK, Drawn
<1>4. ASSUME NEW k \in Keys, Sweep(k)
      PROVE  Drawn'
  BY <1>3, <1>4, ObjectsApart DEF Sweep
<1>5. ASSUME NEW h \in Handlers, Copy(h)
      PROVE  Drawn'
  BY <1>5, CopyEffect, DrawnPromote DEF Copy
<1>6. ASSUME NEW h \in Handlers, CopyFails(h)
      PROVE  Drawn'
  <2>1. handlers[h].key \in Keys
    BY <1>6, KeyOfCopy DEF CopyFails
  <2> QED
    BY <1>1, <1>6, <2>1, DrawnPromote DEF CopyFails
<1>7. ASSUME NEW h \in Handlers, Discard(h)
      PROVE  Drawn'
  BY <1>1, <1>3, <1>7, DiscardEffect DEF Discard
<1>8. ASSUME NEW o \in Owners, Grant(o)
      PROVE  Drawn'
  BY <1>8 DEF TypeOK, Drawn, Grant
<1>9. ASSUME NEW h \in Handlers, NEW o \in Owners, ConfirmCalled(h, o) \/ RemoveCalled(h, o)
      PROVE  Drawn'
  BY <1>1, <1>9 DEF ConfirmCalled, RemoveCalled
<1>10. ASSUME NEW k \in Keys, Expire(k)
       PROVE  Drawn'
  BY <1>10 DEF TypeOK, Drawn, Expire
<1>11. ASSUME NEW h \in Handlers, Inspect(h) \/ Write(h) \/ WriteFails(h)
       PROVE  Drawn'
  BY <1>1, <1>11 DEF Inspect, Write, WriteFails
<1>12. ASSUME Crash \/ UNCHANGED vars
       PROVE  Drawn'
  BY <1>1, <1>12 DEF Crash, vars
<1> QED
  BY <1>2, <1>4, <1>5, <1>6, <1>7, <1>8, <1>9, <1>10, <1>11, <1>12 DEF Next, Routes

\* Only o may look different, and then by `what`.
LEMMA OneLooksDifferent ==
  ASSUME NEW o \in Owners, NEW what,
         rows'[o] = NoKey => what = NoKey,
         rows'[o] # NoKey => what = bucket'[Promoted(rows'[o])],
         \A p \in Owners : p # o =>
           rows'[p] = rows[p] /\ (rows[p] # NoKey => bucket'[Promoted(rows[p])] = bucket[Promoted(rows[p])])
  PROVE  VisiblePicture' = [VisiblePicture EXCEPT ![o] = what]
<1>1. \A p \in Owners : p # o => Promoted(rows'[p]) = Promoted(rows[p])
  OBVIOUS
<1> QED
  BY <1>1 DEF VisiblePicture, Promoted

LEMMA NobodyLooksDifferent ==
  ASSUME rows' = rows,
         \A p \in Owners : rows[p] # NoKey => bucket'[Promoted(rows[p])] = bucket[Promoted(rows[p])]
  PROVE  VisiblePicture' = VisiblePicture
BY DEF VisiblePicture, Promoted

LEMMA SameWelcome ==
  ASSUME \A k \in Keys : grants'[k] = "unused" <=> grants[k] = "unused"
  PROVE  WelcomeFiles' = WelcomeFiles
BY DEF WelcomeFiles

LEMMA SameStumbled ==
  ASSUME copied' = copied, unanswered' = unanswered
  PROVE  StumbledOwners' = StumbledOwners
BY DEF StumbledOwners

LEMMA StumbledPromoting ==
  ASSUME TypeOK, NEW k \in Keys, Promote(k), unanswered' = unanswered
  PROVE  StumbledOwners' \in {StumbledOwners, StumbledOwners \union {OwnerOf[k]}}
<1>1. \A l \in Keys : l # k => copied'[l] = copied[l]
  BY PromoteOther
<1>2. copied[k] > 1 => copied'[k] > 1
  BY DEF Promote, TypeOK
<1>3. CASE copied'[k] > 1
  <2>1. StumbledOwners' = StumbledOwners \union {OwnerOf[k]}
    BY <1>1, <1>3 DEF StumbledOwners
  <2> QED
    BY <2>1
<1>4. CASE ~(copied'[k] > 1)
  <2>1. \A l \in Keys : copied'[l] > 1 <=> copied[l] > 1
    BY <1>1, <1>2, <1>4
  <2>2. StumbledOwners' = StumbledOwners
    BY <2>1 DEF StumbledOwners
  <2> QED
    BY <2>2
<1> QED
  BY <1>3, <1>4

LEMMA Welcomed ==
  ASSUME TypeOK, EverythingFits, Drawn, NEW k \in Keys, NEW object \in {Pending(k), Promoted(k)},
         bucket[object] # NoFile
  PROVE  bucket[object] \in Files /\ bucket[object] \in WelcomeFiles[OwnerOf[k]] /\ OwnerOf[k] \in Owners
<1> PICK file : file = bucket[object]
  OBVIOUS
<1>1. file \in Files /\ <<k, file>> \in Fits /\ grants[k] # "unused"
  BY ObjectsApart DEF TypeOK, EverythingFits, Drawn
<1>2. OwnerOf[k] \in Owners
  BY KeysAssumption
<1> QED
  BY <1>1, <1>2 DEF WelcomeFiles

\* A step nobody sees.
LEMMA Unseen ==
  ASSUME rows' = rows, copied' = copied, unanswered' = unanswered,
         \A k \in Keys : bucket'[Promoted(k)] = bucket[Promoted(k)],
         \A k \in Keys : grants'[k] = "unused" <=> grants[k] = "unused",
         TypeOK
  PROVE  UNCHANGED Visible!galleryVars
<1>1. \A p \in Owners : rows[p] # NoKey => rows[p] \in Keys
  BY DEF TypeOK
<1>2. VisiblePicture' = VisiblePicture
  BY <1>1, NobodyLooksDifferent
<1> QED
  BY <1>2, SameWelcome, SameStumbled DEF Visible!galleryVars

\* The gallery becomes another by the change of one owner.
LEMMA BecomesOf ==
  ASSUME NEW o \in Owners, NEW what, VisiblePicture' = [VisiblePicture EXCEPT ![o] = what],
         WelcomeFiles' = WelcomeFiles,
         StumbledOwners' \in {StumbledOwners, StumbledOwners \union {o}},
         \/ what = NoKey \/ what = VisiblePicture[o]
         \/ what \in Files /\ what \in WelcomeFiles[o]
         \/ what = NoFile /\ o \in StumbledOwners'
  PROVE  Visible!GalleryNext
<1>1. Visible!Becomes(o, what)
  BY DEF Visible!Becomes
<1>2. CASE what = NoKey
  BY <1>1, <1>2 DEF Visible!GalleryNext, Visible!TakeDown
<1>3. CASE what = VisiblePicture[o]
  BY <1>1, <1>3 DEF Visible!GalleryNext, Visible!Stumble
<1>4. CASE what \in Files /\ what \in WelcomeFiles[o]
  BY <1>1, <1>4 DEF Visible!GalleryNext, Visible!Show
<1>5. CASE what = NoFile /\ o \in StumbledOwners'
  BY <1>1, <1>5 DEF Visible!GalleryNext, Visible!Lose
<1> QED
  BY <1>2, <1>3, <1>4, <1>5

LEMMA SeenGrant ==
  ASSUME TypeOK, NEW o \in Owners, Grant(o)
  PROVE  Visible!GalleryNext
<1>1. PICK k \in Keys : OwnerOf[k] = o /\ grants[k] = "unused" /\ grants' = [grants EXCEPT ![k] = "signed"]
  BY DEF Grant
<1>2. rows' = rows /\ bucket' = bucket /\ copied' = copied /\ unanswered' = unanswered
  BY DEF Grant, history
<1> DEFINE files == {file \in Files : <<k, file>> \in Fits}
<1>3. grants'[k] = "signed" /\ \A l \in Keys : l # k => grants'[l] = grants[l]
  BY <1>1 DEF TypeOK
<1>4. WelcomeFiles' = [WelcomeFiles EXCEPT ![o] = @ \union files]
  <2>1. \A l \in Keys : grants'[l] # "unused" <=> grants[l] # "unused" \/ l = k
    BY <1>1, <1>3
  <2>2. \A p \in Owners : p # o => WelcomeFiles'[p] = WelcomeFiles[p]
    BY <1>1, <2>1 DEF WelcomeFiles
  <2>3. WelcomeFiles'[o] = WelcomeFiles[o] \union files
    BY <1>1, <2>1 DEF WelcomeFiles
  <2> HIDE DEF files
  <2>4. /\ WelcomeFiles = [p \in Owners |-> WelcomeFiles[p]]
        /\ WelcomeFiles' = [p \in Owners |-> WelcomeFiles'[p]]
    BY DEF WelcomeFiles
  <2> QED
    BY <2>2, <2>3, <2>4
<1>5. VisiblePicture' = VisiblePicture /\ StumbledOwners' = StumbledOwners
  BY <1>2, NobodyLooksDifferent, SameStumbled
<1>6. files \in SUBSET Files
  OBVIOUS
<1> QED
  BY <1>4, <1>5, <1>6 DEF Visible!GalleryNext, Visible!Invite

\* The row may name the key already.
LEMMA SeenPromote ==
  ASSUME TypeOK, Own, EverythingFits, Drawn, NEW k \in Keys, Promote(k),
         rows' = rows, grants' = grants, unanswered' = unanswered
  PROVE  Visible!GalleryNext
<1> DEFINE o == OwnerOf[k]
<1>1. PICK file : file = bucket[Pending(k)]
  OBVIOUS
<1>2. file \in Files /\ file \in WelcomeFiles[o] /\ o \in Owners
  BY <1>1, Welcomed DEF Promote
<1>3. bucket'[Promoted(k)] = file /\ \A l \in Keys : l # k => bucket'[Promoted(l)] = bucket[Promoted(l)]
  BY <1>1, ObjectsApart DEF TypeOK, Promote
<1>4. \A p \in Owners : p # o => rows[p] # k
  BY NothingAssumption DEF Own
<1>5. \A p \in Owners : p # o => (rows[p] # NoKey => bucket'[Promoted(rows[p])] = bucket[Promoted(rows[p])])
  BY <1>3, <1>4 DEF TypeOK
<1>6. StumbledOwners' \in {StumbledOwners, StumbledOwners \union {o}} /\ WelcomeFiles' = WelcomeFiles
  BY StumbledPromoting, SameWelcome
<1>7. CASE rows[o] = k
  <2>1. rows'[o] # NoKey /\ file = bucket'[Promoted(rows'[o])]
    BY <1>3, <1>7, NothingAssumption
  <2>2. VisiblePicture' = [VisiblePicture EXCEPT ![o] = file]
    BY <1>2, <1>5, <2>1, OneLooksDifferent
  <2> QED
    BY <1>2, <1>6, <2>2, BecomesOf
<1>8. CASE rows[o] # k
  <2>1. rows[o] # NoKey => bucket'[Promoted(rows[o])] = bucket[Promoted(rows[o])]
    BY <1>2, <1>3, <1>8 DEF TypeOK
  <2>2. VisiblePicture' = VisiblePicture
    BY <1>5, <2>1, NobodyLooksDifferent
  <2>3. VisiblePicture' = [VisiblePicture EXCEPT ![o] = VisiblePicture[o]]
    BY <2>2 DEF VisiblePicture
  <2> QED
    BY <1>2, <1>6, <2>3, BecomesOf
<1> QED
  BY <1>7, <1>8

\* The row names a key, or none, with no answer perhaps.
LEMMA SeenRow ==
  ASSUME TypeOK, Own, AllOnce, EverythingFits, Drawn, NEW h \in Handlers, handlers[h].pc = "write",
         rows' = [rows EXCEPT ![handlers[h].owner] = handlers[h].key],
         bucket' = bucket, grants' = grants, copied' = copied,
         unanswered' \in {unanswered, unanswered \union ({handlers[h].key} \ {NoKey})}
  PROVE  Visible!GalleryNext
<1> DEFINE o == handlers[h].owner  k == handlers[h].key
<1>1. o \in Owners /\ k \in Keyed
  BY WriteEffect
<1>2. rows'[o] = k /\ \A p \in Owners : p # o => rows'[p] = rows[p]
  BY <1>1 DEF TypeOK
<1>3. WelcomeFiles' = WelcomeFiles
  BY SameWelcome
<1>4. CASE k = NoKey
  <2>1. unanswered' = unanswered
    BY <1>4
  <2>2. VisiblePicture' = [VisiblePicture EXCEPT ![o] = NoKey]
    BY <1>1, <1>2, <1>4, OneLooksDifferent
  <2> QED
    BY <1>1, <1>3, <2>1, <2>2, SameStumbled, BecomesOf
<1>5. CASE k # NoKey
  <2>1. k \in Keys /\ OwnerOf[k] = o
    BY <1>1, <1>5 DEF Keyed, Own, OwnHandler, Busy
  <2>2. PICK what : what = bucket[Promoted(k)]
    OBVIOUS
  <2>3. VisiblePicture' = [VisiblePicture EXCEPT ![o] = what]
    BY <1>1, <1>2, <1>5, <2>2, OneLooksDifferent
  <2>4. StumbledOwners' \in {StumbledOwners, StumbledOwners \union {o}}
    <3>1. CASE unanswered' = unanswered
      BY <3>1, SameStumbled
    <3>2. CASE unanswered' = unanswered \union {k}
      BY <2>1, <3>2 DEF StumbledOwners
    <3> QED
      BY <1>5, <3>1, <3>2
  <2>5. CASE what # NoFile
    <3>1. what \in Files /\ what \in WelcomeFiles[o]
      BY <2>1, <2>2, <2>5, Welcomed
    <3> QED
      BY <1>1, <1>3, <2>3, <2>4, <3>1, BecomesOf
  <2>6. CASE what = NoFile
    <3>1. Once(k) /\ Writing(handlers[h], k)
      BY <2>1 DEF AllOnce, Writing
    <3>2. copied[k] # 0 /\ copied[k] # 1
      BY <2>2, <2>6, <3>1 DEF Once, Safe
    <3>3. copied'[k] > 1
      BY <2>1, <3>2 DEF TypeOK
    <3>4. o \in StumbledOwners'
      BY <2>1, <3>3 DEF StumbledOwners
    <3> QED
      BY <1>1, <1>3, <2>3, <2>4, <2>6, <3>4, BecomesOf
  <2> QED
    BY <2>5, <2>6
<1> QED
  BY <1>4, <1>5

\* A row that names what is deleted has stumbled.
LEMMA SeenDiscard ==
  ASSUME TypeOK, Own, AllOnce, NEW h \in Handlers, Discard(h)
  PROVE  Visible!GalleryNext \/ UNCHANGED Visible!galleryVars
<1> DEFINE object == Head(handlers[h].trash)
<1>1. /\ rows' = rows /\ copied' = copied /\ unanswered' = unanswered /\ grants' = grants
      /\ bucket' = bucket \/ bucket' = [bucket EXCEPT ![object] = NoFile]
      /\ object \in Objects /\ \A k \in Keys : object = Promoted(k) => Deletes(handlers[h], k)
  BY DiscardEffect DEF Discard
<1>2. CASE \A k \in Keys : bucket'[Promoted(k)] = bucket[Promoted(k)]
  BY <1>1, <1>2, Unseen
<1>3. CASE \E k \in Keys : bucket'[Promoted(k)] # bucket[Promoted(k)]
  <2>1. PICK k \in Keys : bucket'[Promoted(k)] # bucket[Promoted(k)]
    BY <1>3
  <2>2. bucket' = [bucket EXCEPT ![object] = NoFile] /\ object = Promoted(k)
    BY <1>1, <2>1, ObjectsApart DEF TypeOK
  <2>3. bucket'[Promoted(k)] = NoFile /\ \A l \in Keys : l # k => bucket'[Promoted(l)] = bucket[Promoted(l)]
    BY <2>2, ObjectsApart DEF TypeOK
  <2>4. WelcomeFiles' = WelcomeFiles /\ StumbledOwners' = StumbledOwners
    BY <1>1, SameWelcome, SameStumbled
  <2>5. CASE \A p \in Owners : rows[p] # k
    <3>1. \A p \in Owners : rows[p] # NoKey => bucket'[Promoted(rows[p])] = bucket[Promoted(rows[p])]
      BY <2>3, <2>5 DEF TypeOK
    <3> QED
      BY <1>1, <2>4, <3>1, NobodyLooksDifferent DEF Visible!galleryVars
  <2>6. CASE \E p \in Owners : rows[p] = k
    <3>1. PICK o \in Owners : rows[o] = k
      BY <2>6
    <3>2. k # NoKey /\ OwnerOf[k] = o
      BY <3>1, NothingAssumption DEF Own
    <3>3. \A p \in Owners : p # o => (rows[p] # NoKey => rows[p] # k /\ rows[p] \in Keys)
      BY <3>2 DEF Own, TypeOK
    <3>4. VisiblePicture' = [VisiblePicture EXCEPT ![o] = NoFile]
      BY <1>1, <2>3, <3>1, <3>2, <3>3, OneLooksDifferent
    <3>5. copied[k] > 1 \/ k \in unanswered
      <4>1. Once(k) /\ Deletes(handlers[h], k) /\ copied[k] \in 0..2
        BY <1>1, <2>2 DEF AllOnce, TypeOK
      <4>2. copied[k] # 0
        BY <3>1, <4>1 DEF Once, Unheard
      <4>3. copied[k] = 1 => k \in unanswered
        BY <3>1, <4>1 DEF Once, Safe
      <4> QED
        BY <4>1, <4>2, <4>3
    <3>6. o \in StumbledOwners'
      BY <2>4, <3>2, <3>5 DEF StumbledOwners
    <3> QED
      BY <2>4, <3>4, <3>6, BecomesOf
  <2> QED
    BY <2>5, <2>6
<1> QED
  BY <1>2, <1>3

LEMMA SeenStep ==
  ASSUME TypeOK, Own, AllOnce, EverythingFits, Drawn, [Next]_vars
  PROVE  Visible!GalleryNext \/ UNCHANGED Visible!galleryVars
<1>1. ASSUME rows' = rows, bucket' = bucket, grants' = grants, copied' = copied, unanswered' = unanswered
      PROVE  UNCHANGED Visible!galleryVars
  BY <1>1, Unseen
<1>2. ASSUME NEW h \in Handlers, NEW o \in Owners, ConfirmCalled(h, o) \/ RemoveCalled(h, o)
      PROVE  UNCHANGED Visible!galleryVars
  BY <1>1, <1>2 DEF ConfirmCalled, RemoveCalled, history
<1>3. ASSUME NEW k \in Keys, Upload(k) \/ Expire(k) \/ Sweep(k)
      PROVE  UNCHANGED Visible!galleryVars
  <2>1. \A l \in Keys : bucket'[Promoted(l)] = bucket[Promoted(l)]
    BY <1>3, ObjectsApart DEF TypeOK, Upload, Expire, Sweep
  <2>2. \A l \in Keys : grants'[l] = "unused" <=> grants[l] = "unused"
    BY <1>3 DEF TypeOK, Upload, Expire, Sweep
  <2>3. rows' = rows /\ copied' = copied /\ unanswered' = unanswered
    BY <1>3 DEF Upload, Expire, Sweep, history
  <2> QED
    BY <2>1, <2>2, <2>3, Unseen
<1>4. ASSUME NEW h \in Handlers, Inspect(h)
      PROVE  UNCHANGED Visible!galleryVars
  BY <1>1, <1>4 DEF Inspect, history
<1>5. ASSUME NEW h \in Handlers, Copy(h)
      PROVE  Visible!GalleryNext
  BY <1>5, CopyEffect, SeenPromote DEF Copy
<1>6. ASSUME NEW h \in Handlers, CopyFails(h)
      PROVE  Visible!GalleryNext \/ UNCHANGED Visible!galleryVars
  <2>1. handlers[h].key \in Keys /\ rows' = rows /\ grants' = grants /\ unanswered' = unanswered
    BY <1>6, KeyOfCopy DEF CopyFails
  <2>2. \/ bucket' = bucket /\ copied' = copied
        \/ Promote(handlers[h].key)
    BY <1>6 DEF CopyFails
  <2> QED
    BY <1>1, <2>1, <2>2, SeenPromote
<1>7. ASSUME NEW h \in Handlers, Write(h)
      PROVE  Visible!GalleryNext
  BY <1>7, SeenRow DEF Write
<1>8. ASSUME NEW h \in Handlers, WriteFails(h)
      PROVE  Visible!GalleryNext \/ UNCHANGED Visible!galleryVars
  <2>1. handlers[h].pc = "write" /\ bucket' = bucket /\ grants' = grants /\ copied' = copied
    BY <1>8 DEF WriteFails
  <2>2. \/ rows' = rows /\ unanswered' = unanswered
        \/ /\ rows' = [rows EXCEPT ![handlers[h].owner] = handlers[h].key]
           /\ unanswered' = unanswered \union ({handlers[h].key} \ {NoKey})
    BY <1>8 DEF WriteFails
  <2> QED
    BY <1>1, <2>1, <2>2, SeenRow
<1>9. ASSUME Crash
      PROVE  UNCHANGED Visible!galleryVars
  BY <1>1, <1>9 DEF Crash
<1>10. ASSUME UNCHANGED vars
       PROVE  UNCHANGED Visible!galleryVars
  BY <1>1, <1>10 DEF vars
<1> QED
  BY <1>2, <1>3, <1>4, <1>5, <1>6, <1>7, <1>8, <1>9, <1>10, SeenGrant, SeenDiscard DEF Next, Routes

LEMMA SeenInit == Init => Visible!GalleryInit
BY NothingAssumption
DEF Init, Visible!GalleryInit, VisiblePicture, WelcomeFiles, StumbledOwners

\* A visitor sees one welcome picture replaced by another in one step, by its own owner,
\* and no dead link: short of owners that confirmed an upload twice, or had no answer.
THEOREM AvatarImplementsGallery == Spec => ImplementsGallery
<1>1. TypeOK /\ Own /\ AllOnce /\ EverythingFits /\ Drawn /\ [Next]_vars
        => [Visible!GalleryNext]_(Visible!galleryVars)
  BY SeenStep
<1> QED
  BY <1>1, SeenInit, TypeInit, TypeStep, OwnInit, OwnStep, AllOnceInit, AllOnceStep,
     FitsInit, FitsStep, DrawnInit, DrawnStep, PTL
  DEF Spec, ImplementsGallery, Visible!GallerySpec
=============================================================================
