-------------------------- MODULE EventIngestProofs --------------------------
(***************************************************************************)
(* Proofs about EventIngest, for every value of its constants: type        *)
(* correctness; no accepted event is lost while its source exists; what a  *)
(* flush leaves on disk has no copies without a failure to show for them   *)
(* and lies under the right day; no session spans a silence; a deletion    *)
(* nobody overlapped is final.                                             *)
(***************************************************************************)
EXTENDS EventIngest, FiniteSetTheorems, TLAPS

(* Day is a division of naturals, so a partition date is a natural.        *)
LEMMA DayType == \A ts \in Nat : Day(ts) \in Nat
  BY EventIngestAssumption DEF Day

(* The flush task at rest is a flush state.                                *)
LEMMA IdleType == NoFile \in File /\ Idle \in FlushState
<1>1. NoFile \in File
  <2>1. {} \in SUBSET Event
    OBVIOUS
  <2> QED
    BY <2>1 DEF NoFile, File
<1>2. {} \in SUBSET Event
  OBVIOUS
<1> QED
  BY <1>1, <1>2 DEF Idle, FlushState

(* Every step keeps the types.                                             *)
LEMMA TypeStays == TypeOK /\ [Next]_vars => TypeOK'
<1> USE DEF TypeOK
<1> SUFFICES ASSUME TypeOK, [Next]_vars PROVE TypeOK'
  OBVIOUS
<1> USE DEF buffers, catalog, history, counters
<1>1. CASE Tick
  BY <1>1 DEF Tick
<1>2. ASSUME NEW v \in Visitors, ReceiveEvent(v) PROVE TypeOK'
  BY <1>2 DEF ReceiveEvent, Request
<1>3. ASSUME NEW r \in requests, InsertEvent(r) PROVE TypeOK'
  <2>1. PICK s \in SessionsFor(r) :
          LET e == [id |-> r.id, visitor |-> r.visitor, ts |-> r.ts, session |-> s] IN
          /\ requests' = requests \ {r}
          /\ poolOpen' = TRUE
          /\ buffer' = buffer \cup {e}
          /\ accepted' = accepted \cup {e}
          /\ UNCHANGED <<now, sourceRow, cached, disk, catalog, flush, deletion,
                         overlap, remnant, counters>>
    BY <1>3 DEF InsertEvent
  <2>2. s \in Nat
    BY <2>1, <1>3 DEF SessionsFor, Newest, Event, Request
  <2> QED
    BY <2>1, <2>2, <1>3 DEF Event, Request
<1>4. ASSUME NEW r \in requests, RejectEvent(r) PROVE TypeOK'
  BY <1>4 DEF RejectEvent
<1>5. CASE FlushTick
  BY <1>5 DEF FlushTick, FlushState
<1>6. CASE FlushRead
  <2>1. CASE buffer = {}
    BY <1>6, <2>1, IdleType DEF FlushRead
  <2>2. CASE buffer # {}
    <3>1. PICK B \in OldestRows : \E first \in FirstRow(B) :
            flush' = [pc |-> "read", batch |-> B,
                      file |-> [NoFile EXCEPT !.date = Day(first.ts)]]
      BY <1>6, <2>2 DEF FlushRead
    <3>2. PICK first \in FirstRow(B) :
            flush' = [pc |-> "read", batch |-> B,
                      file |-> [NoFile EXCEPT !.date = Day(first.ts)]]
      BY <3>1
    <3>3. B \subseteq buffer
      BY DEF OldestRows
    <3>4. Day(first.ts) \in Nat
      BY <3>3, DayType DEF FirstRow, Event
    <3> QED
      BY <1>6, <3>2, <3>3, <3>4, IdleType DEF FlushRead, FlushState, File
  <2> QED
    BY <2>1, <2>2
<1>7. CASE FlushWrite
  <2>1. flush.batch \in SUBSET Event /\ flush.file.date \in Nat
    BY DEF FlushState, File
  <2>2. [id |-> nextFile, date |-> flush.file.date, events |-> flush.batch] \in File
    BY <2>1 DEF File
  <2>3. disk' \in SUBSET File /\ nextFile' \in Nat
    BY <1>7, <2>2 DEF FlushWrite
  <2>4. flush' \in FlushState
    BY <1>7, <2>2 DEF FlushWrite, FlushState
  <2> QED
    BY <1>7, <2>3, <2>4 DEF FlushWrite
<1>8. CASE FlushRegisterRow
  <2>1. flush' \in FlushState
    BY <1>8 DEF FlushRegisterRow, FlushState
  <2>2. listed' \in SUBSET Nat
    BY <1>8 DEF FlushRegisterRow, FlushState, File
  <2> QED
    BY <1>8, <2>1, <2>2 DEF FlushRegisterRow
<1>9. CASE FlushRegisterPartition
  BY <1>9 DEF FlushRegisterPartition, FlushState
<1>10. CASE FlushRegisterFails
  BY <1>10 DEF FlushRegisterFails, FlushState
<1>11. CASE FlushDelete
  BY <1>11, IdleType DEF FlushDelete
<1>12. CASE FlushFails
  BY <1>12, IdleType DEF FlushFails
<1>13. CASE DeleteRow
  BY <1>13 DEF DeleteRow
<1>14. CASE DeleteBuffer \/ DeleteBufferFails
  <2>1. CASE DeleteBuffer
    BY <2>1 DEF DeleteBuffer
  <2>2. CASE DeleteBufferFails
    <3>1. cached' \in BOOLEAN /\ poolOpen' \in BOOLEAN
      BY <2>2 DEF DeleteBufferFails
    <3>2. deletion' = "interrupted" /\ faults' = faults + 1
      BY <2>2 DEF DeleteBufferFails, Mishap
    <3>3. UNCHANGED <<now, sourceRow, buffer, requests, disk, catalog, flush, history, nextEvent,
                      nextFile, crashes>>
      BY <2>2 DEF DeleteBufferFails, Mishap
    <3> QED
      BY <3>1, <3>2, <3>3
  <2> QED
    BY <1>14, <2>1, <2>2
<1>15. CASE DeleteCatalog \/ DeleteCatalogFails
  BY <1>15 DEF DeleteCatalog, DeleteCatalogFails, Mishap
<1>16. CASE DeleteDir \/ DeleteDirFails
  BY <1>16 DEF DeleteDir, DeleteDirFails, Mishap
<1>17. CASE Crash
  <2>1. flush' \in FlushState /\ crashes' \in Nat
    BY <1>17, IdleType DEF Crash
  <2>2. deletion' \in {"no", "row", "buffer", "catalog", "done", "interrupted"}
    BY <1>17 DEF Crash
  <2> QED
    BY <1>17, <2>1, <2>2 DEF Crash
<1>18. CASE UNCHANGED vars
  BY <1>18 DEF vars
<1> QED
  BY <1>1, <1>2, <1>3, <1>4, <1>5, <1>6, <1>7, <1>8, <1>9, <1>10, <1>11, <1>12,
     <1>13, <1>14, <1>15, <1>16, <1>17, <1>18 DEF Next, FlushStep, DeletionFails

(* The variables of a model state are well typed in every reachable state. *)
(* (TypeOK of the event_ingest run.)                                       *)
THEOREM TypeCorrect == Spec => []TypeOK
<1>1. Init => TypeOK
  <2> SUFFICES ASSUME Init PROVE TypeOK
    OBVIOUS
  <2> QED
    BY IdleType DEF Init, TypeOK
<1> QED
  BY <1>1, TypeStays, PTL DEF Spec

----------------------------------------------------------------------------
(* AcceptedNotLost is not inductive: the step that deletes the flushed rows*)
(* keeps it only because the file that holds them is on disk by then.      *)
BatchOnDisk ==
    (deletion = "no" /\ flush.pc \in {"written", "row", "registered"}) =>
        flush.file \in disk /\ flush.batch \subseteq flush.file.events

DurableInv == AcceptedNotLost /\ BatchOnDisk

(* While its source exists, every event answered with 202 is in the buffer *)
(* or in a file on disk, whatever the batch size, the number of requests,  *)
(* the failures and the crashes.  (AcceptedNotLost of event_ingest.)       *)
THEOREM Durability == Spec => []AcceptedNotLost
<1> USE DEF DurableInv, AcceptedNotLost, BatchOnDisk, Stored
<1>1. Init => DurableInv
  BY DEF Init, Idle
<1>2. DurableInv /\ [Next]_vars => DurableInv'
  <2> SUFFICES ASSUME DurableInv, [Next]_vars PROVE DurableInv'
    OBVIOUS
  <2> USE DEF buffers, catalog, history, counters
  <2>1. CASE Tick
    BY <2>1 DEF Tick
  <2>2. ASSUME NEW v \in Visitors, ReceiveEvent(v) PROVE DurableInv'
    BY <2>2 DEF ReceiveEvent
  <2>3. ASSUME NEW r \in requests, InsertEvent(r) PROVE DurableInv'
    BY <2>3 DEF InsertEvent
  <2>4. ASSUME NEW r \in requests, RejectEvent(r) PROVE DurableInv'
    BY <2>4 DEF RejectEvent
  <2>5. CASE FlushTick
    BY <2>5 DEF FlushTick
  <2>6. CASE FlushRead
    BY <2>6 DEF FlushRead, Idle
  <2>7. CASE FlushWrite
    BY <2>7 DEF FlushWrite
  <2>8. CASE FlushRegisterRow
    BY <2>8 DEF FlushRegisterRow
  <2>9. CASE FlushRegisterPartition
    BY <2>9 DEF FlushRegisterPartition
  <2>10. CASE FlushRegisterFails
    BY <2>10 DEF FlushRegisterFails
  <2>11. CASE FlushDelete
    <3>1. deletion = "no" => flush.batch \subseteq Stored
      BY <2>11, IdleType DEF FlushDelete
    <3> QED
      BY <2>11, <3>1 DEF FlushDelete, Idle
  <2>12. CASE FlushFails
    BY <2>12 DEF FlushFails, Idle
  <2>13. CASE DeleteRow
    BY <2>13 DEF DeleteRow
  <2>14. CASE DeleteBuffer \/ DeleteBufferFails
    BY <2>14 DEF DeleteBuffer, DeleteBufferFails
  <2>15. CASE DeleteCatalog \/ DeleteCatalogFails
    BY <2>15 DEF DeleteCatalog, DeleteCatalogFails
  <2>16. CASE DeleteDir \/ DeleteDirFails
    BY <2>16 DEF DeleteDir, DeleteDirFails
  <2>17. CASE Crash
    BY <2>17 DEF Crash, Idle
  <2>18. CASE UNCHANGED vars
    BY <2>18 DEF vars
  <2> QED
    BY <2>1, <2>2, <2>3, <2>4, <2>5, <2>6, <2>7, <2>8, <2>9, <2>10, <2>11, <2>12,
       <2>13, <2>14, <2>15, <2>16, <2>17, <2>18 DEF Next, FlushStep, DeletionFails
<1>3. DurableInv => AcceptedNotLost
  OBVIOUS
<1> QED
  BY <1>1, <1>2, <1>3, PTL DEF Spec

----------------------------------------------------------------------------
(* An earlier moment is not of a later day.                                *)
LEMMA DayMonotone == \A s, t \in Nat : s <= t => Day(s) <= Day(t)
<1> SUFFICES ASSUME NEW s \in Nat, NEW t \in Nat, s <= t, ~(Day(s) <= Day(t)) PROVE FALSE
  OBVIOUS
<1> DEFINE p == Day(s)
           q == Day(t)
           d == DayLength
<1>1. p \in Nat /\ q \in Nat /\ d \in Nat \ {0}
  BY DayType, EventIngestAssumption
<1>2. d * p <= s /\ t < d * (q + 1)
  BY EventIngestAssumption DEF Day
<1>3. q + 1 <= p
  BY <1>1
<1> HIDE DEF p, q, d
<1>4. d * (q + 1) <= d * p
  BY <1>1, <1>3
<1>5. d * p \in Int /\ d * (q + 1) \in Int
  BY <1>1
<1> QED
  BY <1>2, <1>4, <1>5

----------------------------------------------------------------------------
(* A file to be written, and every file there is, has the day of its       *)
(* earliest event.                                                         *)
Earliest(date, events) ==
    /\ \A e \in events : date <= Day(e.ts)
    /\ \E e \in events : date = Day(e.ts)

DatesInv ==
    /\ flush.pc = "read" => Earliest(flush.file.date, flush.batch)
    /\ FileDateIsEarliest

LEMMA StepDates == TypeOK /\ DatesInv /\ [Next]_vars => DatesInv'
<1> SUFFICES ASSUME TypeOK, DatesInv, [Next]_vars PROVE DatesInv'
  OBVIOUS
<1> USE DEF buffers, catalog, history, counters
<1>1. CASE FlushRead
  <2>1. CASE buffer = {}
    BY <1>1, <2>1 DEF FlushRead, DatesInv, FileDateIsEarliest, Idle
  <2>2. CASE buffer # {}
    <3>0. PICK B \in OldestRows : \E first \in FirstRow(B) :
            flush' = [pc |-> "read", batch |-> B,
                      file |-> [NoFile EXCEPT !.date = Day(first.ts)]]
      BY <1>1, <2>2 DEF FlushRead
    <3>1. PICK first \in FirstRow(B) :
            flush' = [pc |-> "read", batch |-> B,
                      file |-> [NoFile EXCEPT !.date = Day(first.ts)]]
      BY <3>0
    <3>2. /\ first \in B /\ B \subseteq Event /\ \A e \in B : first.ts <= e.ts
          /\ \A e \in B : e.ts \in Nat
      BY DEF FirstRow, OldestRows, TypeOK, Event
    <3>3. \A e \in B : Day(first.ts) <= Day(e.ts)
      BY <3>2, DayMonotone
    <3>4. flush'.batch = B /\ flush'.file.date = Day(first.ts)
      BY <3>1 DEF NoFile
    <3>5. Earliest(flush'.file.date, flush'.batch)
      BY <3>2, <3>3, <3>4 DEF Earliest
    <3> QED
      BY <1>1, <3>5 DEF FlushRead, DatesInv, FileDateIsEarliest, Earliest
  <2> QED
    BY <2>1, <2>2
<1>2. CASE FlushWrite
  <2> DEFINE f == [id |-> nextFile, date |-> flush.file.date, events |-> flush.batch]
  <2>1. disk' = disk \cup {f} /\ flush'.pc = "written"
    BY <1>2 DEF FlushWrite, TypeOK, FlushState
  <2>2. f.date = flush.file.date /\ f.events = flush.batch
    OBVIOUS
  <2> HIDE DEF f
  <2> QED
    BY <1>2, <2>1, <2>2 DEF FlushWrite, DatesInv, FileDateIsEarliest, Earliest
<1>3. CASE FlushTick \/ FlushRegisterRow \/ FlushRegisterPartition \/ FlushRegisterFails
  <2>1. UNCHANGED disk /\ flush'.pc # "read"
    BY <1>3 DEF FlushTick, FlushRegisterRow, FlushRegisterPartition, FlushRegisterFails,
       TypeOK, FlushState
  <2> QED
    BY <2>1 DEF DatesInv, FileDateIsEarliest
<1>4. CASE FlushDelete \/ FlushFails \/ Crash
  BY <1>4 DEF FlushDelete, FlushFails, Crash, DatesInv, FileDateIsEarliest, Idle
<1>5. CASE DeleteDir \/ DeleteDirFails
  BY <1>5 DEF DeleteDir, DeleteDirFails, DatesInv, FileDateIsEarliest, Earliest
<1>6. CASE \/ Tick \/ DeleteRow \/ DeleteBuffer \/ DeleteBufferFails
           \/ DeleteCatalog \/ DeleteCatalogFails \/ UNCHANGED vars
  BY <1>6 DEF Tick, DeleteRow, DeleteBuffer, DeleteBufferFails, DeleteCatalog, DeleteCatalogFails,
     vars, DatesInv, FileDateIsEarliest, Earliest
<1>7. ASSUME NEW v \in Visitors, ReceiveEvent(v) PROVE DatesInv'
  BY <1>7 DEF ReceiveEvent, DatesInv, FileDateIsEarliest, Earliest
<1>8. ASSUME NEW r \in requests, InsertEvent(r) \/ RejectEvent(r) PROVE DatesInv'
  BY <1>8 DEF InsertEvent, RejectEvent, DatesInv, FileDateIsEarliest, Earliest
<1> QED
  BY <1>1, <1>2, <1>3, <1>4, <1>5, <1>6, <1>7, <1>8 DEF Next, FlushStep, DeletionFails

----------------------------------------------------------------------------
(* Events have numbers of their own, and what is stored was accepted.      *)
Numbered ==
    /\ \A r \in requests : r.id < nextEvent
    /\ \A r, q \in requests : r.id = q.id => r = q
    /\ \A e \in accepted : e.id < nextEvent /\ e.session < nextEvent
    /\ \A e \in accepted, r \in requests : e.id # r.id /\ e.session # r.id
    /\ buffer \subseteq accepted /\ flush.batch \subseteq accepted
    /\ \A f \in disk : f.events \subseteq accepted

(* What an insert does, with the session it found.                         *)
LEMMA InsertDoes ==
    ASSUME TypeOK, NEW r \in requests, InsertEvent(r)
    PROVE  \E s \in SessionsFor(r), e \in Event :
              /\ e.id = r.id /\ e.visitor = r.visitor /\ e.ts = r.ts /\ e.session = s
              /\ requests' = requests \ {r} /\ buffer' = buffer \cup {e}
              /\ accepted' = accepted \cup {e}
              /\ UNCHANGED <<now, disk, flush, deletion, nextEvent, faults, crashes>>
<1>1. PICK s \in SessionsFor(r) :
        LET e == [id |-> r.id, visitor |-> r.visitor, ts |-> r.ts, session |-> s] IN
        /\ requests' = requests \ {r}
        /\ buffer' = buffer \cup {e}
        /\ accepted' = accepted \cup {e}
        /\ UNCHANGED <<now, disk, flush, deletion, counters>>
  BY DEF InsertEvent
<1>2. s \in Nat /\ r \in Request
  BY <1>1 DEF SessionsFor, Newest, Event, Request, TypeOK
<1> DEFINE e == [id |-> r.id, visitor |-> r.visitor, ts |-> r.ts, session |-> s]
<1>3. e \in Event /\ e.id = r.id /\ e.visitor = r.visitor /\ e.ts = r.ts /\ e.session = s
  BY <1>2 DEF Event, Request
<1>4. /\ requests' = requests \ {r} /\ buffer' = buffer \cup {e}
      /\ accepted' = accepted \cup {e}
      /\ UNCHANGED <<now, disk, flush, deletion, nextEvent, faults, crashes>>
  BY <1>1 DEF counters
<1> HIDE DEF e
<1> QED
  BY <1>1, <1>3, <1>4

LEMMA ReceiveDoes ==
    ASSUME TypeOK, NEW v \in Visitors, ReceiveEvent(v)
    PROVE  \E r \in Request :
              /\ r.id = nextEvent /\ r.ts = now /\ requests' = requests \cup {r}
              /\ nextEvent' = nextEvent + 1
              /\ UNCHANGED <<now, buffer, disk, flush, deletion, accepted, faults, crashes>>
<1> DEFINE r == [id |-> nextEvent, visitor |-> v, ts |-> now]
<1>1. r \in Request /\ r.id = nextEvent /\ r.ts = now
  BY DEF Request, TypeOK
<1>2. /\ requests' = requests \cup {r} /\ nextEvent' = nextEvent + 1
      /\ UNCHANGED <<now, buffer, disk, flush, deletion, accepted, faults, crashes>>
  BY DEF ReceiveEvent, buffers, history
<1> HIDE DEF r
<1> QED
  BY <1>1, <1>2

(* A write leaves one file more, of the batch in hand.                     *)
LEMMA WriteDoes ==
    ASSUME TypeOK, FlushWrite
    PROVE  \E f \in File : disk' = disk \cup {f} /\ f.events = flush.batch
<1> DEFINE f == [id |-> nextFile, date |-> flush.file.date, events |-> flush.batch]
<1>1. disk' = disk \cup {f}
  BY DEF FlushWrite
<1>2. f \in File /\ f.events = flush.batch
  BY DEF TypeOK, FlushState, File
<1> HIDE DEF f
<1> QED
  BY <1>1, <1>2

(* What the flush task has in hand comes from the buffer.                  *)
LEMMA FlushDoes ==
    ASSUME TypeOK, FlushTick \/ FlushStep \/ FlushFails
    PROVE  /\ flush'.batch \in {{}, flush.batch} \/ (FlushRead /\ flush'.batch \subseteq buffer)
           /\ \/ UNCHANGED disk
              \/ FlushWrite /\ \E f \in File : disk' = disk \cup {f} /\ f.events = flush.batch
           /\ buffer' \subseteq buffer
           /\ UNCHANGED <<now, requests, accepted, nextEvent, deletion, overlap>>
<1> USE DEF buffers, catalog, history, counters
<1>1. CASE FlushRead
  <2>1. CASE buffer = {}
    BY <1>1, <2>1 DEF FlushRead, Idle
  <2>2. CASE buffer # {}
    <3>0. PICK B \in OldestRows : \E first \in FirstRow(B) :
            flush' = [pc |-> "read", batch |-> B,
                      file |-> [NoFile EXCEPT !.date = Day(first.ts)]]
      BY <1>1, <2>2 DEF FlushRead
    <3>1. PICK first \in FirstRow(B) :
            flush' = [pc |-> "read", batch |-> B,
                      file |-> [NoFile EXCEPT !.date = Day(first.ts)]]
      BY <3>0
    <3>2. flush'.batch = B
      BY <3>1
    <3> QED
      BY <1>1, <3>2 DEF FlushRead, OldestRows
  <2> QED
    BY <2>1, <2>2
<1>2. CASE FlushWrite
  <2>1. flush'.batch = flush.batch
    BY <1>2 DEF FlushWrite, TypeOK, FlushState
  <2>2. \E f \in File : disk' = disk \cup {f} /\ f.events = flush.batch
    BY <1>2, WriteDoes
  <2> QED
    BY <1>2, <2>1, <2>2 DEF FlushWrite
<1>3. CASE FlushTick \/ FlushRegisterRow \/ FlushRegisterPartition \/ FlushRegisterFails
  BY <1>3 DEF FlushTick, FlushRegisterRow, FlushRegisterPartition, FlushRegisterFails,
     TypeOK, FlushState
<1>4. CASE FlushDelete \/ FlushFails
  BY <1>4 DEF FlushDelete, FlushFails, Idle
<1> QED
  BY <1>1, <1>2, <1>3, <1>4 DEF FlushStep

LEMMA StepNumbered == TypeOK /\ Numbered /\ [Next]_vars => Numbered'
<1> SUFFICES ASSUME TypeOK, Numbered, [Next]_vars PROVE Numbered'
  OBVIOUS
<1> USE DEF buffers, catalog, history, counters
<1>0. /\ \A q \in requests : q.id \in Nat
      /\ \A e \in accepted : e.id \in Nat /\ e.session \in Nat
      /\ nextEvent \in Nat
  BY DEF TypeOK, Request, Event
<1>1. ASSUME NEW v \in Visitors, ReceiveEvent(v) PROVE Numbered'
  <2>1. PICK r \in Request :
              /\ r.id = nextEvent /\ r.ts = now /\ requests' = requests \cup {r}
              /\ nextEvent' = nextEvent + 1
              /\ UNCHANGED <<now, buffer, disk, flush, deletion, accepted, faults, crashes>>
    BY <1>1, ReceiveDoes
  <2> QED
    BY <1>0, <2>1 DEF Numbered
<1>2. ASSUME NEW r \in requests, InsertEvent(r) PROVE Numbered'
  <2>1. PICK s \in SessionsFor(r), e \in Event :
              /\ e.id = r.id /\ e.visitor = r.visitor /\ e.ts = r.ts /\ e.session = s
              /\ requests' = requests \ {r} /\ buffer' = buffer \cup {e}
              /\ accepted' = accepted \cup {e}
              /\ UNCHANGED <<now, disk, flush, deletion, nextEvent, faults, crashes>>
    BY <1>2, InsertDoes
  <2>2. s = r.id \/ \E f \in accepted : f.session = s
    BY DEF SessionsFor, Newest, Numbered
  <2>3. /\ e.id < nextEvent /\ e.session < nextEvent
        /\ \A q \in requests' : e.id # q.id /\ e.session # q.id
    BY <2>1, <2>2 DEF Numbered
  <2> QED
    BY <2>1, <2>3 DEF Numbered
<1>3. ASSUME NEW r \in requests, RejectEvent(r) PROVE Numbered'
  BY <1>3 DEF RejectEvent, Numbered
<1>4. CASE FlushTick \/ FlushStep \/ FlushFails
  BY <1>4, FlushDoes DEF Numbered
<1>5. CASE \/ Tick \/ DeleteRow \/ DeleteBuffer \/ DeleteCatalog \/ DeleteDir
           \/ DeletionFails \/ UNCHANGED vars
  BY <1>5 DEF Tick, DeleteRow, DeleteBuffer, DeleteCatalog, DeleteDir, DeletionFails,
     DeleteBufferFails, DeleteCatalogFails, DeleteDirFails, Mishap, vars, Numbered
<1>6. CASE Crash
  BY <1>6 DEF Crash, Numbered, Idle
<1> QED
  BY <1>1, <1>2, <1>3, <1>4, <1>5, <1>6 DEF Next

LEMMA InitNumbered == Init => Numbered
BY DEF Init, Numbered, Idle

----------------------------------------------------------------------------
(* The batch in hand is in the buffer still, so that taking it out makes   *)
(* room for the file's copy.                                               *)
CopiesInv ==
    /\ IsFiniteSet(disk)
    /\ deletion = "no" => flush.batch \subseteq buffer
    /\ CopiesBounded

InFiles(e) == {f \in disk : e \in f.events}

LEMMA CopiesNat ==
    ASSUME IsFiniteSet(disk), NEW e
    PROVE  Cardinality(InFiles(e)) \in Nat /\ Copies(e) \in Nat /\ InHand(e) \in {0, 1}
           /\ Copies(e) = Cardinality(InFiles(e)) + (IF e \in buffer THEN 1 ELSE 0)
<1>1. InFiles(e) \subseteq disk
  BY DEF InFiles
<1>2. Cardinality(InFiles(e)) \in Nat
  BY <1>1, FS_Subset, FS_CardinalityType
<1> QED
  BY <1>2 DEF Copies, InHand, InFiles

(* A file more is a copy more, of what is in it.                           *)
LEMMA FileAdded ==
    ASSUME IsFiniteSet(disk), NEW e, NEW f, disk' = disk \cup {f}
    PROVE  /\ IsFiniteSet(disk')
           /\ Cardinality(InFiles(e)') <= Cardinality(InFiles(e)) + (IF e \in f.events THEN 1 ELSE 0)
           /\ Cardinality(InFiles(e)') \in Nat
<1>1. IsFiniteSet(disk') /\ InFiles(e) \subseteq disk /\ InFiles(e)' \subseteq disk'
  BY FS_AddElement DEF InFiles
<1>2. IsFiniteSet(InFiles(e)) /\ IsFiniteSet(InFiles(e)')
  BY <1>1, FS_Subset
<1>3. Cardinality(InFiles(e)) \in Nat /\ Cardinality(InFiles(e)') \in Nat
  BY <1>2, FS_CardinalityType
<1>4. CASE e \in f.events
  <2>1. InFiles(e)' = InFiles(e) \cup {f}
    BY <1>4 DEF InFiles
  <2>2. Cardinality(InFiles(e) \cup {f}) = IF f \in InFiles(e) THEN Cardinality(InFiles(e))
                                                        ELSE Cardinality(InFiles(e)) + 1
    BY <1>2, FS_AddElement
  <2> QED
    BY <1>1, <1>3, <1>4, <2>1, <2>2
<1>5. CASE e \notin f.events
  <2>1. InFiles(e)' = InFiles(e)
    BY <1>5 DEF InFiles
  <2> QED
    BY <1>1, <1>3, <1>5, <2>1
<1> QED
  BY <1>4, <1>5

LEMMA StepCopies ==
    TypeOK /\ TypeOK' /\ Numbered /\ CopiesInv /\ [Next]_vars => CopiesInv'
<1> SUFFICES ASSUME TypeOK, TypeOK', Numbered, CopiesInv, [Next]_vars PROVE CopiesInv'
  OBVIOUS
<1> USE DEF buffers, catalog, history, counters
<1>0. /\ IsFiniteSet(disk) /\ faults \in Nat /\ crashes \in Nat
      /\ faults' \in Nat /\ crashes' \in Nat
  BY DEF CopiesInv, TypeOK
<1>1. ASSUME NEW v \in Visitors, ReceiveEvent(v) PROVE CopiesInv'
  <2>1. UNCHANGED <<buffer, disk, flush, deletion, accepted, faults, crashes>>
    BY <1>1 DEF ReceiveEvent
  <2> QED
    BY <2>1 DEF CopiesInv, CopiesBounded, Copies, InHand
<1>2. ASSUME NEW r \in requests, InsertEvent(r) PROVE CopiesInv'
  <2>1. PICK s \in SessionsFor(r), e \in Event :
              /\ e.id = r.id /\ e.visitor = r.visitor /\ e.ts = r.ts /\ e.session = s
              /\ requests' = requests \ {r} /\ buffer' = buffer \cup {e}
              /\ accepted' = accepted \cup {e}
              /\ UNCHANGED <<now, disk, flush, deletion, nextEvent, faults, crashes>>
    BY <1>2, InsertDoes
  <2>2. e \notin accepted
    BY <2>1 DEF Numbered
  <2>3. InFiles(e) = {}
    BY <2>2 DEF Numbered, InFiles
  <2>4. Copies(e)' <= 1
    <3>1. InFiles(e)' = {}
      BY <2>1, <2>3 DEF InFiles
    <3>2. Cardinality({f \in disk' : e \in f.events}) = 0
      BY <3>1, FS_EmptySet DEF InFiles
    <3> QED
      BY <3>2 DEF Copies
  <2>5. \A x \in accepted : Copies(x)' = Copies(x) /\ InHand(x)' = InHand(x)
    BY <2>1, <2>2 DEF Copies, InHand
  <2>6. Copies(e)' \in Nat /\ InHand(e)' \in {0, 1}
    <3>1. IsFiniteSet(disk')
      BY <1>0, <2>1
    <3>2. InFiles(e)' \subseteq disk'
      BY DEF InFiles
    <3>3. Cardinality({f \in disk' : e \in f.events}) \in Nat
      BY <3>1, <3>2, FS_Subset, FS_CardinalityType DEF InFiles
    <3> QED
      BY <3>3 DEF Copies, InHand
  <2>7. CopiesBounded'
    <3> SUFFICES ASSUME deletion' = "no", NEW x \in accepted'
                 PROVE  Copies(x)' <= 1 + InHand(x)' + faults' + crashes'
      BY DEF CopiesBounded
    <3>1. CASE x = e
      <4> HIDE DEF Copies, InHand
      <4> QED
        BY <1>0, <2>4, <2>6, <3>1
    <3>2. CASE x \in accepted
      BY <2>1, <2>5, <3>2 DEF CopiesInv, CopiesBounded
    <3> QED
      BY <2>1, <3>1, <3>2
  <2> QED
    BY <2>1, <2>7 DEF CopiesInv
<1>3. ASSUME NEW r \in requests, RejectEvent(r) PROVE CopiesInv'
  <2>1. /\ UNCHANGED <<buffer, disk, flush, deletion, accepted, crashes>>
        /\ faults' = faults + 1
    BY <1>3 DEF RejectEvent
  <2>2. \A e : Copies(e)' = Copies(e) /\ InHand(e)' = InHand(e)
    BY <2>1 DEF Copies, InHand
  <2>3. \A e : Copies(e) \in Nat /\ InHand(e) \in {0, 1}
    BY <1>0, CopiesNat
  <2> QED
    BY <1>0, <2>1, <2>2, <2>3 DEF CopiesInv, CopiesBounded
<1>4. CASE FlushWrite
  <2>1. /\ flush.pc = "read" /\ flush'.pc = "written" /\ flush'.batch = flush.batch
        /\ UNCHANGED <<buffer, deletion, accepted, faults, crashes>>
    BY <1>4 DEF FlushWrite, TypeOK, FlushState
  <2>2. PICK f \in File : disk' = disk \cup {f} /\ f.events = flush.batch
    BY <1>4, WriteDoes
  <2>3. IsFiniteSet(disk')
    BY <1>0, <2>2, FileAdded
  <2>4. ASSUME deletion = "no", NEW e \in accepted
        PROVE  Copies(e)' <= 1 + InHand(e)' + faults + crashes
    <3>1. /\ Cardinality(InFiles(e)') <= Cardinality(InFiles(e)) + (IF e \in f.events THEN 1 ELSE 0)
          /\ Cardinality(InFiles(e)') \in Nat /\ Cardinality(InFiles(e)) \in Nat
          /\ Copies(e) = Cardinality(InFiles(e)) + (IF e \in buffer THEN 1 ELSE 0)
      BY <1>0, <2>2, FileAdded, CopiesNat
    <3>2. Copies(e)' = Cardinality(InFiles(e)') + (IF e \in buffer THEN 1 ELSE 0)
      BY <2>1 DEF Copies, InFiles
    <3>3. InHand(e) = 0 /\ InHand(e)' = (IF e \in f.events THEN 1 ELSE 0)
      BY <2>1, <2>2 DEF InHand
    <3>4. Copies(e) <= 1 + InHand(e) + faults + crashes
      BY <2>4 DEF CopiesInv, CopiesBounded
    <3> QED
      BY <1>0, <3>1, <3>2, <3>3, <3>4
  <2> QED
    BY <2>1, <2>3, <2>4 DEF CopiesInv, CopiesBounded
<1>5. CASE FlushDelete
  <2>1. /\ flush.pc = "registered" /\ flush' = Idle /\ buffer' = buffer \ flush.batch
        /\ UNCHANGED <<disk, deletion, accepted, faults, crashes>>
    BY <1>5 DEF FlushDelete
  <2>2. ASSUME deletion = "no", NEW e \in accepted
        PROVE  Copies(e)' <= 1 + InHand(e)' + faults + crashes
    <3>1. /\ Cardinality(InFiles(e)) \in Nat
          /\ Copies(e) = Cardinality(InFiles(e)) + (IF e \in buffer THEN 1 ELSE 0)
      BY <1>0, CopiesNat
    <3>2. Copies(e)' = Cardinality(InFiles(e)) + (IF e \in buffer' THEN 1 ELSE 0)
      BY <2>1 DEF Copies, InFiles
    <3>3. InHand(e) = (IF e \in flush.batch THEN 1 ELSE 0) /\ InHand(e)' = 0
      BY <2>1 DEF InHand, Idle
    <3>4. Copies(e) <= 1 + InHand(e) + faults + crashes /\ flush.batch \subseteq buffer
      BY <2>2 DEF CopiesInv, CopiesBounded
    <3> QED
      BY <1>0, <2>1, <3>1, <3>2, <3>3, <3>4
  <2> QED
    BY <1>0, <2>1, <2>2 DEF CopiesInv, CopiesBounded, Idle
<1>6. CASE FlushFails \/ Crash
  <2>1. /\ flush' = Idle /\ UNCHANGED <<buffer, disk, accepted>>
        /\ deletion' = "no" => deletion = "no"
        /\ \/ faults' = faults + 1 /\ crashes' = crashes
           \/ faults' = faults /\ crashes' = crashes + 1
    BY <1>6 DEF FlushFails, Crash
  <2>2. ASSUME deletion = "no", NEW e \in accepted
        PROVE  Copies(e)' <= 1 + InHand(e)' + faults' + crashes'
    <3>1. Copies(e)' = Copies(e) /\ InHand(e)' = 0
      BY <2>1 DEF Copies, InHand, Idle
    <3>2. Copies(e) \in Nat /\ InHand(e) \in {0, 1}
      BY <1>0, CopiesNat
    <3>3. Copies(e) <= 1 + InHand(e) + faults + crashes
      BY <2>2 DEF CopiesInv, CopiesBounded
    <3> QED
      BY <1>0, <2>1, <3>1, <3>2, <3>3
  <2> QED
    BY <1>0, <2>1, <2>2 DEF CopiesInv, CopiesBounded, Idle
<1>7. CASE FlushTick \/ FlushRead \/ FlushRegisterRow \/ FlushRegisterPartition \/ FlushRegisterFails
  <2>1. /\ UNCHANGED <<buffer, disk, deletion, accepted, faults, crashes>>
        /\ \/ flush.pc \in {"idle", "listed"} /\ flush'.pc \in {"idle", "listed", "read"}
           \/ /\ flush.pc \in {"written", "row"} /\ flush'.pc \in {"row", "registered"}
              /\ flush'.batch = flush.batch
    <3>1. CASE FlushRead
      BY <3>1 DEF FlushRead, Idle
    <3>2. CASE ~FlushRead
      BY <1>7, <3>2 DEF FlushTick, FlushRegisterRow, FlushRegisterPartition, FlushRegisterFails,
         TypeOK, FlushState
    <3> QED
      BY <3>1, <3>2
  <2>2. \A e : Copies(e)' = Copies(e) /\ InHand(e)' = InHand(e)
    BY <2>1 DEF Copies, InHand
  <2>3. flush'.batch \subseteq buffer \/ flush'.batch \in {{}, flush.batch}
    BY <1>7, FlushDoes DEF FlushStep
  <2> QED
    BY <1>0, <2>1, <2>2, <2>3 DEF CopiesInv, CopiesBounded
<1>8. CASE Tick \/ UNCHANGED vars
  <2>1. UNCHANGED <<buffer, disk, flush, deletion, accepted, faults, crashes>>
    BY <1>8 DEF Tick, vars
  <2> QED
    BY <2>1 DEF CopiesInv, CopiesBounded, Copies, InHand
<1>9. CASE DeleteRow \/ DeleteBuffer \/ DeleteCatalog \/ DeleteDir \/ DeletionFails
  <2>1. deletion' # "no" /\ disk' \subseteq disk
    BY <1>9 DEF DeleteRow, DeleteBuffer, DeleteCatalog, DeleteDir, DeletionFails,
       DeleteBufferFails, DeleteCatalogFails, DeleteDirFails
  <2>2. IsFiniteSet(disk')
    BY <2>1, FS_Subset DEF CopiesInv
  <2> QED
    BY <1>0, <2>1, <2>2 DEF CopiesInv, CopiesBounded
<1> QED
  BY <1>1, <1>2, <1>3, <1>4, <1>5, <1>6, <1>7, <1>8, <1>9 DEF Next, FlushStep, DeletionFails

(* What a flush leaves on disk can be trusted: no event has a second copy  *)
(* but for a failed step or a crash, and every file has the day of its     *)
(* earliest event, whatever the batch size, the length of a day and the    *)
(* number of events.  (FilesSound of event_ingest.)                        *)
THEOREM FilesTrusted == Spec => []FilesSound
<1>1. Init => TypeOK /\ Numbered /\ CopiesInv /\ DatesInv
  <2> SUFFICES ASSUME Init PROVE TypeOK /\ Numbered /\ CopiesInv /\ DatesInv
    OBVIOUS
  <2>1. TypeOK
    BY IdleType DEF Init, TypeOK
  <2>2. CopiesInv
    BY FS_EmptySet DEF Init, CopiesInv, CopiesBounded, Idle
  <2>3. DatesInv
    BY DEF Init, DatesInv, FileDateIsEarliest, Idle
  <2> QED
    BY <2>1, <2>2, <2>3, InitNumbered
<1>2. TypeOK /\ Numbered /\ CopiesInv /\ DatesInv /\ [Next]_vars
        => TypeOK' /\ Numbered' /\ CopiesInv' /\ DatesInv'
  BY TypeStays, StepNumbered, StepCopies, StepDates
<1>3. CopiesInv /\ DatesInv => FilesSound
  BY DEF CopiesInv, DatesInv, FilesSound
<1> QED
  BY <1>1, <1>2, <1>3, PTL DEF Spec

----------------------------------------------------------------------------
(* No event is of the future, and no request is older than MaxDelay.       *)
Timely ==
    /\ \A e \in accepted : e.ts <= now
    /\ \A r \in requests : r.ts <= now /\ now - r.ts <= MaxDelay

LEMMA StepTimely == TypeOK /\ Timely /\ [Next]_vars => Timely'
<1> SUFFICES ASSUME TypeOK, Timely, [Next]_vars PROVE Timely'
  OBVIOUS
<1> USE DEF buffers, catalog, history, counters
<1>0. /\ \A q \in requests : q.ts \in Nat
      /\ \A e \in accepted : e.ts \in Nat
      /\ now \in Nat /\ MaxDelay \in Nat
  BY EventIngestAssumption DEF TypeOK, Request, Event
<1>1. ASSUME NEW v \in Visitors, ReceiveEvent(v) PROVE Timely'
  <2>1. PICK r \in Request :
              /\ r.id = nextEvent /\ r.ts = now /\ requests' = requests \cup {r}
              /\ nextEvent' = nextEvent + 1
              /\ UNCHANGED <<now, buffer, disk, flush, deletion, accepted, faults, crashes>>
    BY <1>1, ReceiveDoes
  <2> QED
    BY <1>0, <2>1 DEF Timely
<1>2. ASSUME NEW r \in requests, InsertEvent(r) PROVE Timely'
  <2>1. PICK s \in SessionsFor(r), e \in Event :
              /\ e.id = r.id /\ e.visitor = r.visitor /\ e.ts = r.ts /\ e.session = s
              /\ requests' = requests \ {r} /\ buffer' = buffer \cup {e}
              /\ accepted' = accepted \cup {e}
              /\ UNCHANGED <<now, disk, flush, deletion, nextEvent, faults, crashes>>
    BY <1>2, InsertDoes
  <2> QED
    BY <2>1 DEF Timely
<1>3. ASSUME NEW r \in requests, RejectEvent(r) PROVE Timely'
  BY <1>3 DEF RejectEvent, Timely
<1>4. CASE FlushTick \/ FlushStep \/ FlushFails
  BY <1>4, FlushDoes DEF Timely
<1>5. CASE \/ DeleteRow \/ DeleteBuffer \/ DeleteCatalog \/ DeleteDir \/ DeletionFails
           \/ UNCHANGED vars
  BY <1>5 DEF DeleteRow, DeleteBuffer, DeleteCatalog, DeleteDir, DeletionFails, DeleteBufferFails,
     DeleteCatalogFails, DeleteDirFails, vars, Timely
<1>6. CASE Crash
  BY <1>6 DEF Crash, Timely
<1>7. CASE Tick
  BY <1>0, <1>7 DEF Tick, Timely
<1> QED
  BY <1>1, <1>2, <1>3, <1>4, <1>5, <1>6, <1>7 DEF Next

LEMMA StepGap ==
    ASSUME MaxDelay < SessionTimeout,
           TypeOK, Numbered, Timely, SessionHasNoGap, [Next]_vars
    PROVE  SessionHasNoGap'
<1> USE DEF buffers, catalog, history, counters
<1>1. ASSUME NEW r \in requests, InsertEvent(r) PROVE SessionHasNoGap'
  <2>1. PICK s \in SessionsFor(r), x \in Event :
              /\ x.id = r.id /\ x.visitor = r.visitor /\ x.ts = r.ts /\ x.session = s
              /\ requests' = requests \ {r} /\ buffer' = buffer \cup {x}
              /\ accepted' = accepted \cup {x}
              /\ UNCHANGED <<now, disk, flush, deletion, nextEvent, faults, crashes>>
    BY <1>1, InsertDoes
  <2>2. /\ \A e \in accepted : e.ts \in Nat /\ e.ts <= now
        /\ x.ts \in Nat /\ now \in Nat /\ now - x.ts <= MaxDelay
        /\ MaxDelay \in Nat /\ SessionTimeout \in Nat
    BY <2>1, EventIngestAssumption DEF TypeOK, Event, Timely
  <2>3. \/ \A e \in accepted : e.session # s
        \/ \E n \in accepted : n.session = s /\ x.ts - n.ts < SessionTimeout
    <3>1. CASE \E n \in Newest(r.visitor) : r.ts - n.ts < SessionTimeout
      <4>1. PICK n \in Newest(r.visitor) : r.ts - n.ts < SessionTimeout
        BY <3>1
      <4>2. PICK m \in Newest(r.visitor) : m.session = s
        BY <3>1, <2>1 DEF SessionsFor
      <4>3. n \in buffer /\ m \in buffer /\ n.ts <= m.ts /\ m.ts <= n.ts
        BY <4>1, <4>2 DEF Newest
      <4>4. m \in accepted /\ m.ts \in Nat /\ n.ts \in Nat
        BY <4>3, <2>2 DEF Numbered
      <4> QED
        BY <2>1, <2>2, <4>1, <4>2, <4>3, <4>4
    <3>2. CASE ~\E n \in Newest(r.visitor) : r.ts - n.ts < SessionTimeout
      <4>1. s = r.id
        BY <3>2 DEF SessionsFor
      <4> QED
        BY <4>1 DEF Numbered
    <3> QED
      BY <3>1, <3>2
  <2> SUFFICES ASSUME NEW e \in accepted', NEW g \in accepted',
                      g.session = e.session, g.ts > e.ts
               PROVE  \E f \in accepted' : f.session = e.session /\ f.ts > e.ts
                                             /\ f.ts - e.ts < SessionTimeout
    BY DEF SessionHasNoGap
  <2>4. CASE e = x
    <3>1. g \in accepted
      BY <2>1, <2>2, <2>4
    <3>2. g.ts - x.ts < SessionTimeout
      BY <2>2, <3>1
    <3> QED
      BY <2>4, <3>2
  <2>5. CASE e \in accepted /\ \E f \in accepted : f.session = e.session /\ f.ts > e.ts
    <3>1. PICK f \in accepted : f.session = e.session /\ f.ts > e.ts
                                  /\ f.ts - e.ts < SessionTimeout
      BY <2>5 DEF SessionHasNoGap
    <3> QED
      BY <2>1, <3>1
  <2>6. CASE e \in accepted /\ ~\E f \in accepted : f.session = e.session /\ f.ts > e.ts
    <3>1. g = x /\ e.session = s
      BY <2>1, <2>6
    <3>2. PICK n \in accepted : n.session = s /\ x.ts - n.ts < SessionTimeout
      BY <2>3, <2>6, <3>1
    <3>3. n.ts <= e.ts
      BY <2>2, <2>6, <3>1, <3>2
    <3>4. x.ts - e.ts < SessionTimeout
      BY <2>2, <2>6, <3>2, <3>3
    <3> QED
      BY <3>1, <3>4
  <2> QED
    BY <2>1, <2>4, <2>5, <2>6
<1>2. CASE ~\E r \in requests : InsertEvent(r)
  <2>1. UNCHANGED accepted
    BY <1>2, FlushDoes DEF Next, ReceiveEvent, RejectEvent, Tick, DeleteRow, DeleteBuffer,
       DeleteCatalog, DeleteDir, DeletionFails, DeleteBufferFails, DeleteCatalogFails, DeleteDirFails,
       Crash, vars
  <2> QED
    BY <2>1 DEF SessionHasNoGap
<1> QED
  BY <1>1, <1>2

(* No session spans a silence of the timeout, whatever is buffered or      *)
(* flushed meanwhile, as long as a request is not held up for as long as   *)
(* the timeout itself between its timestamp and its insert.                *)
(* (SessionHasNoGap of event_ingest.)                                      *)
THEOREM SessionsHold ==
    ASSUME MaxDelay < SessionTimeout
    PROVE  Spec => []SessionHasNoGap
<1>1. Init => TypeOK /\ Numbered /\ Timely /\ SessionHasNoGap
  <2> SUFFICES ASSUME Init PROVE TypeOK /\ Numbered /\ Timely /\ SessionHasNoGap
    OBVIOUS
  <2>1. TypeOK
    BY IdleType DEF Init, TypeOK
  <2>2. Timely /\ SessionHasNoGap
    BY DEF Init, Timely, SessionHasNoGap
  <2> QED
    BY <2>1, <2>2, InitNumbered
<1>2. TypeOK /\ Numbered /\ Timely /\ SessionHasNoGap /\ [Next]_vars
        => TypeOK' /\ Numbered' /\ Timely' /\ SessionHasNoGap'
  BY TypeStays, StepNumbered, StepTimely, StepGap
<1> QED
  BY <1>1, <1>2, PTL DEF Spec

----------------------------------------------------------------------------
(* What a deletion that met nobody has left so far.                        *)
FinalInv ==
    /\ deletion # "no" => ~sourceRow
    /\ deletion \in {"buffer", "catalog", "done"} /\ ~overlap =>
          /\ requests = {} /\ flush.pc = "idle"
          /\ ~cached /\ ~poolOpen /\ buffer = {}
          /\ deletion \in {"catalog", "done"} => listed = remnant.rows
          /\ deletion = "done" => disk = remnant.files
    /\ deletion \in {"no", "row", "buffer"} => remnant.rows = {}
    /\ deletion \in {"no", "row", "buffer", "catalog"} => remnant.files = {}

LEMMA StepFinal == TypeOK /\ FinalInv /\ [Next]_vars => FinalInv'
<1> SUFFICES ASSUME TypeOK, FinalInv, [Next]_vars PROVE FinalInv'
  OBVIOUS
<1> USE DEF buffers, catalog, history, counters, FinalInv
<1>1. ASSUME NEW v \in Visitors, ReceiveEvent(v) PROVE FinalInv'
  BY <1>1 DEF ReceiveEvent
<1>2. ASSUME NEW r \in requests, InsertEvent(r) \/ RejectEvent(r) PROVE FinalInv'
  BY <1>2 DEF InsertEvent, RejectEvent
<1>3. CASE FlushTick \/ FlushStep \/ FlushFails
  <2>1. flush.pc # "idle" \/ poolOpen
    BY <1>3 DEF FlushTick, FlushStep, FlushFails, FlushRead, FlushWrite, FlushRegisterRow,
       FlushRegisterPartition, FlushRegisterFails, FlushDelete
  <2>2. UNCHANGED <<sourceRow, deletion, overlap, remnant>>
    BY <1>3 DEF FlushTick, FlushStep, FlushFails, FlushRead, FlushWrite, FlushRegisterRow,
       FlushRegisterPartition, FlushRegisterFails, FlushDelete
  <2> QED
    BY <2>1, <2>2
<1>4. CASE Tick \/ UNCHANGED vars
  BY <1>4 DEF Tick, vars
<1>5. CASE DeleteRow
  BY <1>5 DEF DeleteRow
<1>6. CASE DeleteBuffer \/ DeleteBufferFails
  <2>1. CASE DeleteBuffer
    BY <2>1 DEF DeleteBuffer
  <2>2. CASE DeleteBufferFails
    BY <2>2 DEF DeleteBufferFails
  <2> QED
    BY <1>6, <2>1, <2>2
<1>7. CASE DeleteCatalog \/ DeleteCatalogFails
  BY <1>7 DEF DeleteCatalog, DeleteCatalogFails, TypeOK
<1>8. CASE DeleteDir \/ DeleteDirFails
  BY <1>8 DEF DeleteDir, DeleteDirFails, TypeOK
<1>9. CASE Crash
  BY <1>9 DEF Crash, Idle
<1> QED
  BY <1>1, <1>2, <1>3, <1>4, <1>5, <1>6, <1>7, <1>8, <1>9 DEF Next, DeletionFails

(* A deletion that no request and no flush overlapped leaves only what its *)
(* failed steps left, and nothing comes back, crash or no crash.           *)
(* (DeletionIsFinal of event_ingest.)                                      *)
THEOREM DeletedForGood == Spec => []DeletionIsFinal
<1>1. Init => TypeOK /\ FinalInv
  <2> SUFFICES ASSUME Init PROVE TypeOK /\ FinalInv
    OBVIOUS
  <2>1. TypeOK
    BY IdleType DEF Init, TypeOK
  <2> QED
    BY <2>1 DEF Init, FinalInv
<1>2. TypeOK /\ FinalInv /\ [Next]_vars => TypeOK' /\ FinalInv'
  BY TypeStays, StepFinal
<1>3. FinalInv => DeletionIsFinal
  BY DEF FinalInv, DeletionIsFinal
<1> QED
  BY <1>1, <1>2, <1>3, PTL DEF Spec

==============================================================================
