--------------------------- MODULE BakeQueueProofs ---------------------------
(***************************************************************************)
(* The bake queue is safe for any number of calls and checkouts.           *)
(***************************************************************************)
EXTENDS BakeQueue, TLAPS

Busy == {"boot", "lock", "bake", "record"}

\* What the scope lock's holders know about the binding it protects.
BoundOK ==
  /\ lock = "boot" <=> boot = "building"
  /\ lock = "boot" => bound = Boot
  /\ lock = "baker" => bound = job
  /\ \A c \in Clients : lock = c => bound = target[c]

\* What the baker and the calls know about what they queued and popped.
JobOK ==
  /\ job # NULL <=> baker \in Busy
  /\ \A i \in 1..Len(queue) : queue[i] \in accepted
  /\ job # NULL => job \in accepted
  /\ baker = "dead" => deaths > 0
  /\ \A c \in Clients : cpc[c] = "append" /\ target[c] = Boot => built

IInv ==
  /\ TypeOK
  /\ ScopeRestored
  /\ BoundOK
  /\ JobOK
  /\ NoLostWake
  /\ BakedWhereAsked
  /\ ConsentKept
  /\ StatusHonest

USE DEF Stores, Holders

LEMMA Initial == Init => IInv
<1> SUFFICES ASSUME Init PROVE IInv
  OBVIOUS
<1> USE BakeAssumption DEF Init
<1>0. queue \in Seq(Stores) /\ broken \subseteq Foreign
      /\ html \subseteq Stores /\ accepted \subseteq Stores
  OBVIOUS
<1>1. TypeOK
  BY <1>0 DEF TypeOK
<1>2. ScopeRestored /\ BoundOK
  BY DEF ScopeRestored, BoundOK
<1>3. JobOK
  BY DEF JobOK, Busy
<1>4. NoLostWake /\ BakedWhereAsked /\ ConsentKept /\ StatusHonest
  BY DEF NoLostWake, BakedWhereAsked, ConsentKept, StatusHonest
<1> QED
  BY <1>1, <1>2, <1>3, <1>4 DEF IInv

LEMMA Inductive == IInv /\ [Next]_vars => IInv'
<1> SUFFICES ASSUME IInv, [Next]_vars PROVE IInv'
  OBVIOUS
<1> USE BakeAssumption
    DEF IInv, TypeOK, ScopeRestored, BoundOK, JobOK, Busy, NoLostWake, Draining,
        BakedWhereAsked, ConsentKept, StatusHonest,
        vars, state, bakery, client, scope, hist, bounds
<1>1. ASSUME NEW c \in Clients, NEW s \in Stores, Call(c, s) PROVE IInv'
  BY <1>1 DEF Call
<1>2. ASSUME NEW c \in Clients, Gate(c) PROVE IInv'
  BY <1>2 DEF Gate, Ready
<1>3. ASSUME NEW c \in Clients, GateFatal(c) PROVE IInv'
  BY <1>3 DEF GateFatal, Fault
<1>4. ASSUME NEW c \in Clients, Enter(c) PROVE IInv'
  BY <1>4 DEF Enter
<1>5. ASSUME NEW c \in Clients, Leave(c) PROVE IInv'
  BY <1>5 DEF Leave, Fault, Unbuilt
<1>6. ASSUME NEW c \in Clients, Enqueue(c) PROVE IInv'
  BY <1>6 DEF Enqueue
<1>7. ASSUME NEW c \in Clients, Wake(c) PROVE IInv'
  BY <1>7 DEF Wake
<1>8. ASSUME NEW c \in Clients, StartBaker(c) PROVE IInv'
  BY <1>8 DEF StartBaker
<1>9. CASE Woken
  BY <1>9 DEF Woken
<1>10. CASE Clear
  BY <1>10 DEF Clear
<1>11. CASE Drained
  BY <1>11 DEF Drained
<1>12. CASE Pop
  BY <1>12 DEF Pop
<1>13. CASE AwaitBoot
  BY <1>13, ZenonT(60) DEF AwaitBoot, Ready
<1>14. CASE BakeStart
  BY <1>14 DEF BakeStart
<1>15. CASE BakerDies
  BY <1>15 DEF BakerDies
<1>16. CASE BakeEnd
  <2>0. html' \subseteq Stores /\ fails' \in Nat
    BY <1>16 DEF BakeEnd, Fault
  <2>1. TypeOK'
    BY <1>16, <2>0 DEF BakeEnd
  <2>2. ScopeRestored'
    BY <1>16 DEF BakeEnd, Fault
  <2>3. BoundOK'
    BY <1>16 DEF BakeEnd, Fault
  <2>4. JobOK'
    BY <1>16 DEF BakeEnd, Fault
  <2>5. NoLostWake'
    BY <1>16 DEF BakeEnd, Fault
  <2>6. (BakedWhereAsked /\ ConsentKept /\ StatusHonest)'
    BY <1>16 DEF BakeEnd, Fault
  <2> QED
    BY <2>1, <2>2, <2>3, <2>4, <2>5, <2>6
<1>17. CASE Record
  BY <1>17 DEF Record
<1>18. CASE BootLeaves
  <2>1. TypeOK'
    BY <1>18 DEF BootLeaves
  <2>2. ScopeRestored'
    BY <1>18 DEF BootLeaves
  <2>3. BoundOK'
    BY <1>18 DEF BootLeaves
  <2>4. JobOK'
    BY <1>18 DEF BootLeaves
  <2>5. NoLostWake'
    BY <1>18 DEF BootLeaves
  <2>6. (BakedWhereAsked /\ ConsentKept /\ StatusHonest)'
    BY <1>18 DEF BootLeaves
  <2> QED
    BY <2>1, <2>2, <2>3, <2>4, <2>5, <2>6
<1>19. CASE BootOpens
  BY <1>19 DEF BootOpens
<1>20. CASE ToolLeave
  <2>1. TypeOK'
    BY <1>20, ZenonT(60) DEF ToolLeave
  <2>2. ScopeRestored'
    BY <1>20 DEF ToolLeave
  <2>3. BoundOK'
    BY <1>20 DEF ToolLeave
  <2>4. JobOK'
    BY <1>20 DEF ToolLeave
  <2>5. NoLostWake'
    BY <1>20 DEF ToolLeave
  <2>6. (BakedWhereAsked /\ ConsentKept /\ StatusHonest)'
    BY <1>20 DEF ToolLeave
  <2> QED
    BY <2>1, <2>2, <2>3, <2>4, <2>5, <2>6
<1>21. ASSUME NEW s \in Stores, ToolEnter(s) PROVE IInv'
  BY <1>21 DEF ToolEnter
<1>22. ASSUME NEW s \in Foreign, Break(s) PROVE IInv'
  BY <1>22 DEF Break
<1>23. ASSUME NEW s \in Foreign, Mend(s) PROVE IInv'
  BY <1>23 DEF Mend
<1>24. CASE UNCHANGED vars
  BY <1>24
<1> QED
  BY <1>1, <1>2, <1>3, <1>4, <1>5, <1>6, <1>7, <1>8, <1>9, <1>10, <1>11, <1>12, <1>13,
     <1>14, <1>15, <1>16, <1>17, <1>18, <1>19, <1>20, <1>21, <1>22, <1>23, <1>24
     DEF Next, Visualize, BakeLoop, Others

LEMMA Invariant == Spec => []IInv
BY Initial, Inductive, PTL DEF Spec

\* The type invariant of the bake queue.
THEOREM BakeTyped == Spec => []TypeOK
<1>1. IInv => TypeOK
  BY DEF IInv
<1> QED
  BY <1>1, Invariant, PTL

\* While no baker has died, no request sleeps in the queue without somebody about
\* to wake the baker (serverbake.visualize, _start_baker, _bake_loop).
THEOREM WakeupsKept == Spec => []NoLostWake
<1>1. IInv => NoLostWake
  BY DEF IInv
<1> QED
  BY <1>1, Invariant, PTL

\* Whenever the scope lock is free the config is the boot's (config_scope).
THEOREM ScopeComesBack == Spec => []ScopeRestored
<1>1. IInv => ScopeRestored
  BY DEF IInv
<1> QED
  BY <1>1, Invariant, PTL

\* Bakes land only in stores a bake was acknowledged for (_bake_loop's arms).
THEOREM BakesWhereAsked == Spec => []BakedWhereAsked
<1>1. IInv => BakedWhereAsked
  BY DEF IInv
<1> QED
  BY <1>1, Invariant, PTL

\* The boot store is not queued before the user consented to build it (visualize's
\* unbuilt guard under the lock).
THEOREM NoBakeWithoutConsent == Spec => []ConsentKept
<1>1. IInv => ConsentKept
  BY DEF IInv
<1> QED
  BY <1>1, Invariant, PTL

\* The status resource says "running" exactly while the baker has a target, as long
\* as none died (_BAKE_STATE).
THEOREM HonestStatus == Spec => []StatusHonest
<1>1. IInv => StatusHonest
  BY DEF IInv
<1> QED
  BY <1>1, Invariant, PTL

\* A reachable step of the server is a step of the abstract queue or leaves it as it
\* is, so that the bakes run one at a time in the order they were acknowledged.
THEOREM BakeIsFifo == Spec => ImplementsFifo
<1>1. Init => Fifo!Init
  BY DEF Init, Fifo!Init
<1>2. IInv /\ [Next]_vars => [Fifo!Next]_(Fifo!vars)
  <2> SUFFICES ASSUME IInv, [Next]_vars PROVE [Fifo!Next]_(Fifo!vars)
    OBVIOUS
  <2> USE BakeAssumption
      DEF IInv, TypeOK, JobOK, Busy, Fifo!vars, vars, state, bakery, client, scope, hist, bounds
  <2>1. ASSUME NEW c \in Clients, Enqueue(c) PROVE \E s \in Stores : Fifo!Accept(s)
    BY <2>1 DEF Enqueue, Fifo!Accept
  <2>2. CASE Pop
    BY <2>2 DEF Pop, Fifo!Next, Fifo!Start
  <2>3. CASE BakerDies \/ Record
    BY <2>3 DEF BakerDies, Record, Fifo!Next, Fifo!Finish
  <2>4. ASSUME NEW c \in Clients, Visualize(c), ~Enqueue(c) PROVE UNCHANGED <<queue, job>>
    BY <2>4 DEF Visualize, Call, Gate, GateFatal, Enter, Leave, Wake, StartBaker
  <2>5. ASSUME BakeLoop, ~Pop, ~BakerDies, ~Record PROVE UNCHANGED <<queue, job>>
    BY <2>5 DEF BakeLoop, Woken, Clear, Drained, AwaitBoot, BakeStart, BakeEnd
  <2>6. CASE Others
    BY <2>6 DEF Others, BootLeaves, BootOpens, ToolEnter, ToolLeave, Break, Mend
  <2>7. CASE UNCHANGED vars
    BY <2>7
  <2> QED
    BY <2>1, <2>2, <2>3, <2>4, <2>5, <2>6, <2>7 DEF Next, Fifo!Next
<1> QED
  BY <1>1, <1>2, Invariant, PTL DEF Spec, ImplementsFifo, Fifo!Spec
==============================================================================
