--------------------------- MODULE ObserverProofs ---------------------------
(***************************************************************************)
(* Proofs about Observer for any number of observers and observables and   *)
(* any depth of nested notifications.                                      *)
(***************************************************************************)
EXTENDS Observer, TLAPS

\* Every pending call has a sender that lives, a handler whose object lives,
\* and a snapshot no entry of which is visited twice.
CallsSafe ==
    /\ NoDeadCall
    /\ AtMostOnce

\* An observer that stayed attached since the call began has been called or
\* is still to be visited, never both and never neither.
KeptPending ==
    \A d \in 1..depth : \A o \in kept[d] :
       /\ Attached(from[d], o)
       /\ got[d][o] + left[d][o] = 1

\* A sender that is being destroyed has no other call on the stack.
DyingAlone ==
    \A d, e \in 1..depth : dying[d] /\ d # e => from[e] # from[d]

Inv == TypeOK /\ LinksAgree /\ CallsSafe /\ KeptPending /\ DyingAlone

LEMMA InitInv == Init => Inv
  BY NoneAssumption, DepthAssumption, SMT
  DEF Init, Inv, TypeOK, LinksAgree, CallsSafe, NoDeadCall, AtMostOnce, KeptPending,
      DyingAlone, Attached, NoEntries, Levels

\* A call that begins keeps the invariant, whoever makes it.
LEMMA BeginInv ==
    ASSUME Inv, NEW s \in senders, NEW dies \in BOOLEAN, BeginCall(s, dies),
           dies => \A d \in 1..depth : from[d] # s,
           ~Dying(s)
    PROVE  Inv'
<1>1. TypeOK /\ s \in Observables /\ depth + 1 \in Levels /\ depth' = depth + 1
  <2>1. TypeOK
    BY DEF Inv
  <2>2. s \in Observables /\ depth \in 0..MaxDepth
    BY <2>1 DEF TypeOK
  <2>3. depth < MaxDepth /\ depth' = depth + 1
    BY DEF BeginCall
  <2> QED
    BY <2>1, <2>2, <2>3, DepthAssumption DEF Levels
<1>2. TypeOK'
  BY <1>1 DEF Inv, TypeOK, BeginCall, objects, links, Levels, NoEntries
<1>3. LinksAgree'
  BY <1>1 DEF Inv, LinksAgree, Attached, BeginCall, objects, links
<1>4. \A d \in 1..depth' : \/ d \in 1..depth /\ d # depth + 1
                           \/ d = depth + 1
  BY <1>1 DEF TypeOK
<1>5. \A d \in 1..depth : /\ from'[d] = from[d] /\ left'[d] = left[d]
                          /\ running'[d] = running[d] /\ dying'[d] = dying[d]
                          /\ got'[d] = got[d] /\ kept'[d] = kept[d]
  BY <1>1 DEF BeginCall, TypeOK, Levels
<1>6. /\ from'[depth + 1] = s /\ left'[depth + 1] = observers[s]
      /\ running'[depth + 1] = None /\ dying'[depth + 1] = dies
      /\ got'[depth + 1] = NoEntries
      /\ kept'[depth + 1] = {o \in Observers : Attached(s, o)}
  BY <1>1 DEF BeginCall, TypeOK, Levels
<1>7. CallsSafe'
  <2>1. NoDeadCall'
    BY <1>1, <1>4, <1>5, <1>6 DEF Inv, CallsSafe, NoDeadCall, BeginCall, objects
  <2>2. AtMostOnce'
    <3>1. \A o \in Observers : got'[depth + 1][o] + left'[depth + 1][o] <= 1
      BY <1>1, <1>6 DEF Inv, LinksAgree, NoEntries, TypeOK
    <3>2. \A d \in 1..depth, o \in Observers : got'[d][o] + left'[d][o] <= 1
      BY <1>1, <1>5 DEF Inv, CallsSafe, AtMostOnce
    <3> QED
      BY <1>4, <3>1, <3>2 DEF AtMostOnce
  <2> QED
    BY <2>1, <2>2 DEF CallsSafe
<1>8. KeptPending'
  <2>1. \A d \in 1..depth : \A o \in kept'[d] :
           /\ observers'[from'[d]][o] > 0
           /\ got'[d][o] + left'[d][o] = 1
    <3>1. observers' = observers
      BY DEF BeginCall, links
    <3> QED
      BY <1>5, <3>1 DEF Inv, KeptPending, Attached
  <2>2. \A o \in kept'[depth + 1] :
           /\ observers'[from'[depth + 1]][o] > 0
           /\ got'[depth + 1][o] + left'[depth + 1][o] = 1
    BY <1>1, <1>6 DEF Inv, LinksAgree, NoEntries, Attached, BeginCall, links, TypeOK
  <2> QED
    BY <1>4, <2>1, <2>2 DEF KeptPending, Attached
<1>9. DyingAlone'
  <2> SUFFICES ASSUME NEW d \in 1..depth', NEW e \in 1..depth', dying'[d], d # e
               PROVE  from'[e] # from'[d]
    BY DEF DyingAlone
  <2>1. CASE d \in 1..depth /\ e \in 1..depth
    BY <2>1, <1>1, <1>5 DEF Inv, DyingAlone
  <2>2. CASE d = depth + 1 /\ e \in 1..depth
    BY <2>2, <1>1, <1>5, <1>6
  <2>3. CASE d \in 1..depth /\ e = depth + 1
    BY <2>3, <1>1, <1>5, <1>6 DEF Dying
  <2> QED
    BY <1>4, <2>1, <2>2, <2>3
<1> QED
  BY <1>2, <1>3, <1>7, <1>8, <1>9 DEF Inv

\* The top call returns: the calls below it are as they were.
LEMMA ReturnInv ==
    ASSUME Inv, depth > 0, Return, UNCHANGED <<objects, links, from, left, running>>
    PROVE  Inv'
<1>1. TypeOK /\ depth \in Levels /\ depth' = depth - 1 /\ depth' \in 0..MaxDepth
  <2>1. TypeOK
    BY DEF Inv
  <2>2. depth \in 0..MaxDepth
    BY <2>1 DEF TypeOK
  <2>3. depth' = depth - 1
    BY DEF Return
  <2> QED
    BY <2>1, <2>2, <2>3, DepthAssumption DEF Levels
<1>2. TypeOK'
  BY <1>1 DEF TypeOK, Return, objects, links, Levels, NoEntries
<1>3. \A d \in 1..depth' : /\ d \in 1..depth /\ dying'[d] = dying[d]
                           /\ got'[d] = got[d] /\ kept'[d] = kept[d]
  <2>1. \A d \in 1..depth' : d \in 1..depth /\ d \in Levels /\ d # depth
    BY <1>1, DepthAssumption DEF Levels
  <2> QED
    BY <1>1, <2>1 DEF Return, TypeOK
<1> QED
  BY <1>1, <1>2, <1>3
  DEF Inv, LinksAgree, CallsSafe, NoDeadCall, AtMostOnce, KeptPending, DyingAlone,
      Attached, objects, links

\* Every step of notify, attach, detach and the destructors keeps the invariant.
THEOREM InvStep == Inv /\ [Next]_vars => Inv'
<1> SUFFICES ASSUME Inv, [Next]_vars PROVE Inv'
  OBVIOUS
<1> USE NoneAssumption, DepthAssumption
<1>1. ASSUME NEW o \in Observers, NewObserver(o) PROVE Inv'
  BY <1>1 DEF Inv, TypeOK, LinksAgree, CallsSafe, NoDeadCall, AtMostOnce, KeptPending,
              DyingAlone, Attached, NewObserver, calls
<1>2. ASSUME NEW s \in Observables, NewObservable(s) PROVE Inv'
  BY <1>2 DEF Inv, TypeOK, LinksAgree, CallsSafe, NoDeadCall, AtMostOnce, KeptPending,
              DyingAlone, Attached, NewObservable, calls, NoEntries
<1>3. ASSUME NEW s \in Observables, NEW o \in Observers, Attach(s, o) PROVE Inv'
  BY <1>3 DEF Inv, TypeOK, LinksAgree, CallsSafe, NoDeadCall, AtMostOnce, KeptPending,
              DyingAlone, Attached, NotYetAttached, Attach, objects, calls
<1>4. ASSUME NEW s \in Observables, NEW o \in Observers, Detach(s, o) PROVE Inv'
  <2>1. TypeOK'
    BY <1>4 DEF Inv, TypeOK, LinksAgree, Attached, Detach, BackLinkDropped, KeptWithout,
                objects, calls
  <2>2. LinksAgree'
    BY <1>4 DEF Inv, TypeOK, LinksAgree, Attached, Detach, BackLinkDropped, objects
  <2>3. CallsSafe' /\ DyingAlone'
    BY <1>4 DEF Inv, CallsSafe, NoDeadCall, AtMostOnce, DyingAlone, Detach, objects, calls
  <2>4. KeptPending'
    BY <1>4 DEF Inv, TypeOK, KeptPending, Attached, Detach, KeptWithout, calls, Levels
  <2> QED
    BY <2>1, <2>2, <2>3, <2>4 DEF Inv
<1>5. ASSUME NEW o \in Observers, DestroyObserver(o) PROVE Inv'
  <2>1. observers' = [s \in Observables |-> [observers[s] EXCEPT ![o] = 0]]
    <3>1. \A s \in Observables : /\ observers[s] \in [Observers -> Nat]
                                 /\ observers[s][o] - observed[o][s] = 0
      BY DEF Inv, TypeOK, LinksAgree
    <3>2. observers' = [s \in Observables |->
                           [observers[s] EXCEPT ![o] = @ - observed[o][s]]]
      BY <1>5 DEF DestroyObserver, EntriesWithout
    <3>3. \A s \in Observables : [observers[s] EXCEPT ![o] = @ - observed[o][s]]
                                = [observers[s] EXCEPT ![o] = 0]
      BY <3>1
    <3> QED
      BY <3>2, <3>3
  <2>2. TypeOK'
    BY <1>5, <2>1 DEF Inv, TypeOK, DestroyObserver, calls
  <2>3. LinksAgree'
    BY <1>5, <2>1 DEF Inv, TypeOK, LinksAgree, Attached, DestroyObserver
  <2>4. CallsSafe' /\ DyingAlone'
    BY <1>5 DEF Inv, CallsSafe, NoDeadCall, AtMostOnce, DyingAlone, DestroyObserver, calls
  <2>5. KeptPending'
    BY <1>5, <2>1 DEF Inv, TypeOK, KeptPending, Attached, DestroyObserver, calls, Levels
  <2> QED
    BY <2>2, <2>3, <2>4, <2>5 DEF Inv
<1>6. ASSUME NEW s \in Observables, Notify(s) PROVE Inv'
  BY <1>6, BeginInv DEF Notify
<1>7. ASSUME NEW s \in Observables, DestroyObservable(s) PROVE Inv'
  BY <1>7, BeginInv DEF DestroyObservable, Dying
<1>8. ASSUME NEW o \in Observers, Visit(o) PROVE Inv'
  <2>1. /\ TypeOK /\ depth \in Levels /\ depth \in 1..depth
        /\ \A d \in 1..depth : d \in Levels
        /\ running[depth] = None /\ left[depth][o] > 0
        /\ UNCHANGED <<alive, senders, observers, observed, depth, from, dying, kept>>
    <3>1. TypeOK /\ depth > 0
      BY <1>8 DEF Inv, Visit
    <3>2. depth \in 0..MaxDepth
      BY <3>1 DEF TypeOK
    <3> QED
      BY <1>8, <3>1, <3>2 DEF Visit, Levels, objects, links
  <2>2. LinksAgree' /\ DyingAlone'
    BY <2>1 DEF Inv, LinksAgree, DyingAlone, Attached
  <2>3. CASE StillAttached(from[depth], o)
    <3>1. /\ left' = [left EXCEPT ![depth][o] = @ - 1]
          /\ running' = [running EXCEPT ![depth] = o]
          /\ got' = [got EXCEPT ![depth][o] = @ + 1]
      BY <1>8, <2>3 DEF Visit
    <3>2. TypeOK'
      BY <2>1, <3>1 DEF TypeOK
    <3>3. o \in alive
      BY <2>1, <2>3 DEF Inv, TypeOK, LinksAgree, Attached, StillAttached
    <3>4. NoDeadCall'
      BY <2>1, <3>1, <3>3 DEF Inv, TypeOK, CallsSafe, NoDeadCall
    <3>5. \A d \in 1..depth, p \in Observers : got'[d][p] + left'[d][p] = got[d][p] + left[d][p]
      BY <2>1, <3>1 DEF TypeOK
    <3>6. AtMostOnce'
      BY <2>1, <3>5 DEF Inv, CallsSafe, AtMostOnce
    <3>7. KeptPending'
      BY <2>1, <3>5 DEF Inv, TypeOK, KeptPending, Attached
    <3> QED
      BY <2>2, <3>2, <3>4, <3>6, <3>7 DEF Inv, CallsSafe
  <2>4. CASE ~StillAttached(from[depth], o)
    <3>1. /\ left' = [left EXCEPT ![depth] = [left[depth] EXCEPT ![o] = @ - 1]]
          /\ UNCHANGED <<running, got>>
      BY <1>8, <2>4 DEF Visit, SkipOne
    <3>2. TypeOK'
      BY <2>1, <3>1 DEF TypeOK
    <3>3. NoDeadCall'
      BY <2>1, <3>1 DEF Inv, CallsSafe, NoDeadCall
    <3>4. \A d \in 1..depth, p \in Observers : left'[d][p] <= left[d][p]
      BY <2>1, <3>1 DEF TypeOK
    <3>5. AtMostOnce'
      BY <2>1, <3>1, <3>2, <3>4 DEF Inv, TypeOK, CallsSafe, AtMostOnce
    <3>6. o \notin kept[depth]
      BY <2>1, <2>4 DEF Inv, KeptPending, StillAttached
    <3>7. \A d \in 1..depth : \A p \in kept[d] : left'[d][p] = left[d][p]
      BY <2>1, <3>1, <3>6 DEF TypeOK
    <3>8. KeptPending'
      BY <2>1, <3>1, <3>7 DEF Inv, KeptPending, Attached
    <3> QED
      BY <2>2, <3>2, <3>3, <3>5, <3>8 DEF Inv, CallsSafe
  <2> QED
    BY <2>3, <2>4
<1>9. ASSUME HandlerReturns PROVE Inv'
  <2>1. /\ running' = [running EXCEPT ![depth] = None]
        /\ UNCHANGED <<alive, senders, observers, observed, depth, from, left, dying, got, kept>>
    BY <1>9 DEF HandlerReturns, objects, links
  <2>2. TypeOK'
    BY <2>1 DEF Inv, TypeOK
  <2>3. NoDeadCall'
    <3>1. \A d \in 1..depth : d \in Levels
      BY DEF Inv, TypeOK, Levels
    <3>2. \A d \in 1..depth : running'[d] = None \/ running'[d] = running[d]
      BY <2>1, <3>1 DEF Inv, TypeOK
    <3> QED
      BY <2>1, <3>2 DEF Inv, CallsSafe, NoDeadCall
  <2> QED
    BY <2>1, <2>2, <2>3 DEF Inv, LinksAgree, CallsSafe, AtMostOnce, KeptPending, DyingAlone,
                            Attached
<1>10. ASSUME EndNotify PROVE Inv'
  BY <1>10, ReturnInv DEF EndNotify, AllVisited
<1>11. ASSUME EndDestroy PROVE Inv'
  <2> DEFINE s == from[depth]
  <2>1. /\ TypeOK /\ depth \in Levels /\ depth' = depth - 1
        /\ s \in Observables
    BY <1>11 DEF Inv, TypeOK, EndDestroy, AllVisited, Return, Levels
  <2>2. /\ observers' = [observers EXCEPT ![s] = NoEntries]
        /\ observed' = [o \in Observers |-> [observed[o] EXCEPT ![s] = 0]]
    BY <1>11, <2>1 DEF Inv, TypeOK, LinksAgree, EndDestroy
  <2>9. /\ senders' = senders \ {s} /\ UNCHANGED <<alive, from, left, running>>
        /\ dying' = [dying EXCEPT ![depth] = FALSE]
        /\ got' = [got EXCEPT ![depth] = NoEntries]
        /\ kept' = [kept EXCEPT ![depth] = {}]
        /\ NoEntries \in [Observers -> Nat]
    BY <1>11 DEF EndDestroy, Return, NoEntries
  <2>3. TypeOK'
    <3>1. /\ observers' \in [Observables -> [Observers -> Nat]]
          /\ observed' \in [Observers -> [Observables -> Nat]]
      BY <2>1, <2>2, <2>9 DEF TypeOK
    <3>2. depth' \in 0..MaxDepth
      BY <2>1 DEF Levels
    <3>3. /\ dying' \in [Levels -> BOOLEAN] /\ got' \in [Levels -> [Observers -> Nat]]
          /\ kept' \in [Levels -> SUBSET Observers]
      BY <2>1, <2>9 DEF TypeOK
    <3> QED
      BY <2>1, <2>9, <3>1, <3>2, <3>3 DEF TypeOK
  <2>4. LinksAgree'
    BY <1>11, <2>1, <2>2 DEF Inv, TypeOK, LinksAgree, Attached, EndDestroy, NoEntries
  <2>5. \A d \in 1..depth' : /\ d \in 1..depth /\ dying'[d] = dying[d]
                             /\ got'[d] = got[d] /\ kept'[d] = kept[d]
                             /\ from[d] # s
    <3>1. dying[depth] /\ Return /\ depth \in 1..depth
      BY <1>11, <2>1 DEF EndDestroy, Levels
    <3>2. \A d \in 1..depth' : d \in 1..depth /\ d \in Levels /\ d # depth
      BY <2>1 DEF Levels
    <3>3. \A d \in 1..depth' : from[d] # s
      BY <3>1, <3>2 DEF Inv, DyingAlone
    <3> QED
      BY <2>1, <3>1, <3>2, <3>3 DEF TypeOK, Return
  <2>6. CallsSafe' /\ DyingAlone'
    BY <1>11, <2>1, <2>5
    DEF Inv, CallsSafe, NoDeadCall, AtMostOnce, DyingAlone, EndDestroy
  <2>7. KeptPending'
    <3>1. \A d \in 1..depth' : from[d] \in Observables /\ observers'[from[d]] = observers[from[d]]
      <4>1. \A d \in 1..depth' : d \in Levels /\ from[d] # s
        BY <2>1, <2>5 DEF Levels
      <4> QED
        BY <2>1, <2>2, <4>1 DEF TypeOK
    <3>2. from' = from /\ left' = left
      BY <2>9
    <3>3. ASSUME NEW d \in 1..depth', NEW o \in kept'[d]
          PROVE  observers'[from'[d]][o] > 0 /\ got'[d][o] + left'[d][o] = 1
      <4>1. d \in 1..depth /\ o \in kept[d] /\ got'[d] = got[d]
        BY <2>5
      <4>2. observers[from[d]][o] > 0 /\ got[d][o] + left[d][o] = 1
        BY <4>1 DEF Inv, KeptPending, Attached
      <4> QED
        BY <3>1, <3>2, <4>1, <4>2
    <3> QED
      BY <3>3 DEF KeptPending, Attached
  <2> QED
    BY <2>3, <2>4, <2>6, <2>7 DEF Inv
<1>12. ASSUME UNCHANGED vars PROVE Inv'
  BY <1>12 DEF Inv, TypeOK, LinksAgree, CallsSafe, NoDeadCall, AtMostOnce, KeptPending,
               DyingAlone, Attached, vars, objects, links, calls
<1> QED
  BY <1>1, <1>2, <1>3, <1>4, <1>5, <1>6, <1>7, <1>8, <1>9, <1>10, <1>11, <1>12 DEF Next

\* The invariant, of which the theorems below are parts, always holds.
THEOREM Safe == Spec => []Inv
<1>1. Init => Inv
  BY InitInv
<1>2. Inv /\ [Next]_vars => Inv'
  BY InvStep
<1> QED
  BY <1>1, <1>2, PTL DEF Spec

\* Every variable keeps its type; in particular no counter of list entries
\* goes below zero, i.e. neither list erases an entry it does not hold.
THEOREM Typing == Spec => []TypeOK
  BY Safe, PTL DEF Inv

\* Both ends of every link of Observable::attach and detach always agree.
THEOREM Links == Spec => []LinksAgree
  BY Safe, PTL DEF Inv

\* However deep notifications nest and whatever their handlers attach,
\* detach, create and destroy, Observable::notify calls no dead observer.
THEOREM NoUseAfterFree == Spec => []NoDeadCall
  BY Safe, PTL DEF Inv, CallsSafe

\* One event reaches one observer at most once.
THEOREM Once == Spec => []AtMostOnce
  BY Safe, PTL DEF Inv, CallsSafe

\* A notification that ends has called every observer that stayed attached.
THEOREM Complete == Spec => []NoneSkipped
<1>1. Inv => NoneSkipped
  <2> SUFFICES ASSUME Inv, AllVisited, NEW o \in kept[depth] PROVE got[depth][o] = 1
    BY DEF NoneSkipped
  <2>1. depth \in 1..depth /\ depth \in Levels
    BY DepthAssumption DEF Inv, TypeOK, AllVisited, Levels
  <2>2. o \in Observers /\ got[depth][o] \in Nat
    BY <2>1 DEF Inv, TypeOK
  <2>3. left[depth][o] = 0
    BY <2>2 DEF AllVisited, NoEntries
  <2> QED
    BY <2>1, <2>2, <2>3 DEF Inv, KeptPending
<1> QED
  BY <1>1, Safe, PTL
=============================================================================
