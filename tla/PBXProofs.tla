------------------------------- MODULE PBXProofs -------------------------------
(***************************************************************************)
(* Proofs about the server of hw5.                                         *)
(*                                                                         *)
(* The first part is about tu.c at the grain of its mutexes (module TU),   *)
(* for any number of TUs and any assignment of extensions.  The inductive  *)
(* invariant IInv is preserved by each action; every action is a step of   *)
(* the abstract exchange (module Calls), or changes nothing there.         *)
(*                                                                         *)
(* The second part is about the server of module PBX, for any number of    *)
(* clients, descriptors and commands.                                      *)
(*                                                                         *)
(* MutexInv, the types of the places and the owner of the registry's       *)
(* mutex, is inductive for the whole program, shutdown included.  Serving, *)
(* that ServerInv holds until SIGHUP arrives, is inductive beside it: the  *)
(* lemmas show for every action of server.c and pbx.c that it keeps        *)
(* ServerInv and is no step of the abstract exchange, and for the steps of *)
(* tu.c they use the lemmas of the first part, which ask for Core and      *)
(* Counted only and hold in the server as well.                            *)
(*                                                                         *)
(* The last results are those of a server that is not sent SIGHUP.  Once   *)
(* it is, pbx_unregister may find another TU's entry, or a registry that   *)
(* has been freed, and they no longer hold.                                *)
(***************************************************************************)
EXTENDS PBX, TLAPS

USE NoTUAssumption, ThreadAssumption

-----------------------------------------------------------------------------
(* The part of the invariant that does not depend on which TUs exist, are  *)
(* registered or have an open connection: module PBX keeps it as well.     *)
Core == TypeOK /\ LocksHeld /\ FramesOK /\ C!CallsOK

(* A TU that has a peer has a reference to give up. *)
Counted == \A t \in TU : chat[t] # NoTU => ref[t] > 0

(* What one thread's step must leave alone. *)

(* A step of p moves nobody else's frame. *)
OnlyMoves(p) ==
    \A q \in Thread \ {p} : /\ pc'[q] = pc[q] /\ op'[q] = op[q]
                            /\ tu'[q] = tu[q] /\ target'[q] = target[q]

(* A step of p takes only free mutexes and releases only its own. *)
MutexStep(p) ==
    \A t \in TU : \/ mutex'[t] = mutex[t] /\ (t \in Held(p)' <=> t \in Held(p))
                  \/ mutex[t] = NoThread /\ mutex'[t] = p /\ t \in Held(p)'
                  \/ mutex[t] = p /\ mutex'[t] = NoThread /\ t \notin Held(p)'

(* A thread whose next step relies on its TU being as it left it. *)
Relies(q) ==
    \/ pc[q] \in {"body", "hangup_finish"}
    \/ pc[q] \in {"lock_first", "lock_second", "locked"} /\ op[q] = "dial"

(* A step of p leaves such TUs alone. *)
Undisturbed(p) ==
    \A q \in TU \ {p} : Relies(q) => /\ chat'[q] = chat[q]
                                     /\ state'[q] = state[q]
                                     /\ chatLocked'[q] = chatLocked[q]

(* The peers that clients see: a call has ended before hangup_finish.      *)
PeerIsChat ==
    Peer = [t \in TU |-> IF pc[t] = "hangup_finish" THEN NoTU ELSE chat[t]]

LEMMA PeerLemma == TypeOK /\ FramesOK => PeerIsChat
BY DEF TypeOK, FramesOK, FrameOK, Peer, PeerIsChat

(* Mutual exclusion is preserved by a step that takes what is free and     *)
(* releases what is its own.                                               *)
LEMMA LocksHeldStep ==
    ASSUME LocksHeld, NEW p \in Thread, OnlyMoves(p), MutexStep(p), ext' = ext
    PROVE  LocksHeld'
<1> SUFFICES ASSUME NEW t \in TU, NEW q \in Thread
             PROVE  mutex'[t] = q <=> t \in Held(q)'
  BY DEF LocksHeld
<1>1. CASE q = p
  BY <1>1 DEF LocksHeld, MutexStep
<1>2. CASE q # p
  <2>1. Held(q)' = Held(q)
    BY <1>2 DEF OnlyMoves, Held, First
  <2>2. mutex'[t] = q <=> mutex[t] = q
    BY <1>2 DEF MutexStep
  <2> QED BY <2>1, <2>2 DEF LocksHeld
<1> QED BY <1>1, <1>2

(* The other threads' frames stay correct if what they rely on stays.      *)
LEMMA FramesStep ==
    ASSUME FramesOK, NEW p \in Thread, OnlyMoves(p), Undisturbed(p), FrameOK(p)'
    PROVE  FramesOK'
<1> SUFFICES ASSUME NEW q \in Thread, q # p PROVE FrameOK(q)'
  BY DEF FramesOK
<1>1. FrameOK(q)
  BY DEF FramesOK
<1>2. pc'[q] = pc[q] /\ op'[q] = op[q] /\ tu'[q] = tu[q] /\ target'[q] = target[q]
  BY DEF OnlyMoves
<1>3. Relies(q) => chat'[q] = chat[q] /\ state'[q] = state[q] /\ chatLocked'[q] = chatLocked[q]
  BY <1>1 DEF Undisturbed, FrameOK, Relies
<1> QED BY <1>1, <1>2, <1>3 DEF FrameOK, Relies

(* A thread relies on nothing about a TU that another thread has locked,   *)
(* if that TU is on hook or in a call.                                     *)
LEMMA NotRelying ==
    ASSUME Core, NEW p \in TU, NEW u \in TU, u # p, u \in Held(p),
           chat[u] # NoTU \/ state[u] = "ON_HOOK"
    PROVE  ~Relies(u)
<1>1. FrameOK(u) /\ u \in Thread /\ p \in Thread
  BY DEF Core, FramesOK
<1>2. u \notin Held(u)
  BY <1>1 DEF Core, LocksHeld
<1> QED BY <1>1, <1>2 DEF Relies, Held, FrameOK

-----------------------------------------------------------------------------
(* Steps that only move a frame, lock or unlock. *)

(* Nothing that a client can see has changed. *)
Silent ==
    /\ UNCHANGED <<state, chat, ref, wiring, mem, clientVars>>
    /\ \A t \in TU : pc'[t] = "hangup_finish" <=> pc[t] = "hangup_finish"

LEMMA SilentStep ==
    ASSUME Core, Silent, TypeOK', FramesOK', LocksHeld'
    PROVE  Core' /\ UNCHANGED C!vars
<1>1. Peer' = Peer
  <2>1. PeerIsChat'
    BY PeerLemma, PTL
  <2>2. PeerIsChat
    BY PeerLemma DEF Core
  <2> QED BY <2>1, <2>2 DEF Silent, PeerIsChat
<1>2. UNCHANGED C!vars
  BY <1>1 DEF Silent, C!vars
<1>3. C!CallsOK'
  BY <1>1 DEF Silent, Core, C!CallsOK, C!TypeOK, C!PeersMutual, C!EndsAgree
<1> QED BY <1>2, <1>3 DEF Core

LEMMA SilentAction ==
    ASSUME Core, NEW p \in Thread, TypeOK', OnlyMoves(p), MutexStep(p),
           Undisturbed(p), FrameOK(p)', Silent
    PROVE  Core' /\ UNCHANGED C!vars
<1>1. LocksHeld'
  BY LocksHeldStep DEF Core, Silent, wiring
<1>2. FramesOK'
  BY FramesStep DEF Core
<1> QED BY <1>1, <1>2, SilentStep

LEMMA CommandOK ==
    ASSUME Core, NEW p \in TU, Command(p)
    PROVE  Core' /\ UNCHANGED C!vars
<1> USE DEF tuVars
<1>1. PICK o \in {"pickup", "hangup", "dial", "chat"},
           l \in {"lock_peek", "dial_peek", "chat_peek"}, u \in TU \cup {NoTU} :
        /\ Call(p, o, l, p, u)
        /\ l = "lock_peek" => o \in {"pickup", "hangup"}
        /\ l = "dial_peek" => o = "dial"
        /\ l = "chat_peek" => o = "chat"
  BY DEF Command
<1>2. TypeOK'
  BY <1>1 DEF Core, TypeOK, Command, Call, Label, Op, wiring, clientVars
<1>3. OnlyMoves(p) /\ MutexStep(p) /\ Undisturbed(p)
  BY <1>1 DEF Core, TypeOK, Command, Call, OnlyMoves, MutexStep, Undisturbed, Held
<1>4. FrameOK(p)' /\ Silent
  BY <1>1 DEF Core, TypeOK, Command, Call, FrameOK, Silent
<1> QED BY <1>2, <1>3, <1>4, SilentAction

LEMMA LockPeekOK ==
    ASSUME Core, NEW p \in TU, LockPeek(p)
    PROVE  Core' /\ UNCHANGED C!vars
<1>1. p \in Thread /\ tu[p] = p /\ op[p] \in {"pickup", "hangup"}
  BY DEF Core, FramesOK, FrameOK, LockPeek
<1>2. chat[p] # NoTU => chat[p] \in TU \ {p}
  <2>1. Peer[p] = chat[p]
    BY PeerLemma DEF Core, PeerIsChat, LockPeek
  <2> QED BY <2>1 DEF Core, TypeOK, C!CallsOK, C!PeersMutual
<1>3. TypeOK'
  <2>1. CASE chat[p] = NoTU
    <3>1. /\ mutex' = [mutex EXCEPT ![p] = p] /\ pc' = [pc EXCEPT ![p] = "body"]
          /\ target' = [target EXCEPT ![p] = NoTU] /\ UNCHANGED <<op, tu>>
      BY <1>1, <2>1 DEF LockPeek
    <3> QED BY <1>1, <3>1 DEF Core, TypeOK, LockPeek, Label, wiring, clientVars
  <2>2. CASE chat[p] # NoTU
    BY ZenonT(60), <1>1, <2>2 DEF Core, TypeOK, LockPeek, GotoLockBoth, Label, wiring, clientVars
  <2> QED BY <2>1, <2>2
<1>4. OnlyMoves(p) /\ Undisturbed(p)
  BY <1>1 DEF Core, TypeOK, LockPeek, GotoLockBoth, OnlyMoves, Undisturbed
<1>5. MutexStep(p)
  BY <1>1 DEF Core, TypeOK, LockPeek, GotoLockBoth, MutexStep, Held, Free
<1>6. FrameOK(p)'
  BY <1>1, <1>2 DEF Core, TypeOK, LockPeek, GotoLockBoth, FrameOK
<1>7. Silent
  BY <1>1 DEF Core, TypeOK, LockPeek, GotoLockBoth, Silent
<1> QED BY <1>1, <1>3, <1>4, <1>5, <1>6, <1>7, SilentAction

LEMMA LockFirstOK ==
    ASSUME Core, NEW p \in TU, LockFirst(p)
    PROVE  Core' /\ UNCHANGED C!vars
<1> DEFINE f == First(tu[p], target[p])
<1>1. p \in Thread /\ tu[p] = p /\ target[p] \in TU \ {p}
  BY DEF Core, FramesOK, FrameOK, LockFirst
<1>2. f \in TU /\ mutex[f] = NoThread /\ mutex' = [mutex EXCEPT ![f] = p]
  BY <1>1 DEF LockFirst, First, Free
<1>3. /\ pc' = [pc EXCEPT ![p] = "lock_second"]
      /\ pc'[p] = "lock_second"
      /\ UNCHANGED <<state, chat, chatLocked, ref, wiring, mem, clientVars,
                     op, tu, target, outcome>>
  BY <1>1 DEF Core, TypeOK, LockFirst, Goto
<1> HIDE DEF f
<1>4. TypeOK'
  BY <1>1, <1>2, <1>3 DEF Core, TypeOK, Label, wiring, clientVars
<1>5. OnlyMoves(p) /\ Undisturbed(p)
  BY <1>1, <1>3 DEF Core, TypeOK, OnlyMoves, Undisturbed
<1>6. MutexStep(p)
  <2>1. Held(p) = {}
    BY DEF LockFirst, Held
  <2>2. Held(p)' = {f}
    BY <1>1, <1>2, <1>3 DEF Held, First, f, wiring
  <2> QED BY <1>2, <2>1, <2>2 DEF Core, TypeOK, MutexStep
<1>7. FrameOK(p)'
  BY <1>1, <1>3 DEF Core, FramesOK, FrameOK, LockFirst
<1>8. Silent
  BY <1>1, <1>3 DEF Core, TypeOK, LockFirst, Silent
<1> QED BY <1>1, <1>4, <1>5, <1>6, <1>7, <1>8, SilentAction

LEMMA LockSecondOK ==
    ASSUME Core, NEW p \in TU, LockSecond(p)
    PROVE  Core' /\ UNCHANGED C!vars
<1> DEFINE f == First(tu[p], target[p])
           s == Second(tu[p], target[p])
<1>1. p \in Thread /\ tu[p] = p /\ target[p] \in TU \ {p}
  BY DEF Core, FramesOK, FrameOK, LockSecond
<1>2. /\ s \in TU /\ f \in TU /\ {f, s} = {tu[p], target[p]}
      /\ mutex[s] = NoThread /\ mutex' = [mutex EXCEPT ![s] = p]
  BY <1>1 DEF LockSecond, First, Second, Free
<1>3. /\ pc' = [pc EXCEPT ![p] = "locked"]
      /\ pc'[p] = "locked"
      /\ UNCHANGED <<state, chat, chatLocked, ref, wiring, mem, clientVars,
                     op, tu, target, outcome>>
  BY <1>1 DEF Core, TypeOK, LockSecond, Goto
<1>4. Held(p) = {f}
  BY <1>2 DEF LockSecond, Held
<1> HIDE DEF f, s
<1>5. TypeOK'
  BY <1>1, <1>2, <1>3 DEF Core, TypeOK, Label, wiring, clientVars
<1>6. OnlyMoves(p) /\ Undisturbed(p)
  BY <1>1, <1>3 DEF Core, TypeOK, OnlyMoves, Undisturbed
<1>7. MutexStep(p)
  <2>1. Held(p)' = {f, s}
    BY <1>1, <1>2, <1>3 DEF Held
  <2> QED BY <1>2, <1>4, <2>1 DEF Core, TypeOK, MutexStep
<1>8. FrameOK(p)'
  BY <1>1, <1>3 DEF Core, FramesOK, FrameOK, LockSecond
<1>9. Silent
  BY <1>1, <1>3 DEF Core, TypeOK, LockSecond, Silent
<1> QED BY <1>1, <1>5, <1>6, <1>7, <1>8, <1>9, SilentAction

LEMMA RecheckOK ==
    ASSUME Core, NEW p \in TU, Recheck(p)
    PROVE  Core' /\ UNCHANGED C!vars
<1>1. /\ p \in Thread /\ tu[p] = p /\ target[p] \in TU \ {p}
      /\ op[p] \in {"pickup", "hangup"} /\ pc[p] = "locked"
  BY DEF Core, FramesOK, FrameOK, Recheck
<1>2. Held(p) = {p, target[p]}
  BY <1>1 DEF Held
<1>3. \A t \in {p, target[p]} : mutex[t] = p
  BY <1>1, <1>2 DEF Core, LocksHeld
<1>4. TypeOK'
  BY <1>1 DEF Core, TypeOK, Recheck, Goto, Unlocked, Label, wiring, clientVars
<1>5. OnlyMoves(p) /\ Undisturbed(p)
  BY <1>1 DEF Core, TypeOK, Recheck, Goto, OnlyMoves, Undisturbed
<1>6. MutexStep(p)
  <2>1. CASE chat[p] = target[p]
    <3>1. Held(p)' = {p, target[p]} /\ mutex' = mutex
      BY <1>1, <2>1 DEF Core, TypeOK, Recheck, Goto, Held
    <3> QED BY <1>2, <3>1 DEF MutexStep
  <2>2. CASE chat[p] # target[p]
    <3>1. Held(p)' = {} /\ mutex' = Unlocked({p, target[p]})
      BY <1>1, <2>2 DEF Core, TypeOK, Recheck, Goto, Held
    <3> QED BY <1>2, <1>3, <3>1 DEF MutexStep, Unlocked
  <2> QED BY <2>1, <2>2
<1>7. FrameOK(p)'
  BY <1>1 DEF Core, TypeOK, FramesOK, FrameOK, Recheck, Goto
<1>8. Silent
  BY <1>1 DEF Core, TypeOK, Recheck, Goto, Silent
<1> QED BY <1>1, <1>4, <1>5, <1>6, <1>7, <1>8, SilentAction

-----------------------------------------------------------------------------
(* The abstract telephone exchange, whose peers are Peer. *)

(* Initially nobody is in a call.                                         *)
LEMMA CallsInit == C!Init => C!CallsOK
BY DEF C!Init, C!CallsOK, C!TypeOK, C!PeersMutual, C!EndsAgree, C!TUState, C!InCall

(* Answering a call keeps the ends in agreement: both become connected.    *)
LEMMA CallsAnswerOK ==
    ASSUME C!CallsOK, NEW t \in TU, C!Answer(t)
    PROVE  C!CallsOK'
BY DEF C!Answer, C!CallsOK, C!TypeOK, C!PeersMutual, C!EndsAgree, C!TUState, C!InCall, C!Opposite

(* Hanging up unlinks the two ends of one call and of no other.            *)
LEMMA CallsHangUpCallOK ==
    ASSUME C!CallsOK, NEW t \in TU, C!HangUpCall(t)
    PROVE  C!CallsOK'
<1>1. Peer[t] \in TU /\ Peer[t] # t /\ Peer[Peer[t]] = t
  BY DEF C!HangUpCall, C!CallsOK, C!TypeOK, C!PeersMutual
<1>2. C!TypeOK'
  BY <1>1 DEF C!HangUpCall, C!CallsOK, C!TypeOK, C!TUState
<1>3. C!PeersMutual'
  BY <1>1 DEF C!HangUpCall, C!CallsOK, C!TypeOK, C!PeersMutual
<1>4. C!EndsAgree'
  BY <1>1
  DEF C!HangUpCall, C!CallsOK, C!TypeOK, C!PeersMutual, C!EndsAgree, C!TUState, C!InCall, C!Opposite
<1> QED BY <1>2, <1>3, <1>4 DEF C!CallsOK

(* Dialling links two telephones that were both free.                      *)
LEMMA CallsDialOK ==
    ASSUME C!CallsOK, NEW t \in TU, NEW u \in TU, C!Dial(t, u)
    PROVE  C!CallsOK'
<1>1. Peer[t] = NoTU /\ Peer[u] = NoTU /\ u # t
  BY DEF C!Dial, C!CallsOK, C!TypeOK, C!EndsAgree, C!InCall
<1>2. C!TypeOK'
  BY DEF C!Dial, C!CallsOK, C!TypeOK, C!TUState
<1>3. C!PeersMutual'
  BY <1>1 DEF C!Dial, C!CallsOK, C!TypeOK, C!PeersMutual
<1>4. C!EndsAgree'
  BY <1>1
  DEF C!Dial, C!CallsOK, C!TypeOK, C!PeersMutual, C!EndsAgree, C!TUState, C!InCall, C!Opposite
<1> QED BY <1>2, <1>3, <1>4 DEF C!CallsOK

(* The operations that involve one telephone only move it between states   *)
(* without a peer.                                                         *)
LEMMA CallsSingleOK ==
    ASSUME C!CallsOK, NEW t \in TU,
           \/ C!PickUp(t) \/ C!HangUpIdle(t) \/ C!DialNobody(t)
           \/ \E u \in TU : C!DialBusy(t, u)
    PROVE  C!CallsOK'
<1>1. /\ state[t] \notin C!InCall
      /\ \E s \in C!TUState \ C!InCall : state' = [state EXCEPT ![t] = s]
      /\ Peer' = Peer
  BY DEF C!PickUp, C!HangUpIdle, C!DialNobody, C!DialBusy, C!TUState, C!InCall
<1>2. PICK s \in C!TUState \ C!InCall : state' = [state EXCEPT ![t] = s]
  BY <1>1
<1>3. Peer[t] = NoTU
  BY <1>1 DEF C!CallsOK, C!EndsAgree
<1>4. C!TypeOK' /\ C!PeersMutual'
  BY <1>1, <1>2 DEF C!CallsOK, C!TypeOK, C!PeersMutual
<1>5. \A x \in TU : Peer[x] # t
  BY <1>3 DEF C!CallsOK, C!TypeOK, C!PeersMutual
<1>6. C!EndsAgree'
  <2> SUFFICES ASSUME NEW x \in TU
               PROVE  /\ state'[x] \in C!InCall <=> Peer'[x] # NoTU
                      /\ Peer'[x] # NoTU => state'[Peer'[x]] = C!Opposite[state'[x]]
    BY DEF C!EndsAgree
  <2>1. CASE x = t
    BY <1>1, <1>2, <1>3, <2>1 DEF C!CallsOK, C!TypeOK
  <2>2. CASE x # t
    <3>1. state'[x] = state[x] /\ Peer'[x] = Peer[x]
      BY <1>1, <1>2, <2>2 DEF C!CallsOK, C!TypeOK
    <3>2. Peer[x] # NoTU => state'[Peer[x]] = state[Peer[x]]
      BY <1>2, <1>5 DEF C!CallsOK, C!TypeOK
    <3> QED BY <3>1, <3>2 DEF C!CallsOK, C!EndsAgree
  <2> QED BY <2>1, <2>2
<1> QED BY <1>4, <1>6 DEF C!CallsOK

(* Every step of the exchange preserves the invariant.                     *)
LEMMA CallsStep ==
    ASSUME C!CallsOK, [C!Next]_C!vars
    PROVE  C!CallsOK'
<1>1. CASE UNCHANGED C!vars
  BY <1>1 DEF C!vars, C!CallsOK, C!TypeOK, C!PeersMutual, C!EndsAgree
<1>2. CASE C!Next
  BY <1>2, CallsAnswerOK, CallsHangUpCallOK, CallsDialOK, CallsSingleOK DEF C!Next
<1> QED BY <1>1, <1>2

(* For any number of telephones, a peer always has this telephone as its   *)
(* own peer, and the two ends agree on the stage the call has reached.     *)
THEOREM CallsCorrect == C!Spec => []C!CallsOK
<1>1. C!Init => C!CallsOK
  BY CallsInit
<1>2. C!CallsOK /\ [C!Next]_C!vars => C!CallsOK'
  BY CallsStep
<1> QED BY <1>1, <1>2, PTL DEF C!Spec

-----------------------------------------------------------------------------
(* Steps that clients can see. *)

LEMMA PeerAfter ==
    ASSUME Core, NEW p \in Thread, TypeOK', OnlyMoves(p), Undisturbed(p), FrameOK(p)'
    PROVE  PeerIsChat /\ PeerIsChat'
<1>1. FramesOK'
  BY FramesStep DEF Core
<1>2. PeerIsChat'
  BY <1>1, PeerLemma, PTL
<1> QED BY <1>2, PeerLemma DEF Core

LEMMA VisibleAction ==
    ASSUME Core, NEW p \in Thread, TypeOK', OnlyMoves(p), MutexStep(p),
           Undisturbed(p), FrameOK(p)', UNCHANGED wiring, [C!Next]_C!vars
    PROVE  Core'
<1>1. LocksHeld' /\ FramesOK'
  BY LocksHeldStep, FramesStep DEF Core, wiring
<1> QED BY <1>1, CallsStep DEF Core

(* tu_notify, wherever the connections are, tells a client a state.        *)
LEMMA NotifyTypes ==
    ASSUME TypeOK, NEW S \in SUBSET TU, Notify(S), state' \in [TU -> TUState]
    PROVE  /\ told' \in [TU -> (TUState \cup {"nothing"}) \X (TU \cup {NoTU})]
           /\ heard' \in [TU -> TU \cup {NoTU}]
<1> DEFINE from(c) == {t \in S : conn[fd[t]] = c}
           notified == {c \in TU : from(c) # {}}
           sent(c) == Sent(CHOOSE t \in from(c) : TRUE)
<1>1. /\ told' = [c \in TU |-> IF c \in notified THEN sent(c) ELSE told[c]]
      /\ heard' = [c \in TU |-> IF c \in notified THEN NoTU ELSE heard[c]]
  BY DEF Notify
<1>2. \A c \in notified : (CHOOSE t \in from(c) : TRUE) \in TU
  OBVIOUS
<1>3. \A t \in TU : Sent(t) \in TUState \X (TU \cup {NoTU})
  BY DEF Sent, Message, TypeOK
<1>4. \A c \in notified : sent(c) \in TUState \X (TU \cup {NoTU})
  BY <1>2, <1>3
<1> HIDE DEF from, notified, sent
<1> QED BY <1>1, <1>4 DEF TypeOK

(* A thread in the body of tu_pickup or tu_hangup has locked its TU and    *)
(* the peer, if there is one; the link between the two is mutual, and the  *)
(* peer's own thread relies on nothing.                                    *)
LEMMA BodyFacts ==
    ASSUME Core, NEW p \in TU, pc[p] = "body"
    PROVE  /\ p \in Thread /\ tu[p] = p /\ op[p] \in {"pickup", "hangup"}
           /\ target[p] = chat[p] /\ mutex[p] = p
           /\ Held(p) = {p, chat[p]} \ {NoTU}
           /\ Peer[p] = chat[p] /\ state[p] \in TUState
           /\ chat[p] # NoTU =>
                /\ chat[p] \in TU \ {p} /\ chatLocked[p]
                /\ mutex[chat[p]] = p
                /\ chat[chat[p]] = p /\ Peer[chat[p]] = p
                /\ pc[chat[p]] # "hangup_finish" /\ ~Relies(chat[p])
                /\ state[p] \in C!InCall
                /\ state[chat[p]] = C!Opposite[state[p]]
<1>1. p \in Thread /\ tu[p] = p /\ op[p] \in {"pickup", "hangup"} /\ target[p] = chat[p]
  BY DEF Core, FramesOK, FrameOK
<1>2. chat[p] \in TU \cup {NoTU} /\ state[p] \in TUState
  BY DEF Core, TypeOK
<1>3. Held(p) = {p, chat[p]} \ {NoTU}
  BY <1>1, <1>2 DEF Held
<1>4. mutex[p] = p
  BY <1>1, <1>3 DEF Core, LocksHeld
<1>5. PeerIsChat /\ Peer[p] = chat[p]
  BY PeerLemma DEF Core, PeerIsChat
<1>6. ASSUME chat[p] # NoTU
      PROVE  /\ chat[p] \in TU \ {p} /\ chatLocked[p]
             /\ mutex[chat[p]] = p
             /\ chat[chat[p]] = p /\ Peer[chat[p]] = p
             /\ pc[chat[p]] # "hangup_finish" /\ ~Relies(chat[p])
             /\ state[p] \in C!InCall
             /\ state[chat[p]] = C!Opposite[state[p]]
  <2>1. chat[p] \in TU \ {p} /\ Peer[chat[p]] = p
    BY <1>2, <1>5, <1>6 DEF Core, C!CallsOK, C!PeersMutual
  <2>2. chat[chat[p]] = p /\ pc[chat[p]] # "hangup_finish"
    BY <1>5, <2>1 DEF PeerIsChat
  <2>3. mutex[chat[p]] = p /\ chat[p] \in Held(p)
    BY <1>1, <1>3, <2>1 DEF Core, LocksHeld
  <2>4. ~Relies(chat[p])
    BY <2>1, <2>2, <2>3, NotRelying
  <2>5. chatLocked[p]
    BY <1>1, <1>6 DEF Core, FramesOK, FrameOK
  <2>6. state[p] \in C!InCall /\ state[chat[p]] = C!Opposite[state[p]]
    BY <1>5, <1>6 DEF Core, C!CallsOK, C!EndsAgree
  <2> QED BY <2>1, <2>2, <2>3, <2>4, <2>5, <2>6
<1> QED BY <1>1, <1>2, <1>3, <1>4, <1>5, <1>6

(* tu_unlock, at the end of those bodies: either it releases all that the  *)
(* thread holds, or the process is killed and nothing is released.         *)
LEMMA UnlockOK ==
    ASSUME Core, NEW p \in TU, pc[p] = "body", Unlock(p), UNCHANGED <<chat, wiring>>
    PROVE  /\ mutex' \in [TU -> Thread \cup {NoThread}]
           /\ chatLocked' \in [TU -> BOOLEAN]
           /\ pc' \in [Thread -> Label] /\ op' \in [Thread -> Op]
           /\ tu' \in [Thread -> TU \cup {NoTU}]
           /\ target' \in [Thread -> TU \cup {NoTU}]
           /\ outcome' \in Outcome
           /\ OnlyMoves(p) /\ MutexStep(p) /\ FrameOK(p)'
           /\ \A q \in TU \ {p} : chatLocked'[q] = chatLocked[q]
           /\ \A q \in TU : pc'[q] = "hangup_finish" <=> pc[q] = "hangup_finish"
<1>1. /\ p \in Thread /\ tu[p] = p /\ target[p] = chat[p] /\ mutex[p] = p
      /\ op[p] \in {"pickup", "hangup"}
      /\ Held(p) = {p, chat[p]} \ {NoTU} /\ chat[p] \in TU \cup {NoTU}
      /\ chat[p] # NoTU => mutex[chat[p]] = p /\ chatLocked[p]
  BY BodyFacts DEF Core, TypeOK
<1>2. CASE chatLocked[p] /\ chat[p] = NoTU
  <2>1. outcome' = "null peer" /\ UNCHANGED <<mutex, chatLocked, frame>>
    BY <1>1, <1>2 DEF Unlock
  <2>2. Held(p)' = Held(p)
    BY <1>1, <2>1 DEF Held, frame
  <2> QED BY <1>1, <1>2, <2>1, <2>2
          DEF Core, TypeOK, Outcome, frame, OnlyMoves, MutexStep, FrameOK
<1>3. CASE ~(chatLocked[p] /\ chat[p] = NoTU)
  <2>1. /\ mutex' = Unlocked({p} \cup (IF chatLocked[p] THEN {chat[p]} ELSE {}))
        /\ chatLocked' = [chatLocked EXCEPT ![p] = FALSE]
        /\ Return(p) /\ UNCHANGED outcome
    BY <1>1, <1>3 DEF Unlock
  <2>2. mutex' = Unlocked({p, chat[p]} \ {NoTU})
    BY <1>1, <1>3, <2>1 DEF Unlocked
  <2>3. Held(p)' = {}
    BY <1>1, <2>1 DEF Held, Return, Core, TypeOK
  <2>4. MutexStep(p)
    BY <1>1, <2>2, <2>3 DEF MutexStep, Unlocked
  <2>5. /\ mutex' \in [TU -> Thread \cup {NoThread}]
        /\ chatLocked' \in [TU -> BOOLEAN]
    BY <2>1, <2>2 DEF Core, TypeOK, Unlocked
  <2>6. /\ pc' \in [Thread -> Label] /\ op' \in [Thread -> Op]
        /\ tu' \in [Thread -> TU \cup {NoTU}]
        /\ target' \in [Thread -> TU \cup {NoTU}]
        /\ outcome' \in Outcome
    BY <2>1 DEF Core, TypeOK, Return, Label, Op
  <2>7. OnlyMoves(p) /\ pc'[p] = "idle" /\ pc'[p] # "hangup_finish"
    BY <1>1, <2>1 DEF Core, TypeOK, Return, OnlyMoves
  <2>8. FrameOK(p)'
    BY <2>7 DEF FrameOK
  <2>9. /\ \A q \in TU \ {p} : chatLocked'[q] = chatLocked[q]
        /\ \A q \in TU : pc'[q] = "hangup_finish" <=> pc[q] = "hangup_finish"
    BY <1>1, <2>1, <2>7 DEF Core, TypeOK, OnlyMoves
  <2> QED BY <2>4, <2>5, <2>6, <2>7, <2>8, <2>9
<1> QED BY <1>2, <1>3

(* The steps that end with tu_unlock change states, tell clients, and      *)
(* leave the links alone: they preserve Core if the exchange allows it.    *)
LEMMA BodyAction ==
    ASSUME Core, NEW p \in TU, pc[p] = "body", Unlock(p),
           UNCHANGED <<chat, ref, wiring, mem>>, state' \in [TU -> TUState],
           NEW S \in SUBSET TU, Notify(S),
           \A q \in TU \ {p} : Relies(q) => state'[q] = state[q]
    PROVE  /\ Peer' = Peer
           /\ [C!Next]_C!vars => Core'
<1>1. /\ told' \in [TU -> (TUState \cup {"nothing"}) \X (TU \cup {NoTU})]
      /\ heard' \in [TU -> TU \cup {NoTU}]
  BY NotifyTypes DEF Core
<1>2. TypeOK'
  BY <1>1, UnlockOK DEF Core, TypeOK, wiring
<1>3. Undisturbed(p)
  BY UnlockOK DEF Undisturbed
<1>4. p \in Thread /\ OnlyMoves(p) /\ MutexStep(p) /\ FrameOK(p)'
  BY UnlockOK
<1>5. Peer' = Peer
  BY <1>2, <1>3, <1>4, PeerAfter, UnlockOK DEF PeerIsChat
<1> QED BY <1>2, <1>3, <1>4, <1>5, VisibleAction

LEMMA PickUpOK ==
    ASSUME Core, NEW p \in TU, PickUp(p)
    PROVE  Core' /\ [C!Next]_C!vars
<1>1. /\ tu[p] = p /\ pc[p] = "body" /\ state[p] = "ON_HOOK"
      /\ state' = [state EXCEPT ![p] = "DIAL_TONE"]
  BY BodyFacts DEF PickUp
<1>2. /\ state' \in [TU -> TUState]
      /\ \A t \in TU \ {p} : state'[t] = state[t]
  BY <1>1 DEF Core, TypeOK, TUState
<1>3. /\ Peer' = Peer
      /\ [C!Next]_C!vars => Core'
  BY <1>1, <1>2, BodyAction DEF PickUp
<1>4. C!PickUp(p)
  BY <1>1, <1>3 DEF C!PickUp
<1> QED BY <1>3, <1>4 DEF C!Next

LEMMA AnswerOK ==
    ASSUME Core, NEW p \in TU, Answer(p)
    PROVE  Core' /\ [C!Next]_C!vars
<1> DEFINE u == chat[p]
<1>1. /\ tu[p] = p /\ pc[p] = "body" /\ state[p] = "RINGING"
      /\ u \in TU \ {p} /\ state[u] = "RING_BACK" /\ ~Relies(u)
      /\ Peer[p] = u /\ Peer[u] = p
      /\ state' = [state EXCEPT ![p] = "CONNECTED", ![u] = "CONNECTED"]
  <2>1. tu[p] = p /\ pc[p] = "body" /\ Peer[p] = u
    BY BodyFacts DEF Answer
  <2>2. /\ state[p] = "RINGING" /\ u # NoTU /\ state[u] = "RING_BACK"
        /\ state' = [state EXCEPT ![p] = "CONNECTED", ![u] = "CONNECTED"]
    BY <2>1 DEF Answer, CanAnswer
  <2>3. u \in TU \ {p} /\ Peer[u] = p /\ ~Relies(u)
    BY <2>1, <2>2, BodyFacts
  <2> QED BY <2>1, <2>2, <2>3
<1>2. /\ state' \in [TU -> TUState]
      /\ \A t \in TU \ {p, u} : state'[t] = state[t]
  BY <1>1 DEF Core, TypeOK, TUState
<1>3. /\ Peer' = Peer
      /\ [C!Next]_C!vars => Core'
  <2>1. Notify({p, u}) /\ Unlock(p) /\ UNCHANGED <<chat, ref, wiring, mem>>
    BY <1>1 DEF Answer
  <2> QED BY <1>1, <1>2, <2>1, BodyAction
<1>4. C!Answer(p)
  BY <1>1, <1>3 DEF C!Answer
<1> QED BY <1>3, <1>4 DEF C!Next

LEMMA PickUpIgnoredOK ==
    ASSUME Core, NEW p \in TU, PickUpIgnored(p)
    PROVE  Core' /\ [C!Next]_C!vars
<1> DEFINE S == IF state[p] = "RINGING" /\ chat[p] = NoTU THEN {} ELSE {p}
<1>1. tu[p] = p /\ pc[p] = "body"
  BY BodyFacts DEF PickUpIgnored
<1>2. /\ Notify(S) /\ S \in SUBSET TU
      /\ Unlock(p) /\ UNCHANGED <<state, chat, ref, wiring, mem>>
  BY <1>1 DEF PickUpIgnored
<1>3. state' \in [TU -> TUState]
  BY <1>2 DEF Core, TypeOK
<1> HIDE DEF S
<1>4. /\ Peer' = Peer
      /\ [C!Next]_C!vars => Core'
  BY <1>1, <1>2, <1>3, BodyAction
<1> QED BY <1>2, <1>4 DEF C!vars

LEMMA HangUpIdleOK ==
    ASSUME Core, NEW p \in TU, HangUpIdle(p)
    PROVE  Core' /\ [C!Next]_C!vars
<1>1. /\ tu[p] = p /\ pc[p] = "body"
      /\ state[p] \in TUState /\ state[p] \notin C!InCall
      /\ state' = [state EXCEPT ![p] = "ON_HOOK"]
  <2>1. tu[p] = p /\ Peer[p] = chat[p]
    BY BodyFacts DEF HangUpIdle
  <2>2. state[p] \in C!InCall => chat[p] # NoTU
    BY <2>1 DEF Core, C!CallsOK, C!EndsAgree
  <2> QED BY <2>1, <2>2 DEF HangUpIdle, C!InCall, Core, TypeOK
<1>2. /\ state' \in [TU -> TUState]
      /\ \A t \in TU \ {p} : state'[t] = state[t]
  BY <1>1 DEF Core, TypeOK, TUState
<1>3. /\ Peer' = Peer
      /\ [C!Next]_C!vars => Core'
  BY <1>1, <1>2, BodyAction DEF HangUpIdle
<1>4. C!HangUpIdle(p) \/ UNCHANGED C!vars
  <2>1. CASE state[p] = "ON_HOOK"
    BY <1>1, <1>3, <2>1 DEF C!vars, Core, TypeOK
  <2>2. CASE state[p] # "ON_HOOK"
    BY <1>1, <1>3, <2>2 DEF C!HangUpIdle, TUState, C!InCall
  <2> QED BY <2>1, <2>2
<1> QED BY <1>3, <1>4 DEF C!Next

-----------------------------------------------------------------------------
(* The end of a call. *)

LEMMA HangUpCallOK ==
    ASSUME Core, Counted, NEW p \in TU, HangUpCall(p)
    PROVE  Core' /\ [C!Next]_C!vars
<1> DEFINE u == chat[p]
           s == IF state[p] = "RING_BACK" THEN "ON_HOOK" ELSE "DIAL_TONE"
<1>1. /\ p \in Thread /\ tu[p] = p /\ pc[p] = "body" /\ u \in TU \ {p}
      /\ mutex[p] = p /\ mutex[u] = p /\ Held(p) = {p, u}
      /\ chat[u] = p /\ Peer[p] = u /\ Peer[u] = p
      /\ pc[u] # "hangup_finish" /\ ~Relies(u) /\ state[p] \in C!InCall
  BY BodyFacts DEF HangUpCall
<1>2. /\ state' = [state EXCEPT ![p] = "ON_HOOK", ![u] = s]
      /\ chat' = [chat EXCEPT ![u] = NoTU]
      /\ ref' = [ref EXCEPT ![u] = @ - 1]
      /\ mem' = IF ref[u] <= 1 THEN [mem EXCEPT ![u] = "freed"] ELSE mem
      /\ mutex' = Unlocked({u})
      /\ Notify({p, u})
      /\ pc' = [pc EXCEPT ![p] = "hangup_finish"]
      /\ UNCHANGED <<op, tu, target, chatLocked, wiring, outcome>>
  BY <1>1 DEF HangUpCall, Unref, Goto
<1> HIDE DEF u
<1>3. state' \in [TU -> TUState]
  BY <1>1, <1>2 DEF Core, TypeOK, TUState
<1>4. /\ told' \in [TU -> (TUState \cup {"nothing"}) \X (TU \cup {NoTU})]
      /\ heard' \in [TU -> TU \cup {NoTU}]
  <2>1. {p, u} \in SUBSET TU /\ Notify({p, u})
    BY <1>1, <1>2
  <2> QED BY <1>3, <2>1, NotifyTypes DEF Core
<1>5. TypeOK'
  <2>1. mutex' \in [TU -> Thread \cup {NoThread}]
    BY <1>2 DEF Core, TypeOK, Unlocked
  <2>2. ref' \in [TU -> Nat] /\ mem' \in [TU -> Memory]
    <3>1. ref[u] > 0 /\ ref[u] \in Nat
      BY <1>1 DEF Core, TypeOK, Counted
    <3> QED BY <1>1, <1>2, <3>1 DEF Core, TypeOK, Memory
  <2>3. chat' \in [TU -> TU \cup {NoTU}] /\ pc' \in [Thread -> Label]
    BY <1>1, <1>2 DEF Core, TypeOK, Label
  <2> QED BY <1>2, <1>3, <1>4, <2>1, <2>2, <2>3 DEF Core, TypeOK, wiring
<1>6. OnlyMoves(p) /\ Undisturbed(p)
  BY <1>1, <1>2 DEF Core, TypeOK, OnlyMoves, Undisturbed
<1>7. MutexStep(p)
  <2>1. Held(p)' = {p}
    BY <1>1, <1>2 DEF Core, TypeOK, Held
  <2> QED BY <1>1, <1>2, <2>1 DEF MutexStep, Unlocked
<1>8. FrameOK(p)'
  BY <1>1, <1>2 DEF Core, TypeOK, FrameOK, u
<1>9. C!HangUpCall(p)
  <2>1. PeerIsChat /\ PeerIsChat'
    BY <1>1, <1>5, <1>6, <1>8, PeerAfter
  <2>2. \A t \in TU : pc'[t] = IF t = p THEN "hangup_finish" ELSE pc[t]
    BY <1>1, <1>2 DEF Core, TypeOK
  <2>3. Peer' = [Peer EXCEPT ![p] = NoTU, ![u] = NoTU]
    BY <1>1, <1>2, <2>1, <2>2 DEF PeerIsChat, Core, TypeOK
  <2> QED BY <1>1, <1>2, <2>3 DEF C!HangUpCall
<1>10. [C!Next]_C!vars
  BY <1>9 DEF C!Next
<1> QED BY <1>1, <1>2, <1>5, <1>6, <1>7, <1>8, <1>10, VisibleAction

LEMMA HangUpFinishOK ==
    ASSUME Core, Counted, NEW p \in TU, HangUpFinish(p)
    PROVE  Core' /\ UNCHANGED C!vars
<1>1. /\ p \in Thread /\ pc[p] = "hangup_finish" /\ tu[p] = p /\ chat[p] # NoTU
      /\ Held(p) = {p} /\ mutex[p] = p
  <2>1. p \in Thread /\ pc[p] = "hangup_finish" /\ tu[p] = p /\ chat[p] # NoTU
    BY DEF Core, FramesOK, FrameOK, HangUpFinish
  <2>2. Held(p) = {p}
    BY <2>1 DEF Held
  <2> QED BY <2>1, <2>2 DEF Core, LocksHeld
<1>2. ref[p] \in Nat /\ ref[p] > 0
  BY <1>1 DEF Core, TypeOK, Counted
<1>3. /\ chat' = [chat EXCEPT ![p] = NoTU]
      /\ ref' = [ref EXCEPT ![p] = @ - 1]
      /\ mem' = IF ref[p] <= 1 THEN [mem EXCEPT ![p] = "freed"] ELSE mem
      /\ chatLocked' = [chatLocked EXCEPT ![p] = FALSE]
      /\ mutex' = Unlocked({p})
      /\ Return(p)
      /\ UNCHANGED <<state, wiring, clientVars, outcome>>
  BY <1>1 DEF HangUpFinish, Unref
<1>4. TypeOK'
  <2>1. ref' \in [TU -> Nat] /\ mem' \in [TU -> Memory]
    BY <1>2, <1>3 DEF Core, TypeOK, Memory
  <2>2. /\ mutex' \in [TU -> Thread \cup {NoThread}]
        /\ chat' \in [TU -> TU \cup {NoTU}] /\ chatLocked' \in [TU -> BOOLEAN]
    BY <1>3 DEF Core, TypeOK, Unlocked
  <2>3. /\ pc' \in [Thread -> Label] /\ op' \in [Thread -> Op]
        /\ tu' \in [Thread -> TU \cup {NoTU}]
        /\ target' \in [Thread -> TU \cup {NoTU}]
    BY <1>3 DEF Core, TypeOK, Return, Label, Op
  <2> QED BY <1>3, <2>1, <2>2, <2>3 DEF Core, TypeOK, wiring, clientVars
<1>5. OnlyMoves(p) /\ Undisturbed(p) /\ pc'[p] = "idle"
  BY <1>1, <1>3 DEF Core, TypeOK, Return, OnlyMoves, Undisturbed
<1>6. MutexStep(p)
  <2>1. Held(p)' = {}
    BY <1>5 DEF Held
  <2> QED BY <1>1, <1>3, <2>1 DEF MutexStep, Unlocked
<1>7. FrameOK(p)'
  BY <1>5 DEF FrameOK
<1>8. UNCHANGED C!vars
  <2>1. PeerIsChat /\ PeerIsChat'
    BY <1>1, <1>4, <1>5, <1>7, PeerAfter
  <2>2. Peer' = Peer
    BY <1>1, <1>3, <1>5, <2>1 DEF PeerIsChat, Core, TypeOK, OnlyMoves
  <2> QED BY <1>3, <2>2 DEF C!vars
<1> QED BY <1>1, <1>3, <1>4, <1>5, <1>6, <1>7, <1>8, VisibleAction

-----------------------------------------------------------------------------
(* Dialling and chatting. *)

(* Returning from tu_dial or tu_chat without anything locked, or with a    *)
(* set S of TUs locked that the step unlocks.                              *)
LEMMA ReturnOK ==
    ASSUME Core, NEW p \in TU, Return(p), UNCHANGED <<chatLocked, wiring>>,
           NEW S \in SUBSET TU, Held(p) = S, mutex' = Unlocked(S)
    PROVE  /\ mutex' \in [TU -> Thread \cup {NoThread}]
           /\ pc' \in [Thread -> Label] /\ op' \in [Thread -> Op]
           /\ tu' \in [Thread -> TU \cup {NoTU}]
           /\ target' \in [Thread -> TU \cup {NoTU}]
           /\ p \in Thread /\ OnlyMoves(p) /\ MutexStep(p) /\ FrameOK(p)'
           /\ pc'[p] = "idle"
<1>1. p \in Thread /\ pc'[p] = "idle" /\ OnlyMoves(p)
  BY DEF Core, TypeOK, Return, OnlyMoves
<1>2. /\ pc' \in [Thread -> Label] /\ op' \in [Thread -> Op]
      /\ tu' \in [Thread -> TU \cup {NoTU}]
      /\ target' \in [Thread -> TU \cup {NoTU}]
  BY DEF Core, TypeOK, Return, Label, Op
<1>3. mutex' \in [TU -> Thread \cup {NoThread}]
  BY DEF Core, TypeOK, Unlocked
<1>4. Held(p)' = {}
  BY <1>1 DEF Held
<1>5. \A t \in S : mutex[t] = p
  BY <1>1 DEF Core, LocksHeld
<1>6. MutexStep(p)
  BY <1>4, <1>5 DEF MutexStep, Unlocked
<1>7. FrameOK(p)'
  BY <1>1 DEF FrameOK
<1> QED BY <1>1, <1>2, <1>3, <1>6, <1>7

LEMMA DialPeekOK ==
    ASSUME Core, NEW p \in TU, DialPeek(p)
    PROVE  Core' /\ [C!Next]_C!vars
<1> DEFINE refused == chat[p] # NoTU \/ state[p] # "DIAL_TONE"
           leave == refused \/ target[p] \in {NoTU, p}
<1>1. /\ p \in Thread /\ tu[p] = p /\ pc[p] = "dial_peek" /\ op[p] = "dial"
      /\ target[p] \in TU \cup {NoTU}
  BY DEF Core, TypeOK, FramesOK, FrameOK, DialPeek
<1>2. UNCHANGED <<chat, chatLocked, ref, wiring, mutex, mem>>
  BY DEF DialPeek
<1>3. Peer[p] = chat[p] /\ Held(p) = {}
  BY <1>1, PeerLemma DEF Core, PeerIsChat, Held
<1>4. CASE leave
  <2> DEFINE busy == IF target[p] = p THEN "BUSY_SIGNAL" ELSE "ERROR"
  <2>1. /\ state' = IF refused THEN state ELSE [state EXCEPT ![p] = busy]
        /\ Notify({p})
        /\ outcome' = IF state[p] = "CONNECTED" /\ chat[p] = NoTU
                      THEN "null peer" ELSE outcome
        /\ Return(p)
    BY <1>1, <1>4 DEF DialPeek
  <2> HIDE DEF leave
  <2>2. state' \in [TU -> TUState] /\ \A t \in TU \ {p} : state'[t] = state[t]
    BY <1>1, <2>1 DEF Core, TypeOK, TUState
  <2>3. /\ told' \in [TU -> (TUState \cup {"nothing"}) \X (TU \cup {NoTU})]
        /\ heard' \in [TU -> TU \cup {NoTU}]
    <3>1. {p} \in SUBSET TU /\ Notify({p})
      BY <2>1
    <3> QED BY <2>2, <3>1, NotifyTypes DEF Core
  <2>4. /\ mutex' \in [TU -> Thread \cup {NoThread}]
        /\ pc' \in [Thread -> Label] /\ op' \in [Thread -> Op]
        /\ tu' \in [Thread -> TU \cup {NoTU}]
        /\ target' \in [Thread -> TU \cup {NoTU}]
        /\ OnlyMoves(p) /\ MutexStep(p) /\ FrameOK(p)'
        /\ pc'[p] = "idle"
    <3>1. mutex' = Unlocked({})
      BY <1>2 DEF Core, TypeOK, Unlocked
    <3> QED BY <1>2, <1>3, <2>1, <3>1, ReturnOK
  <2>5. TypeOK'
    <3>1. outcome' \in Outcome
      BY <2>1 DEF Core, TypeOK, Outcome
    <3> QED BY <1>2, <2>2, <2>3, <2>4, <3>1 DEF Core, TypeOK, wiring
  <2>6. Undisturbed(p)
    BY <1>2, <2>2 DEF Undisturbed
  <2>7. Peer' = Peer
    <3>1. PeerIsChat /\ PeerIsChat'
      BY <1>1, <2>4, <2>5, <2>6, PeerAfter
    <3> QED BY <1>1, <1>2, <2>4, <3>1 DEF PeerIsChat, OnlyMoves
  <2>8. [C!Next]_C!vars
    <3>1. CASE refused
      BY <2>1, <2>7, <3>1 DEF C!vars
    <3>2. CASE ~refused /\ target[p] = p
      BY <2>1, <2>7, <3>2 DEF C!Next, C!DialBusy
    <3>3. CASE ~refused /\ target[p] # p
      BY <2>1, <2>7, <3>3 DEF C!Next, C!DialNobody
    <3> QED BY <3>1, <3>2, <3>3
  <2> QED BY <1>1, <1>2, <2>4, <2>5, <2>6, <2>8, VisibleAction
<1>5. CASE ~leave
  <2>1. /\ pc' = [pc EXCEPT ![p] = "lock_first"]
        /\ UNCHANGED <<state, op, tu, target, clientVars, outcome>>
        /\ target[p] \in TU \ {p} /\ chat[p] = NoTU /\ state[p] = "DIAL_TONE"
    BY <1>1, <1>5 DEF DialPeek, Goto
  <2>2. TypeOK'
    BY <1>1, <1>2, <2>1 DEF Core, TypeOK, Label, wiring, clientVars
  <2>3. OnlyMoves(p) /\ Undisturbed(p) /\ pc'[p] = "lock_first"
    BY <1>1, <1>2, <2>1 DEF Core, TypeOK, OnlyMoves, Undisturbed
  <2>4. MutexStep(p)
    <3>1. Held(p)' = {}
      BY <2>3 DEF Held
    <3> QED BY <1>2, <1>3, <3>1 DEF MutexStep
  <2>5. FrameOK(p)' /\ Silent
    BY <1>1, <1>2, <2>1, <2>3 DEF Core, TypeOK, FrameOK, Silent
  <2> QED BY <1>1, <2>2, <2>3, <2>4, <2>5, SilentAction
<1> QED BY <1>4, <1>5

LEMMA DialBodyOK ==
    ASSUME Core, NEW p \in TU, DialBody(p)
    PROVE  Core' /\ [C!Next]_C!vars
<1> DEFINE u == target[p]
           free == chat[u] = NoTU /\ state[u] = "ON_HOOK"
<1>1. /\ p \in Thread /\ tu[p] = p /\ pc[p] = "locked" /\ op[p] = "dial"
      /\ u \in TU \ {p} /\ chat[p] = NoTU /\ state[p] = "DIAL_TONE"
  BY DEF Core, FramesOK, FrameOK, DialBody
<1>2. Held(p) = {p, u}
  BY <1>1 DEF Held
<1>3. Peer[p] = NoTU /\ Peer[u] = chat[u] /\ pc[u] # "hangup_finish"
  <2>1. pc[u] # "hangup_finish"
    <3>1. u \in Thread /\ FrameOK(u)
      BY <1>1 DEF Core, FramesOK
    <3>2. u \notin Held(u)
      BY <1>1, <1>2, <3>1 DEF Core, LocksHeld
    <3> QED BY <1>1, <3>1, <3>2 DEF Held, FrameOK
  <2> QED BY <1>1, <2>1, PeerLemma DEF Core, PeerIsChat
<1>4. /\ mutex' = Unlocked({p, u}) /\ Return(p)
      /\ UNCHANGED <<chatLocked, wiring, mem, outcome>>
  BY <1>1 DEF DialBody
<1>5. /\ ~free => /\ state' = [state EXCEPT ![p] = "BUSY_SIGNAL"]
                  /\ Notify({p}) /\ UNCHANGED <<chat, ref>>
      /\ free => /\ state' = [state EXCEPT ![p] = "RING_BACK", ![u] = "RINGING"]
                 /\ Notify({p, u})
                 /\ chat' = [chat EXCEPT ![p] = u, ![u] = p]
                 /\ ref' = [ref EXCEPT ![p] = @ + 1, ![u] = @ + 1]
  BY <1>1 DEF DialBody, InUse
<1> HIDE DEF u
<1>6. /\ mutex' \in [TU -> Thread \cup {NoThread}]
      /\ pc' \in [Thread -> Label] /\ op' \in [Thread -> Op]
      /\ tu' \in [Thread -> TU \cup {NoTU}]
      /\ target' \in [Thread -> TU \cup {NoTU}]
      /\ OnlyMoves(p) /\ MutexStep(p) /\ FrameOK(p)'
      /\ pc'[p] = "idle"
  <2>1. {p, u} \in SUBSET TU
    BY <1>1
  <2> QED BY <1>2, <1>4, <2>1, ReturnOK
<1>7. CASE ~free
  <2>1. state' \in [TU -> TUState] /\ \A t \in TU \ {p} : state'[t] = state[t]
    BY <1>5, <1>7 DEF Core, TypeOK, TUState
  <2>2. /\ told' \in [TU -> (TUState \cup {"nothing"}) \X (TU \cup {NoTU})]
        /\ heard' \in [TU -> TU \cup {NoTU}]
    <3>1. {p} \in SUBSET TU /\ Notify({p})
      BY <1>5, <1>7
    <3> QED BY <2>1, <3>1, NotifyTypes DEF Core
  <2>3. TypeOK'
    BY <1>4, <1>5, <1>6, <1>7, <2>1, <2>2 DEF Core, TypeOK, wiring
  <2>4. Undisturbed(p)
    BY <1>4, <1>5, <1>7, <2>1 DEF Undisturbed
  <2>5. [C!Next]_C!vars
    <3>1. PeerIsChat /\ PeerIsChat'
      BY <1>1, <1>6, <2>3, <2>4, PeerAfter
    <3>2. Peer' = Peer
      BY <1>1, <1>5, <1>6, <1>7, <3>1 DEF PeerIsChat, OnlyMoves
    <3>3. C!DialBusy(p, u)
      BY <1>1, <1>3, <1>5, <1>7, <3>2 DEF C!DialBusy
    <3> QED BY <1>1, <3>3 DEF C!Next
  <2> QED BY <1>1, <1>4, <1>6, <2>3, <2>4, <2>5, VisibleAction
<1>8. CASE free
  <2>1. /\ state' \in [TU -> TUState]
        /\ state'[p] = "RING_BACK" /\ state'[u] = "RINGING"
        /\ \A t \in TU \ {p, u} : state'[t] = state[t]
    BY <1>1, <1>5, <1>8 DEF Core, TypeOK, TUState
  <2>2. /\ told' \in [TU -> (TUState \cup {"nothing"}) \X (TU \cup {NoTU})]
        /\ heard' \in [TU -> TU \cup {NoTU}]
    <3>1. {p, u} \in SUBSET TU /\ Notify({p, u})
      BY <1>1, <1>5, <1>8
    <3> QED BY <2>1, <3>1, NotifyTypes DEF Core
  <2>3. TypeOK'
    <3>1. chat' \in [TU -> TU \cup {NoTU}] /\ ref' \in [TU -> Nat]
      BY <1>1, <1>5, <1>8 DEF Core, TypeOK
    <3> QED BY <1>4, <1>6, <2>1, <2>2, <3>1 DEF Core, TypeOK, wiring
  <2>4. Undisturbed(p)
    <3>1. ~Relies(u)
      BY <1>1, <1>2, <1>8, NotRelying
    <3> QED BY <1>1, <1>4, <1>5, <1>8, <2>1, <3>1 DEF Undisturbed, Core, TypeOK
  <2>5. [C!Next]_C!vars
    <3>1. PeerIsChat /\ PeerIsChat'
      BY <1>1, <1>6, <2>3, <2>4, PeerAfter
    <3>2. chat' = [chat EXCEPT ![p] = u, ![u] = p]
      BY <1>5, <1>8
    <3>3. \A t \in TU : pc'[t] = "hangup_finish" <=> pc[t] = "hangup_finish"
      BY <1>1, <1>6 DEF OnlyMoves
    <3>4. Peer' = [Peer EXCEPT ![p] = u, ![u] = p]
      BY <1>1, <1>3, <3>1, <3>2, <3>3 DEF PeerIsChat, Core, TypeOK
    <3>5. C!Dial(p, u)
      BY <1>1, <1>3, <1>5, <1>8, <3>4 DEF C!Dial
    <3> QED BY <1>1, <3>5 DEF C!Next
  <2> QED BY <1>1, <1>4, <1>6, <2>3, <2>4, <2>5, VisibleAction
<1> QED BY <1>7, <1>8

LEMMA ChatPeekOK ==
    ASSUME Core, NEW p \in TU, ChatPeek(p)
    PROVE  Core' /\ UNCHANGED C!vars
<1> DEFINE go == state[p] = "CONNECTED" /\ chat[p] # NoTU
<1>1. /\ p \in Thread /\ tu[p] = p /\ pc[p] = "chat_peek" /\ op[p] = "chat"
  BY DEF Core, TypeOK, FramesOK, FrameOK, ChatPeek
<1>2. UNCHANGED <<state, chat, chatLocked, ref, wiring, mutex, mem>>
  BY DEF ChatPeek, tuVars
<1>3. Peer[p] = chat[p] /\ Held(p) = {}
  BY <1>1, PeerLemma DEF Core, PeerIsChat, Held
<1>4. CASE ~go
  <2>1. /\ Notify({p}) /\ Return(p)
        /\ outcome' = IF state[p] = "CONNECTED" THEN "null peer" ELSE outcome
    BY <1>1, <1>4 DEF ChatPeek
  <2> HIDE DEF go
  <2>2. /\ told' \in [TU -> (TUState \cup {"nothing"}) \X (TU \cup {NoTU})]
        /\ heard' \in [TU -> TU \cup {NoTU}]
    <3>1. {p} \in SUBSET TU /\ Notify({p}) /\ state' \in [TU -> TUState]
      BY <1>2, <2>1 DEF Core, TypeOK
    <3> QED BY <3>1, NotifyTypes DEF Core
  <2>3. /\ mutex' \in [TU -> Thread \cup {NoThread}]
        /\ pc' \in [Thread -> Label] /\ op' \in [Thread -> Op]
        /\ tu' \in [Thread -> TU \cup {NoTU}]
        /\ target' \in [Thread -> TU \cup {NoTU}]
        /\ OnlyMoves(p) /\ MutexStep(p) /\ FrameOK(p)'
        /\ pc'[p] = "idle"
    <3>1. mutex' = Unlocked({})
      BY <1>2 DEF Core, TypeOK, Unlocked
    <3> QED BY <1>2, <1>3, <2>1, <3>1, ReturnOK
  <2>4. TypeOK'
    <3>1. outcome' \in Outcome
      BY <2>1 DEF Core, TypeOK, Outcome
    <3> QED BY <1>2, <2>2, <2>3, <3>1 DEF Core, TypeOK, wiring
  <2>5. Undisturbed(p)
    BY <1>2 DEF Undisturbed
  <2>6. UNCHANGED C!vars
    <3>1. PeerIsChat /\ PeerIsChat'
      BY <1>1, <2>3, <2>4, <2>5, PeerAfter
    <3>2. Peer' = Peer
      BY <1>1, <1>2, <2>3, <3>1 DEF PeerIsChat, OnlyMoves
    <3> QED BY <1>2, <3>2 DEF C!vars
  <2> QED BY <1>1, <1>2, <2>3, <2>4, <2>5, <2>6, VisibleAction
<1>5. CASE go
  <2>1. chat[p] \in TU \ {p}
    BY <1>3, <1>5 DEF Core, TypeOK, C!CallsOK, C!PeersMutual
  <2>2. /\ pc' = [pc EXCEPT ![p] = "lock_first"]
        /\ target' = [target EXCEPT ![p] = chat[p]]
        /\ UNCHANGED <<op, tu, clientVars, outcome>>
    BY <1>1, <1>5 DEF ChatPeek, GotoLockBoth
  <2>3. TypeOK'
    BY <1>1, <1>2, <2>1, <2>2 DEF Core, TypeOK, Label, wiring, clientVars
  <2>4. OnlyMoves(p) /\ Undisturbed(p) /\ pc'[p] = "lock_first"
    BY <1>1, <1>2, <2>2 DEF Core, TypeOK, OnlyMoves, Undisturbed
  <2>5. MutexStep(p)
    <3>1. Held(p)' = {}
      BY <2>4 DEF Held
    <3> QED BY <1>2, <1>3, <3>1 DEF MutexStep
  <2>6. FrameOK(p)' /\ Silent
    BY <1>1, <1>2, <2>1, <2>2, <2>4 DEF Core, TypeOK, FrameOK, Silent
  <2> QED BY <1>1, <2>3, <2>4, <2>5, <2>6, SilentAction
<1> QED BY <1>4, <1>5

LEMMA ChatBodyOK ==
    ASSUME Core, NEW p \in TU, ChatBody(p)
    PROVE  Core' /\ UNCHANGED C!vars
<1> DEFINE u == target[p]
<1>1. /\ p \in Thread /\ tu[p] = p /\ pc[p] = "locked" /\ op[p] = "chat"
      /\ u \in TU \ {p}
  BY DEF Core, FramesOK, FrameOK, ChatBody
<1>2. Held(p) = {p, u}
  BY <1>1 DEF Held
<1>3. /\ mutex' = Unlocked({p, u}) /\ Return(p)
      /\ UNCHANGED <<state, chat, chatLocked, ref, wiring, mem, outcome>>
  BY <1>1 DEF ChatBody
<1>4. /\ told' \in [TU -> (TUState \cup {"nothing"}) \X (TU \cup {NoTU})]
      /\ heard' \in [TU -> TU \cup {NoTU}]
  <2>1. Message(state[p], chat[p]) \in TUState \X (TU \cup {NoTU})
    BY <1>1 DEF Core, TypeOK, Message
  <2>2. told' = [c \in TU |-> IF c = conn[fd[p]] THEN Message(state[p], chat[p])
                                                ELSE told[c]]
    BY <1>1 DEF ChatBody
  <2>3. heard' \in [TU -> TU \cup {NoTU}]
    BY <1>1 DEF ChatBody, Core, TypeOK
  <2> QED BY <2>1, <2>2, <2>3 DEF Core, TypeOK
<1> HIDE DEF u
<1>5. /\ mutex' \in [TU -> Thread \cup {NoThread}]
      /\ pc' \in [Thread -> Label] /\ op' \in [Thread -> Op]
      /\ tu' \in [Thread -> TU \cup {NoTU}]
      /\ target' \in [Thread -> TU \cup {NoTU}]
      /\ OnlyMoves(p) /\ MutexStep(p) /\ FrameOK(p)'
      /\ pc'[p] = "idle"
  <2>1. {p, u} \in SUBSET TU
    BY <1>1
  <2> QED BY <1>2, <1>3, <2>1, ReturnOK
<1>6. TypeOK'
  BY <1>3, <1>4, <1>5 DEF Core, TypeOK, wiring
<1>7. Undisturbed(p)
  BY <1>3 DEF Undisturbed
<1>8. UNCHANGED C!vars
  <2>1. PeerIsChat /\ PeerIsChat'
    BY <1>1, <1>5, <1>6, <1>7, PeerAfter
  <2>2. Peer' = Peer
    BY <1>1, <1>3, <1>5, <2>1 DEF PeerIsChat, OnlyMoves
  <2> QED BY <1>3, <2>2 DEF C!vars
<1> QED BY <1>1, <1>3, <1>5, <1>6, <1>7, <1>8, VisibleAction

-----------------------------------------------------------------------------
(* Any step of a thread inside tu.c. *)

(* It preserves Core and is a step of the abstract exchange, or invisible  *)
(* there.                                                                  *)
LEMMA StepOK ==
    ASSUME Core, Counted, NEW p \in TU, Step(p)
    PROVE  Core' /\ [C!Next]_C!vars
BY LockPeekOK, LockFirstOK, LockSecondOK, RecheckOK, PickUpOK, AnswerOK,
   PickUpIgnoredOK, HangUpCallOK, HangUpFinishOK, HangUpIdleOK,
   DialPeekOK, DialBodyOK, ChatPeekOK, ChatBodyOK DEF Step

LinkOf(c, t) == IF c[t] = NoTU THEN 0 ELSE 1

(* References change together with the links that they count, and giving   *)
(* up the last one frees the TU.                                           *)
RefsFollow ==
    \A t \in TU : /\ ref'[t] = ref[t] + LinkOf(chat', t) - LinkOf(chat, t)
                  /\ mem'[t] = IF ref'[t] = 0 /\ ref[t] > 0 THEN "freed" ELSE mem[t]

LEMMA RefsStep ==
    ASSUME Core, Counted, NEW p \in TU, Step(p)
    PROVE  RefsFollow
<1>1. CASE UNCHANGED <<chat, ref, mem>>
  BY <1>1 DEF Core, TypeOK, RefsFollow, LinkOf
<1>2. CASE HangUpCall(p)
  <2> DEFINE u == chat[p]
  <2>1. tu[p] = p /\ u \in TU \ {p} /\ chat[u] = p
    BY <1>2, BodyFacts DEF HangUpCall
  <2>2. /\ chat' = [chat EXCEPT ![u] = NoTU]
        /\ ref' = [ref EXCEPT ![u] = @ - 1]
        /\ mem' = IF ref[u] <= 1 THEN [mem EXCEPT ![u] = "freed"] ELSE mem
    BY <1>2, <2>1 DEF HangUpCall, Unref
  <2>3. ref[u] \in Nat /\ ref[u] > 0
    BY <2>1 DEF Core, TypeOK, Counted
  <2> HIDE DEF u
  <2> QED BY <2>1, <2>2, <2>3 DEF Core, TypeOK, RefsFollow, LinkOf
<1>3. CASE HangUpFinish(p)
  <2>1. tu[p] = p /\ chat[p] # NoTU
    BY <1>3 DEF Core, FramesOK, FrameOK, HangUpFinish
  <2>2. /\ chat' = [chat EXCEPT ![p] = NoTU]
        /\ ref' = [ref EXCEPT ![p] = @ - 1]
        /\ mem' = IF ref[p] <= 1 THEN [mem EXCEPT ![p] = "freed"] ELSE mem
    BY <1>3, <2>1 DEF HangUpFinish, Unref
  <2>3. ref[p] \in Nat /\ ref[p] > 0
    BY <2>1 DEF Core, TypeOK, Counted
  <2> QED BY <2>1, <2>2, <2>3 DEF Core, TypeOK, RefsFollow, LinkOf
<1>4. CASE DialBody(p)
  <2> DEFINE u == target[p]
  <2>1. tu[p] = p /\ u \in TU \ {p} /\ chat[p] = NoTU
    BY <1>4 DEF Core, FramesOK, FrameOK, DialBody
  <2>2. /\ mem' = mem
        /\ \/ UNCHANGED <<chat, ref>>
           \/ /\ chat[u] = NoTU
              /\ chat' = [chat EXCEPT ![p] = u, ![u] = p]
              /\ ref' = [ref EXCEPT ![p] = @ + 1, ![u] = @ + 1]
    BY <1>4, <2>1 DEF DialBody, InUse
  <2> HIDE DEF u
  <2>3. CASE UNCHANGED <<chat, ref>>
    BY <1>1, <2>2, <2>3
  <2>4. CASE /\ chat[u] = NoTU
             /\ chat' = [chat EXCEPT ![p] = u, ![u] = p]
             /\ ref' = [ref EXCEPT ![p] = @ + 1, ![u] = @ + 1]
    BY <2>1, <2>2, <2>4 DEF Core, TypeOK, RefsFollow, LinkOf
  <2> QED BY <2>2, <2>3, <2>4
<1>5. UNCHANGED <<chat, ref, mem>> \/ HangUpCall(p) \/ HangUpFinish(p) \/ DialBody(p)
  BY DEF Step, LockPeek, LockFirst, LockSecond, Recheck, PickUp, Answer, PickUpIgnored,
         HangUpIdle, DialPeek, ChatPeek, ChatBody, tuVars
<1> QED BY <1>1, <1>2, <1>3, <1>4, <1>5

(* No step touches what was set when the TU was registered. *)
LEMMA WiringStep == ASSUME NEW p \in TU, Step(p) PROVE UNCHANGED wiring
BY DEF Step, LockPeek, LockFirst, LockSecond, Recheck, PickUp, Answer, PickUpIgnored,
       HangUpCall, HangUpFinish, HangUpIdle, DialPeek, DialBody, ChatPeek, ChatBody, tuVars

-----------------------------------------------------------------------------
(* What the clients are told. *)

(* While every TU is registered at its own descriptor, tu_notify reaches   *)
(* the client of the TU and no other.                                      *)
LEMMA NotifyReaches ==
    ASSUME WiringOK, NEW S \in SUBSET TU, Notify(S)
    PROVE  /\ told' = [c \in TU |-> IF c \in S THEN Message(state'[c], chat[c])
                                                ELSE told[c]]
           /\ heard' = [c \in TU |-> IF c \in S THEN NoTU ELSE heard[c]]
<1> DEFINE from(c) == {t \in S : conn[fd[t]] = c}
           notified == {c \in TU : from(c) # {}}
<1>1. \A c \in TU : from(c) = IF c \in S THEN {c} ELSE {}
  BY DEF WiringOK
<1>2. \A c \in S : (CHOOSE t \in from(c) : TRUE) = c
  <2> SUFFICES ASSUME NEW c \in S PROVE (CHOOSE t \in from(c) : TRUE) = c
    OBVIOUS
  <2>1. from(c) = {c}
    BY <1>1
  <2> HIDE DEF from
  <2>2. (CHOOSE t \in from(c) : TRUE) \in from(c)
    BY <2>1
  <2> QED BY <2>1, <2>2
<1>3. notified = S
  BY <1>1
<1>4. /\ told' = [c \in TU |-> IF c \in notified
                               THEN Message(state'[CHOOSE t \in from(c) : TRUE],
                                            chat[CHOOSE t \in from(c) : TRUE])
                               ELSE told[c]]
      /\ heard' = [c \in TU |-> IF c \in notified THEN NoTU ELSE heard[c]]
  BY DEF Notify, Sent
<1> HIDE DEF from, notified
<1> QED BY <1>2, <1>3, <1>4

(* If those whose state changes are notified, and nobody loses or gets a   *)
(* peer while connected, the displays stay right.                          *)
LEMMA NotifyTold ==
    ASSUME IInv, NEW S \in SUBSET TU, Notify(S),
           \A t \in TU \ S : state'[t] = state[t],
           \A t \in TU : chat'[t] = chat[t] \/ state'[t] # "CONNECTED"
    PROVE  ToldOK' /\ ChatReachesOnlyThePeer'
<1>1. /\ told' = [c \in TU |-> IF c \in S THEN Message(state'[c], chat[c]) ELSE told[c]]
      /\ heard' = [c \in TU |-> IF c \in S THEN NoTU ELSE heard[c]]
  BY NotifyReaches DEF IInv
<1>2. ToldOK'
  BY <1>1 DEF IInv, ToldOK, Message
<1>3. ChatReachesOnlyThePeer'
  BY <1>1 DEF IInv, ChatReachesOnlyThePeer
<1> QED BY <1>2, <1>3

(* tu_chat notifies its own client and sends the message to the peer's, if *)
(* the two are still connected.                                            *)
LEMMA ChatBodyTold ==
    ASSUME IInv, NEW p \in TU, ChatBody(p)
    PROVE  ToldOK' /\ ChatReachesOnlyThePeer'
<1> DEFINE u == target[p]
<1>1. tu[p] = p /\ u \in TU \ {p} /\ UNCHANGED <<state, chat>>
  BY DEF IInv, FramesOK, FrameOK, ChatBody
<1>2. /\ told' = [c \in TU |-> IF c = p THEN Message(state[p], chat[p]) ELSE told[c]]
      /\ heard' = [c \in TU |-> IF c = p THEN NoTU
                                ELSE IF c = u /\ StillConnected(p, u) THEN p
                                ELSE heard[c]]
  <2>1. conn[fd[p]] = p /\ conn[fd[u]] = u
    BY <1>1 DEF IInv, WiringOK
  <2> QED BY <1>1, <2>1 DEF ChatBody
<1> HIDE DEF u
<1>3. ToldOK'
  BY <1>1, <1>2 DEF IInv, ToldOK
<1>4. ChatReachesOnlyThePeer'
  <2>1. StillConnected(p, u) => told[u] = <<"CONNECTED", p>>
    BY <1>1 DEF StillConnected, IInv, ToldOK, Message
  <2>2. \A c \in TU : told'[c] = told[c]
    BY <1>2 DEF IInv, TypeOK, ToldOK
  <2> QED BY <1>1, <1>2, <2>1, <2>2 DEF IInv, ChatReachesOnlyThePeer
<1> QED BY <1>3, <1>4

LEMMA ToldStep ==
    ASSUME IInv, NEW p \in TU, Step(p)
    PROVE  ToldOK' /\ ChatReachesOnlyThePeer'
<1>0. Core /\ TypeOK
  BY DEF IInv, Core
<1>1. CASE UNCHANGED <<state, chat, clientVars>>
  BY <1>1 DEF IInv, ToldOK, Message, ChatReachesOnlyThePeer, clientVars
<1>2. CASE PickUp(p) \/ HangUpIdle(p)
  <2>1. tu[p] = p
    BY <1>0, <1>2, BodyFacts DEF PickUp, HangUpIdle
  <2>2. /\ {p} \in SUBSET TU /\ Notify({p}) /\ UNCHANGED chat
        /\ \A t \in TU \ {p} : state'[t] = state[t]
    BY <1>0, <1>2, <2>1 DEF PickUp, HangUpIdle, TypeOK
  <2> QED BY <2>2, NotifyTold
<1>3. CASE Answer(p)
  <2>1. tu[p] = p /\ chat[p] \in TU
    BY <1>0, <1>3, BodyFacts DEF Answer, CanAnswer
  <2>2. /\ {p, chat[p]} \in SUBSET TU /\ Notify({p, chat[p]}) /\ UNCHANGED chat
        /\ \A t \in TU \ {p, chat[p]} : state'[t] = state[t]
    BY <1>0, <1>3, <2>1 DEF Answer, TypeOK
  <2> QED BY <2>2, NotifyTold
<1>4. CASE PickUpIgnored(p)
  <2> DEFINE S == IF state[p] = "RINGING" /\ chat[p] = NoTU THEN {} ELSE {p}
  <2>1. tu[p] = p
    BY <1>0, <1>4, BodyFacts DEF PickUpIgnored
  <2>2. S \in SUBSET TU /\ Notify(S) /\ UNCHANGED <<state, chat>>
    BY <1>4, <2>1 DEF PickUpIgnored
  <2> HIDE DEF S
  <2> QED BY <2>2, NotifyTold
<1>5. CASE HangUpCall(p)
  <2> DEFINE u == chat[p]
  <2>1. tu[p] = p /\ u \in TU \ {p}
    BY <1>0, <1>5, BodyFacts DEF HangUpCall
  <2>2. /\ {p, u} \in SUBSET TU /\ Notify({p, u})
        /\ \A t \in TU \ {p, u} : state'[t] = state[t]
        /\ \A t \in TU : chat'[t] = chat[t] \/ state'[t] # "CONNECTED"
    BY <1>0, <1>5, <2>1 DEF HangUpCall, TypeOK
  <2> HIDE DEF u
  <2> QED BY <2>2, NotifyTold
<1>6. CASE HangUpFinish(p)
  <2>1. pc[p] = "hangup_finish" /\ tu[p] = p
    BY <1>6 DEF IInv, FramesOK, FrameOK, HangUpFinish
  <2>2. state[p] # "CONNECTED"
    <3>1. Peer[p] = NoTU
      BY <2>1, PeerLemma DEF IInv, PeerIsChat
    <3> QED BY <3>1 DEF IInv, C!CallsOK, C!EndsAgree, C!InCall
  <2>3. chat' = [chat EXCEPT ![p] = NoTU] /\ UNCHANGED <<state, clientVars>>
    BY <1>6, <2>1 DEF HangUpFinish
  <2>4. ToldOK'
    BY <1>0, <2>2, <2>3 DEF IInv, TypeOK, ToldOK, Message, clientVars
  <2> QED BY <2>3, <2>4 DEF IInv, ChatReachesOnlyThePeer, clientVars
<1>7. CASE DialPeek(p)
  <2>1. tu[p] = p
    BY <1>7 DEF IInv, FramesOK, FrameOK, DialPeek
  <2>2. CASE UNCHANGED <<state, clientVars>>
    BY <1>1, <1>7, <2>2 DEF DialPeek
  <2>3. CASE ~UNCHANGED <<state, clientVars>>
    <3>1. /\ {p} \in SUBSET TU /\ Notify({p}) /\ UNCHANGED chat
          /\ \A t \in TU \ {p} : state'[t] = state[t]
      BY <1>0, <1>7, <2>1, <2>3 DEF DialPeek, TypeOK
    <3> QED BY <3>1, NotifyTold
  <2> QED BY <2>2, <2>3
<1>8. CASE DialBody(p)
  <2> DEFINE u == target[p]
  <2>1. tu[p] = p /\ u \in TU \ {p}
    BY <1>8 DEF IInv, FramesOK, FrameOK, DialBody
  <2>2. CASE InUse(u)
    <3>1. /\ {p} \in SUBSET TU /\ Notify({p}) /\ UNCHANGED chat
          /\ \A t \in TU \ {p} : state'[t] = state[t]
      BY <1>0, <1>8, <2>1, <2>2 DEF DialBody, TypeOK
    <3> QED BY <3>1, NotifyTold
  <2>3. CASE ~InUse(u)
    <3>1. /\ {p, u} \in SUBSET TU /\ Notify({p, u})
          /\ state' = [state EXCEPT ![p] = "RING_BACK", ![u] = "RINGING"]
          /\ chat' = [chat EXCEPT ![p] = u, ![u] = p]
      BY <1>8, <2>1, <2>3 DEF DialBody
    <3>2. /\ \A t \in TU \ {p, u} : state'[t] = state[t]
          /\ \A t \in TU : chat'[t] = chat[t] \/ state'[t] # "CONNECTED"
      BY <1>0, <2>1, <3>1 DEF TypeOK
    <3> HIDE DEF u
    <3> QED BY <3>1, <3>2, NotifyTold
  <2> QED BY <2>2, <2>3
<1>9. CASE ChatPeek(p)
  <2>1. tu[p] = p
    BY <1>9 DEF IInv, FramesOK, FrameOK, ChatPeek
  <2>2. CASE UNCHANGED clientVars
    BY <1>1, <1>9, <2>2 DEF ChatPeek, tuVars
  <2>3. CASE ~UNCHANGED clientVars
    <3>1. {p} \in SUBSET TU /\ Notify({p}) /\ UNCHANGED <<state, chat>>
      BY <1>9, <2>1, <2>3 DEF ChatPeek, tuVars
    <3> QED BY <3>1, NotifyTold
  <2> QED BY <2>2, <2>3
<1>10. CASE ChatBody(p)
  BY <1>10, ChatBodyTold
<1>11. \/ UNCHANGED <<state, chat, clientVars>> \/ PickUp(p) \/ HangUpIdle(p)
       \/ Answer(p) \/ PickUpIgnored(p) \/ HangUpCall(p) \/ HangUpFinish(p)
       \/ DialPeek(p) \/ DialBody(p) \/ ChatPeek(p) \/ ChatBody(p)
  BY DEF Step, LockPeek, LockFirst, LockSecond, Recheck
<1> QED BY <1>1, <1>2, <1>3, <1>4, <1>5, <1>6, <1>7, <1>8, <1>9, <1>10, <1>11

-----------------------------------------------------------------------------
(* The specification. *)

(* Initially every TU is registered, on hook and out of any call.          *)
LEMMA InitOK == Init => IInv /\ C!Init
<1> SUFFICES ASSUME Init PROVE IInv /\ C!Init
  OBVIOUS
<1>1. ext \in [TU -> Ext] /\ Injective(ext) /\ fd = ext
  BY DEF Init
<1>2. /\ state = [t \in TU |-> "ON_HOOK"] /\ chat = [t \in TU |-> NoTU]
      /\ chatLocked = [t \in TU |-> FALSE] /\ ref = [t \in TU |-> 2]
      /\ mutex = [t \in TU |-> NoThread] /\ mem = [t \in TU |-> "live"]
      /\ told = [t \in TU |-> <<"ON_HOOK", NoTU>>] /\ heard = [t \in TU |-> NoTU]
      /\ pc = [p \in Thread |-> "idle"] /\ op = [p \in Thread |-> "none"]
      /\ tu = [p \in Thread |-> NoTU] /\ target = [p \in Thread |-> NoTU]
      /\ outcome = "running"
  BY DEF Init, Message
<1>3. conn \in [Ext -> TU \cup {NoTU}] /\ \A t \in TU : conn[ext[t]] = t
  <2> DEFINE owner(e) == CHOOSE t \in TU : fd[t] = e
  <2>1. conn = [e \in Ext |-> IF \E t \in TU : fd[t] = e THEN owner(e) ELSE NoTU]
    BY DEF Init
  <2>2. \A e \in Ext : (\E t \in TU : fd[t] = e) => owner(e) \in TU /\ fd[owner(e)] = e
    OBVIOUS
  <2> HIDE DEF owner
  <2>3. conn \in [Ext -> TU \cup {NoTU}]
    BY <2>1, <2>2
  <2>4. ASSUME NEW t \in TU PROVE conn[ext[t]] = t
    <3>1. ext[t] \in Ext /\ conn[ext[t]] = owner(ext[t])
      BY <1>1, <2>1
    <3>2. owner(ext[t]) \in TU /\ ext[owner(ext[t])] = ext[t]
      BY <1>1, <2>2, <3>1
    <3>3. owner(ext[t]) = t
      BY <1>1, <3>2 DEF Injective
    <3> QED BY <3>1, <3>3
  <2> QED BY <2>3, <2>4
<1>4. TypeOK
  BY <1>1, <1>2, <1>3 DEF TypeOK, TUState, Memory, Label, Op, Outcome
<1>5. LocksHeld
  BY <1>2 DEF LocksHeld, Held
<1>6. FramesOK
  BY <1>2 DEF FramesOK, FrameOK
<1>7. WiringOK
  BY <1>1, <1>3 DEF WiringOK
<1>8. RefsOK /\ ToldOK /\ ChatReachesOnlyThePeer
  BY <1>2 DEF RefsOK, ToldOK, Message, ChatReachesOnlyThePeer
<1>9. Peer = [t \in TU |-> NoTU]
  BY <1>2, <1>4, <1>6, PeerLemma DEF PeerIsChat
<1>10. C!Init
  BY <1>2, <1>9 DEF C!Init
<1>11. C!CallsOK
  BY <1>2, <1>9 DEF C!CallsOK, C!TypeOK, C!PeersMutual, C!EndsAgree, C!TUState, C!InCall
<1> QED BY <1>4, <1>5, <1>6, <1>7, <1>8, <1>10, <1>11 DEF IInv

(* Every step of the specification preserves the invariant, and is a step  *)
(* of the abstract exchange or invisible there.                            *)
LEMMA NextOK == IInv /\ [Next]_vars => IInv' /\ [C!Next]_C!vars
<1> SUFFICES ASSUME IInv, [Next]_vars PROVE IInv' /\ [C!Next]_C!vars
  OBVIOUS
<1>1. Core /\ Counted
  BY DEF IInv, Core, TypeOK, Counted, RefsOK
<1>2. CASE UNCHANGED vars
  <2>1. UNCHANGED <<state, chat, chatLocked, ref, ext, fd, conn, mutex, mem, told,
                    heard, pc, op, tu, target, outcome>>
    BY <1>2 DEF vars, tuVars, wiring, clientVars, frame
  <2>2. TypeOK' /\ WiringOK' /\ RefsOK' /\ ToldOK' /\ ChatReachesOnlyThePeer'
    BY <2>1 DEF IInv, TypeOK, WiringOK, RefsOK, ToldOK, Message, ChatReachesOnlyThePeer
  <2>3. FramesOK' /\ LocksHeld'
    BY <2>1 DEF IInv, FramesOK, FrameOK, LocksHeld, Held, First
  <2>4. Silent
    BY <2>1 DEF Silent, wiring, clientVars
  <2>5. Core' /\ UNCHANGED C!vars
    BY <1>1, <2>2, <2>3, <2>4, SilentStep
  <2> QED BY <2>2, <2>5 DEF IInv, Core
<1>3. CASE Next
  <2>1. CASE Killed
    BY <1>2, <2>1 DEF Killed
  <2>2. ASSUME NEW t \in TU, Command(t)
        PROVE  IInv' /\ [C!Next]_C!vars
    <3>1. Core' /\ UNCHANGED C!vars
      BY <1>1, <2>2, CommandOK
    <3>2. UNCHANGED <<tuVars, clientVars>>
      BY <2>2 DEF Command
    <3>3. WiringOK' /\ RefsOK' /\ ToldOK' /\ ChatReachesOnlyThePeer'
      BY <3>2 DEF IInv, WiringOK, RefsOK, ToldOK, Message, ChatReachesOnlyThePeer,
                  tuVars, wiring, clientVars
    <3> QED BY <3>1, <3>3 DEF IInv, Core
  <2>3. ASSUME NEW t \in TU, Step(t)
        PROVE  IInv' /\ [C!Next]_C!vars
    <3>1. Core' /\ [C!Next]_C!vars
      BY <1>1, <2>3, StepOK
    <3>2. WiringOK'
      BY <2>3, WiringStep DEF IInv, WiringOK, wiring
    <3>3. RefsOK'
      <4>1. RefsFollow
        BY <1>1, <2>3, RefsStep
      <4> SUFFICES ASSUME NEW u \in TU
                   PROVE  ref'[u] = 2 + LinkOf(chat', u) /\ mem'[u] = "live"
        BY DEF RefsOK, LinkOf
      <4>2. ref[u] = 2 + LinkOf(chat, u) /\ mem[u] = "live"
        BY DEF IInv, RefsOK, LinkOf
      <4>3. ref'[u] = ref[u] + LinkOf(chat', u) - LinkOf(chat, u)
        BY <4>1 DEF RefsFollow
      <4>4. LinkOf(chat, u) \in {0, 1} /\ LinkOf(chat', u) \in {0, 1}
        BY DEF LinkOf
      <4>5. ref'[u] = 2 + LinkOf(chat', u) /\ ref'[u] # 0
        BY <4>2, <4>3, <4>4
      <4> QED BY <4>1, <4>2, <4>5 DEF RefsFollow
    <3>4. ToldOK' /\ ChatReachesOnlyThePeer'
      BY <2>3, ToldStep
    <3> QED BY <3>1, <3>2, <3>3, <3>4 DEF IInv, Core
  <2> QED BY <1>3, <2>1, <2>2, <2>3 DEF Next
<1> QED BY <1>2, <1>3

-----------------------------------------------------------------------------
(* The inductive invariant holds of every reachable state of tu.c.         *)
THEOREM Invariance == Spec => []IInv
<1>1. Init => IInv
  BY InitOK
<1>2. IInv /\ [Next]_vars => IInv'
  BY NextOK
<1> QED BY <1>1, <1>2, PTL DEF Spec

(* Every variable keeps its type; in particular no reference count becomes *)
(* negative and no telephone leaves enum tu_state.                         *)
THEOREM TypeCorrect == Spec => []TypeOK
<1>1. IInv => TypeOK
  BY DEF IInv
<1> QED BY <1>1, Invariance, PTL

(* Mutual exclusion: a mutex of tu.c is owned by exactly the thread whose   *)
(* program counter says that it holds it, so tu_unlock, which trusts       *)
(* chat_locked, never unlocks a TU that another thread has locked.         *)
THEOREM MutualExclusion == Spec => []LocksHeld
<1>1. IInv => LocksHeld
  BY DEF IInv
<1> QED BY <1>1, Invariance, PTL

(* Whoever waits for a mutex holds only mutexes of smaller extensions, the *)
(* reason why tu_lock, tu_dial and tu_chat cannot deadlock.                *)
THEOREM OrderedLocking == Spec => []LockOrder
<1>1. IInv => LockOrder
  <2> SUFFICES ASSUME IInv, NEW p \in Thread, pc[p] = "lock_second",
                      NEW t \in TU, mutex[t] = p
               PROVE  ext[t] < ext[Second(tu[p], target[p])]
    BY DEF LockOrder
  <2>1. p \in TU /\ tu[p] = p /\ target[p] \in TU \ {p}
    BY DEF IInv, FramesOK, FrameOK
  <2>2. t = First(p, target[p])
    BY <2>1 DEF IInv, LocksHeld, Held
  <2>3. ext[p] # ext[target[p]] /\ ext[p] \in Nat /\ ext[target[p]] \in Nat
    BY ZenonT(60), <2>1, ExtAssumption DEF IInv, WiringOK, Injective, TypeOK
  <2> QED BY <2>1, <2>2, <2>3 DEF First, Second
<1> QED BY <1>1, Invariance, PTL

(* The reference count of a TU that nobody has locked is exact, so hanging *)
(* up never frees a telephone that is still registered.                    *)
THEOREM ExactReferences == Spec => []RefCountExact
<1>1. IInv => RefCountExact
  BY DEF IInv, RefsOK, RefCountExact
<1> QED BY <1>1, Invariance, PTL

(* A client's last notification names the present state of its telephone,  *)
(* whoever changed it.                                                     *)
THEOREM UpToDate == Spec => []ClientsUpToDate
<1>1. IInv => ClientsUpToDate
  BY DEF IInv, ToldOK, ClientsUpToDate
<1> QED BY <1>1, Invariance, PTL

(* A chat message reaches only the client connected to its sender.         *)
THEOREM ChatIsPrivate == Spec => []ChatReachesOnlyThePeer
<1>1. IInv => ChatReachesOnlyThePeer
  BY DEF IInv
<1> QED BY <1>1, Invariance, PTL

(* The locking protocol implements the exchange in which every operation   *)
(* is a single step: refinement under the mapping Peer.                    *)
THEOREM Refinement == Spec => ImplementsCalls
<1>1. Init => C!Init
  BY InitOK
<1>2. IInv /\ [Next]_vars => [C!Next]_C!vars
  BY NextOK
<1> QED BY <1>1, <1>2, Invariance, PTL DEF Spec, ImplementsCalls, C!Spec

-----------------------------------------------------------------------------
USE MainAssumption

(* The mutex of the registry. *)

Labels == ServiceLabel \cup MainLabel

(* The places where a thread has the registry locked. *)
Locking == {"dialling", "helper_shutdown", "helper_unref", "clear", "scan"}

MutexInv == svc \in [Thread -> Labels] /\ PBXMutexHeld

(* A thread locks the registry when it is free, unlocks it when it is its  *)
(* own, or does neither.                                                   *)
LEMMA MutexKept ==
    ASSUME MutexInv, NEW p \in Thread, NEW label \in Labels, Continue(p, label),
           \/ pbxMutex = NoThread /\ pbxMutex' = p /\ label \in Locking
           \/ svc[p] \in Locking /\ pbxMutex' = NoThread /\ label \notin Locking
           \/ pbxMutex' = pbxMutex /\ (svc[p] \in Locking <=> label \in Locking)
    PROVE  MutexInv'
BY DEF MutexInv, PBXMutexHeld, Continue, Locking

(* Every action of the server moves a thread as MutexKept allows.         *)
LEMMA MutexStepOK ==
    ASSUME MutexInv, [PBXNext]_allVars
    PROVE  MutexInv'
<1> USE DEF ServiceLabel, MainLabel, Labels, Locking
<1>1. CASE UNCHANGED <<svc, pbxMutex>>
  BY <1>1 DEF MutexInv, PBXMutexHeld
<1>2. ASSUME NEW t \in TU, Accept(t)
      PROVE  MutexInv'
  BY <1>2, MutexKept DEF Accept, Begin, pbxVars
<1>3. ASSUME NEW t \in TU, DialCommand(t) \/ ReadEof(t) \/ Register(t) \/ RegisterFails(t)
                          \/ ReleaseOwn(t) \/ GetExtension(t) \/ UnregisterFails(t)
      PROVE  MutexInv'
  BY <1>3, MutexKept DEF DialCommand, ReadEof, Register, RegisterFails, ReleaseOwn,
                         GetExtension, UnregisterFails, At, pbxVars
<1>4. ASSUME NEW t \in TU, Dial(t) \/ DialReturn(t) \/ Unregister(t) \/ UnregisterReturn(t)
      PROVE  MutexInv'
  BY <1>4, MutexKept DEF Dial, DialReturn, Unregister, UnregisterReturn, At,
                         LockPBX, UnlockPBX
<1>5. ASSUME NEW p \in Thread, HelperStep(p)
      PROVE  MutexInv'
  BY <1>5, MutexKept DEF HelperStep, HelperShutdown, HelperUnref, At, pbxVars
<1>6. ASSUME Sighup \/ ShutdownLock \/ ShutdownNext
      PROVE  MutexInv'
  BY <1>6, MutexKept DEF Sighup, ShutdownLock, ShutdownNext, At, LockPBX, pbxVars
<1>7. ASSUME ShutdownClear \/ ShutdownUnlock \/ ShutdownFree
      PROVE  MutexInv'
  BY <1>7, MutexKept DEF ShutdownClear, ShutdownUnlock, ShutdownFree, At, UnlockPBX
<1>8. \/ UNCHANGED <<svc, pbxMutex>>
      \/ \E t \in TU : \/ Accept(t) \/ DialCommand(t) \/ ReadEof(t) \/ Register(t)
                       \/ RegisterFails(t) \/ ReleaseOwn(t) \/ GetExtension(t)
                       \/ UnregisterFails(t) \/ Dial(t) \/ DialReturn(t)
                       \/ Unregister(t) \/ UnregisterReturn(t)
      \/ \E p \in Thread : HelperStep(p)
      \/ Sighup \/ ShutdownLock \/ ShutdownNext \/ ShutdownClear \/ ShutdownUnlock
      \/ ShutdownFree
  BY DEF PBXNext, allVars, pbxVars, ServiceStep, RunCommand, TUStep, Touch, TouchFreedTU,
         TouchFreedPBX, ShutdownStep, Exit
<1> QED BY <1>1, <1>2, <1>3, <1>4, <1>5, <1>6, <1>7, <1>8

(* Nobody has the registry locked when the server starts.                  *)
LEMMA MutexInit == PBXInit => MutexInv
<1> SUFFICES ASSUME PBXInit PROVE MutexInv
  OBVIOUS
<1>1. /\ svc = [p \in Thread |-> IF p = Main THEN "accepting" ELSE "none"]
      /\ pbxMutex = NoThread
  BY DEF PBXInit
<1> QED BY <1>1 DEF MutexInv, PBXMutexHeld, Labels, ServiceLabel, MainLabel

(* The registry's mutex belongs to the thread whose place in pbx.c says so, *)
(* for any number of clients, before, during and after the shutdown.       *)
THEOREM RegistryMutex == PBXSpec => []PBXMutexHeld
<1>1. MutexInv => PBXMutexHeld
  BY DEF MutexInv
<1>2. MutexInv /\ [PBXNext]_allVars => MutexInv'
  BY MutexStepOK
<1> QED BY <1>1, <1>2, MutexInit, PTL DEF PBXSpec
-----------------------------------------------------------------------------
(* The server until SIGHUP arrives. *)

Open == ServerInv /\ MutexInv /\ svc[Main] = "accepting"

(* Every descriptor a client can have is an index of the registry.         *)
LEMMA ExtInIndex == Ext \subseteq Index
<1>1. \A e \in 1 .. MaxExt - 1 : e \in 0 .. MaxExt - 1
  BY MaxExtAssumption
<1> QED BY <1>1, MaxExtAssumption DEF Index

(* Only t's place in server.c and pbx.c has changed, to label. *)
Moved(t, label) ==
    /\ svc'[t] = label
    /\ \A q \in Thread \ {t} : svc'[q] = svc[q]

(* A service thread that goes on leaves every other thread where it was.   *)
LEMMA MoveTypes ==
    ASSUME MutexInv, PBXTypeOK, NEW t \in TU, NEW label \in ServiceLabel,
           Continue(t, label)
    PROVE  /\ Moved(t, label) /\ svc'[Main] = svc[Main]
           /\ DOMAIN svc' = Thread /\ \A u \in TU : svc'[u] \in ServiceLabel
BY DEF MutexInv, PBXTypeOK, Continue, Moved

(* The server keeps what the lemmas about tu.c ask for.                    *)
LEMMA OpenCore == ASSUME Open PROVE Core /\ Counted
<1>1. Core
  BY DEF Open, ServerInv, PBXTypeOK, Core
<1>2. Counted
  BY DEF Open, ServerInv, PBXTypeOK, TypeOK, ServiceOK, InService, ReferencesOK, References, Held1,
         Registered, Counted
<1> QED BY <1>1, <1>2

(* Two TUs in the registry have different extensions. *)
LEMMA RegisteredApart ==
    ASSUME Open, NEW t \in TU, NEW u \in TU, t # u, Registered(t), Registered(u)
    PROVE  ext[t] # ext[u]
BY DEF Open, ServerInv, RegistryOK

(* Steps of pbx.c and server.c that leave the telephones alone. *)
LEMMA CoreKept ==
    ASSUME Core, TypeOK', UNCHANGED <<state, chat, chatLocked, mutex, frame>>,
           \A q \in Thread : pc[q] = "lock_second" =>
              First(tu[q], target[q])' = First(tu[q], target[q])
    PROVE  Core' /\ UNCHANGED C!vars
<1>1. UNCHANGED <<pc, op, tu, target>>
  BY DEF frame
<1>2. Peer' = Peer
  BY <1>1 DEF Peer
<1>3. UNCHANGED C!vars
  BY <1>2 DEF C!vars
<1>4. C!CallsOK'
  BY <1>2 DEF Core, C!CallsOK, C!TypeOK, C!PeersMutual, C!EndsAgree
<1>5. LocksHeld'
  BY <1>1 DEF Core, LocksHeld, Held
<1>6. FramesOK'
  BY <1>1 DEF Core, FramesOK, FrameOK
<1> QED BY <1>3, <1>4, <1>5, <1>6 DEF Core

(* The same for steps that change no extension either.                     *)
LEMMA CoreKeptExt ==
    ASSUME Core, TypeOK', UNCHANGED <<state, chat, chatLocked, mutex, frame, ext>>
    PROVE  Core' /\ UNCHANGED C!vars
<1>1. \A q \in Thread : First(tu[q], target[q])' = First(tu[q], target[q])
  BY DEF First, frame
<1> QED BY <1>1, CoreKept

(* Steps that change nothing but a thread's place. *)
LEMMA PlainOK ==
    ASSUME Open, NEW t \in TU, DialCommand(t) \/ DialReturn(t) \/ GetExtension(t)
    PROVE  ServerInv' /\ UNCHANGED C!vars
<1> USE DEF ServiceLabel
<1>1. PICK a \in ServiceLabel, b \in ServiceLabel :
        /\ At(t, a) /\ Continue(t, b)
        /\ UNCHANGED <<vars, registry, pbxFreed, shut>>
        /\ \/ a = "reading" /\ b = "want_dial"
           \/ a = "dialling" /\ b = "reading"
           \/ a = "get_ext" /\ b = "want_unregister"
        /\ pbxMutex' \in {pbxMutex, NoThread}
  BY DEF DialCommand, DialReturn, GetExtension, UnlockPBX, pbxVars
<1>2. svc[t] = a /\ pc[t] = "idle" /\ Moved(t, b) /\ svc'[Main] = svc[Main]
  BY <1>1, MoveTypes DEF Open, ServerInv, At
<1>3. UNCHANGED <<state, chat, chatLocked, ref, ext, fd, conn, mutex, mem, told, heard,
                  pc, op, tu, target, outcome>>
  BY <1>1 DEF vars, tuVars, wiring, clientVars, frame
<1>4. PBXTypeOK'
  <2>1. TypeOK'
    BY <1>3 DEF Open, ServerInv, PBXTypeOK, TypeOK
  <2>2. DOMAIN svc' = Thread /\ \A u \in TU : svc'[u] \in ServiceLabel
    BY <1>1, MoveTypes DEF Open, ServerInv
  <2> QED BY <1>1, <1>2, <2>1, <2>2 DEF Open, ServerInv, PBXTypeOK
<1>5. Core' /\ UNCHANGED C!vars
  BY <1>3, <1>4, OpenCore, CoreKeptExt DEF PBXTypeOK, frame
<1>6. RegistryOK'
  BY <1>1, <1>2, <1>3 DEF Open, ServerInv, PBXTypeOK, RegistryOK, Connected, Registered, Moved
<1>7. ServiceOK'
  <2>1. /\ chat \in [TU -> TU \cup {NoTU}] /\ target \in [Thread -> TU \cup {NoTU}]
        /\ ext \in [TU -> Ext \cup {0}]
    BY DEF Open, ServerInv, PBXTypeOK, TypeOK
  <2> QED BY <1>1, <1>2, <1>3, <2>1 DEF Open, ServerInv, ServiceOK, InService, Registered, Unseen, Moved
<1>8. ReferencesOK'
  BY <1>1, <1>2, <1>3 DEF Open, ServerInv, PBXTypeOK, ReferencesOK, References, Held1,
                          OwnReference, Registered, Moved
<1> QED BY <1>1, <1>3, <1>4, <1>5, <1>6, <1>7, <1>8 DEF Open, ServerInv, Core

(* A client connects: nothing is known of its TU yet.                      *)
LEMMA AcceptOK ==
    ASSUME Open, NEW t \in TU, Accept(t)
    PROVE  ServerInv' /\ UNCHANGED C!vars
<1>1. PICK e \in Ext : /\ conn[e] = NoTU
                       /\ conn' = [conn EXCEPT ![e] = t]
                       /\ fd' = [fd EXCEPT ![t] = e]
  BY DEF Accept
<1>2. /\ svc[t] = "none" /\ Continue(t, "start")
      /\ mem' = [mem EXCEPT ![t] = "live"] /\ ref' = [ref EXCEPT ![t] = 1]
      /\ UNCHANGED <<state, chat, chatLocked, ext, mutex, told, heard, pc, op, tu,
                     target, outcome, registry, pbxMutex, pbxFreed, shut>>
  BY DEF Accept, Begin, clientVars, frame, pbxVars
<1>3. Moved(t, "start") /\ DOMAIN svc' = Thread /\ svc'[Main] = svc[Main]
      /\ \A u \in TU : svc'[u] \in ServiceLabel
  BY <1>2, MoveTypes DEF Open, ServerInv, ServiceLabel
<1>4. TypeOK
  BY DEF Open, ServerInv, PBXTypeOK
<1>5. TypeOK'
  BY <1>1, <1>2, <1>4 DEF TypeOK, Memory
<1>6. PBXTypeOK'
  BY <1>2, <1>3, <1>5 DEF Open, ServerInv, PBXTypeOK
<1>7. Core' /\ UNCHANGED C!vars
  BY <1>2, <1>5, OpenCore, CoreKeptExt DEF frame
<1>8. RegistryOK'
  <2>1. fd \in [TU -> Ext \cup {0}] /\ conn \in [Ext -> TU \cup {NoTU}]
        /\ registry \in [Index -> TU \cup {NoTU}]
    BY <1>4 DEF TypeOK, Open, ServerInv, PBXTypeOK
  <2> QED BY <1>1, <1>2, <1>3, <2>1
          DEF Open, ServerInv, RegistryOK, Connected, Registered, Moved
<1>9. ServiceOK'
  <2>1. /\ chat \in [TU -> TU \cup {NoTU}] /\ target \in [Thread -> TU \cup {NoTU}]
        /\ ext \in [TU -> Ext \cup {0}]
    BY DEF Open, ServerInv, PBXTypeOK, TypeOK
  <2> QED BY <1>2, <1>3, <1>4, <2>1 DEF Open, ServerInv, ServiceOK, InService, Registered, Unseen, Moved
<1>10. ReferencesOK'
  <2>1. chat[t] = NoTU
    BY <1>2 DEF Open, ServerInv, ServiceOK, InService, Registered
  <2> QED BY <1>2, <1>3, <1>4, <2>1 DEF Open, ServerInv, TypeOK, ReferencesOK, References,
                 Held1, OwnReference, Registered, Moved
<1> QED BY <1>2, <1>6, <1>7, <1>8, <1>9, <1>10 DEF Open, ServerInv, Core

(* The registry gets a second reference to a TU that nobody else knows.    *)
LEMMA RegisterOK ==
    ASSUME Open, NEW t \in TU, Register(t)
    PROVE  ServerInv' /\ UNCHANGED C!vars
<1>1. /\ svc[t] = "start" /\ pc[t] = "idle" /\ registry[fd[t]] = NoTU
      /\ registry' = [registry EXCEPT ![fd[t]] = t]
      /\ ref' = [ref EXCEPT ![t] = @ + 1] /\ ext' = [ext EXCEPT ![t] = fd[t]]
      /\ Notify({t}) /\ Continue(t, "reading")
      /\ UNCHANGED <<state, chat, chatLocked, fd, conn, mutex, mem, pc, op, tu, target,
                     outcome, pbxMutex, pbxFreed, shut>>
  BY DEF Register, At, Vacant, Ref, SetExtension, frame
<1>2. Moved(t, "reading") /\ DOMAIN svc' = Thread /\ svc'[Main] = svc[Main]
      /\ \A u \in TU : svc'[u] \in ServiceLabel
  BY <1>1, MoveTypes DEF Open, ServerInv, ServiceLabel
<1>3. TypeOK /\ registry \in [Index -> TU \cup {NoTU}]
  BY DEF Open, ServerInv, PBXTypeOK
<1>4. fd[t] \in Ext /\ fd[t] \in Index
  BY <1>1, ExtInIndex DEF Open, ServerInv, RegistryOK, Connected
<1>5. TypeOK'
  <2>1. {t} \in SUBSET TU /\ state' \in [TU -> TUState]
    BY <1>1, <1>3 DEF TypeOK
  <2>2. /\ told' \in [TU -> (TUState \cup {"nothing"}) \X (TU \cup {NoTU})]
        /\ heard' \in [TU -> TU \cup {NoTU}]
    BY <1>1, <1>3, <2>1, NotifyTypes
  <2>3. ref' \in [TU -> Nat] /\ ext' \in [TU -> Ext \cup {0}]
    BY <1>1, <1>3, <1>4 DEF TypeOK
  <2> QED BY <1>1, <1>3, <2>2, <2>3 DEF TypeOK
<1>6. PBXTypeOK'
  BY <1>1, <1>2, <1>3, <1>5 DEF Open, ServerInv, PBXTypeOK
<1>7. Core' /\ UNCHANGED C!vars
  <2>1. ASSUME NEW q \in Thread, pc[q] = "lock_second"
        PROVE  First(tu[q], target[q])' = First(tu[q], target[q])
    <3>1. tu[q] = q /\ q \in TU \ {t} /\ target[q] \in TU
      BY <1>1, <2>1 DEF Open, ServerInv, FramesOK, FrameOK
    <3>2. target[q] # t
      BY <1>1, <3>1 DEF Open, ServerInv, ServiceOK, InService, Unseen
    <3> QED BY <1>1, <1>3, <3>1, <3>2 DEF First, TypeOK
  <2> QED BY <1>1, <1>5, <2>1, OpenCore, CoreKept DEF frame
<1>8. RegistryOK'
  <2>1. fd \in [TU -> Ext \cup {0}] /\ ext \in [TU -> Ext \cup {0}]
    BY <1>3 DEF TypeOK
  <2> QED BY <1>1, <1>2, <1>3, <1>4, <2>1
          DEF Open, ServerInv, RegistryOK, Connected, Registered, Moved
<1>9. ServiceOK'
  <2>1. /\ chat \in [TU -> TU \cup {NoTU}] /\ target \in [Thread -> TU \cup {NoTU}]
        /\ ext \in [TU -> Ext \cup {0}]
    BY DEF Open, ServerInv, PBXTypeOK, TypeOK
  <2> QED BY <1>1, <1>2, <1>3, <2>1 DEF Open, ServerInv, ServiceOK, InService, Registered, Unseen, Moved
<1>10. ReferencesOK'
  BY <1>1, <1>2, <1>3 DEF Open, ServerInv, TypeOK, ReferencesOK, References,
         Held1, OwnReference, Registered, Moved
<1> QED BY <1>1, <1>6, <1>7, <1>8, <1>9, <1>10 DEF Open, ServerInv, Core

(* The descriptor is released when the thread reads end of file, while the *)
(* TU stays in the registry under the descriptor's number.                 *)
LEMMA ReadEofOK ==
    ASSUME Open, NEW t \in TU, ReadEof(t)
    PROVE  ServerInv' /\ UNCHANGED C!vars
<1>1. /\ svc[t] = "reading" /\ pc[t] = "idle" /\ Continue(t, "eof")
      /\ conn' = [conn EXCEPT ![fd[t]] = NoTU]
      /\ UNCHANGED <<state, chat, chatLocked, ref, ext, fd, mutex, mem, told, heard, pc,
                     op, tu, target, outcome, registry, pbxMutex, pbxFreed, shut>>
  BY DEF ReadEof, At, clientVars, frame, pbxVars
<1>2. Moved(t, "eof") /\ DOMAIN svc' = Thread /\ svc'[Main] = svc[Main]
      /\ \A u \in TU : svc'[u] \in ServiceLabel
  BY <1>1, MoveTypes DEF Open, ServerInv, ServiceLabel
<1>3. TypeOK
  BY DEF Open, ServerInv, PBXTypeOK
<1>4. TypeOK'
  BY <1>1, <1>3 DEF TypeOK
<1>5. PBXTypeOK'
  BY <1>1, <1>2, <1>4 DEF Open, ServerInv, PBXTypeOK
<1>6. Core' /\ UNCHANGED C!vars
  BY <1>1, <1>4, OpenCore, CoreKeptExt DEF frame
<1>7. RegistryOK'
  <2>1. conn \in [Ext -> TU \cup {NoTU}]
    BY <1>3 DEF TypeOK
  <2> QED BY <1>1, <1>2, <2>1 DEF Open, ServerInv, PBXTypeOK, RegistryOK, Connected,
                 Registered, Moved
<1>8. ServiceOK'
  <2>1. /\ chat \in [TU -> TU \cup {NoTU}] /\ target \in [Thread -> TU \cup {NoTU}]
        /\ ext \in [TU -> Ext \cup {0}]
    BY DEF Open, ServerInv, PBXTypeOK, TypeOK
  <2> QED BY <1>1, <1>2, <1>3, <2>1 DEF Open, ServerInv, ServiceOK, InService, Registered, Unseen, Moved
<1>9. ReferencesOK'
  BY <1>1, <1>2 DEF Open, ServerInv, ReferencesOK, References, Held1, OwnReference,
         Registered, Moved
<1> QED BY <1>1, <1>5, <1>6, <1>7, <1>8, <1>9 DEF Open, ServerInv, Core

(* A reference is given up: the service thread's, when it reads end of     *)
(* file or cannot register its TU, or the registry's.                      *)
LEMMA UnrefOK ==
    ASSUME Open, NEW t \in TU, RegisterFails(t) \/ ReleaseOwn(t) \/ HelperUnref(t)
    PROVE  ServerInv' /\ UNCHANGED C!vars
<1>1. /\ svc[t] \in {"start", "eof", "helper_unref"} /\ pc[t] = "idle"
      /\ ref' = [ref EXCEPT ![t] = @ - 1]
      /\ mem' = IF ref[t] <= 1 THEN [mem EXCEPT ![t] = "freed"] ELSE mem
      /\ svc[t] = "start" => conn' = [conn EXCEPT ![fd[t]] = NoTU]
      /\ svc[t] # "start" => conn' = conn
      /\ UNCHANGED <<state, chat, chatLocked, ext, fd, mutex, told, heard, pc, op, tu,
                     target, outcome, registry, pbxMutex, pbxFreed, shut>>
  BY DEF RegisterFails, ReleaseOwn, HelperUnref, HelperTU, Unref, At, wiring, clientVars,
         frame, pbxVars
<1>2. PICK l \in ServiceLabel :
        /\ Continue(t, l) /\ l # "none"
        /\ svc[t] = "start" => l = "done"
        /\ svc[t] = "eof" => l = "get_ext"
        /\ svc[t] = "helper_unref" => l = "clear"
  BY DEF RegisterFails, ReleaseOwn, HelperUnref, At, ServiceLabel
<1>3. Moved(t, l) /\ DOMAIN svc' = Thread /\ svc'[Main] = svc[Main]
      /\ \A u \in TU : svc'[u] \in ServiceLabel
  BY <1>2, MoveTypes DEF Open, ServerInv
<1>4. TypeOK
  BY DEF Open, ServerInv, PBXTypeOK
<1>5. ref[t] = References(t) /\ ref[t] \in Nat /\ ref[t] > 0 /\ mem[t] # "none"
      /\ mem[t] # "freed"
  <2>1. OwnReference(t) \/ (Registered(t) /\ svc[t] # "clear")
    BY <1>1 DEF OwnReference, Registered
  <2>2. References(t) \in Nat /\ References(t) > 0
    BY <2>1 DEF References, Held1
  <2>3. svc[t] # "none"
    BY <1>1
  <2> QED BY <2>2, <2>3 DEF Open, ServerInv, ReferencesOK
<1>6. TypeOK'
  <2>1. ref' \in [TU -> Nat]
    BY <1>1, <1>4, <1>5 DEF TypeOK
  <2>2. mem' \in [TU -> Memory]
    BY <1>1, <1>4 DEF TypeOK, Memory
  <2>3. conn' \in [Ext -> TU \cup {NoTU}]
    BY <1>1, <1>4 DEF TypeOK
  <2> QED BY <1>1, <1>4, <2>1, <2>2, <2>3 DEF TypeOK
<1>7. PBXTypeOK'
  BY <1>1, <1>3, <1>6 DEF Open, ServerInv, PBXTypeOK
<1>8. Core' /\ UNCHANGED C!vars
  BY <1>1, <1>6, OpenCore, CoreKeptExt DEF frame
<1>9. RegistryOK'
  <2>1. conn \in [Ext -> TU \cup {NoTU}]
    BY <1>4 DEF TypeOK
  <2> QED BY <1>1, <1>2, <1>3, <2>1 DEF Open, ServerInv, PBXTypeOK, RegistryOK, Connected,
                 Registered, Moved
<1>10. ServiceOK'
  <2>1. /\ chat \in [TU -> TU \cup {NoTU}] /\ target \in [Thread -> TU \cup {NoTU}]
        /\ ext \in [TU -> Ext \cup {0}]
    BY DEF Open, ServerInv, PBXTypeOK, TypeOK
  <2> QED BY <1>1, <1>2, <1>3, <1>4, <2>1 DEF Open, ServerInv, ServiceOK, InService, Registered, Unseen, Moved
<1>11. ReferencesOK'
  <2>1. References(t)' = References(t) - 1
    BY <1>1, <1>2, <1>3 DEF References, Held1, OwnReference, Registered, Moved
  <2>2. \A u \in TU \ {t} : References(u)' = References(u)
    BY <1>1, <1>3 DEF References, Held1, OwnReference, Registered, Moved
  <2>3. \A u \in TU \ {t} : /\ ref'[u] = ref[u] /\ mem'[u] = mem[u] /\ svc'[u] = svc[u]
    BY <1>1, <1>3, <1>4 DEF Moved, TypeOK
  <2>4. /\ ref'[t] = ref[t] - 1
        /\ mem'[t] = IF ref[t] <= 1 THEN "freed" ELSE mem[t]
        /\ svc'[t] = l
    BY <1>1, <1>3, <1>4 DEF Moved, TypeOK
  <2> QED BY <1>1, <1>2, <1>5, <2>1, <2>2, <2>3, <2>4 DEF Open, ServerInv, ReferencesOK
<1> QED BY <1>1, <1>7, <1>8, <1>9, <1>10, <1>11 DEF Open, ServerInv, Core

(* The end of pbx_unregister: the entry cleared is the thread's own.       *)
LEMMA UnregisterReturnOK ==
    ASSUME Open, NEW t \in TU, UnregisterReturn(t)
    PROVE  ServerInv' /\ UNCHANGED C!vars
<1>1. /\ svc[t] = "clear" /\ pc[t] = "idle" /\ Continue(t, "done")
      /\ registry' = [registry EXCEPT ![ext[t]] = NoTU] /\ pbxMutex' = NoThread
      /\ UNCHANGED <<state, chat, chatLocked, ref, ext, fd, conn, mutex, mem, told, heard,
                     pc, op, tu, target, outcome, pbxFreed, shut>>
  BY DEF UnregisterReturn, At, UnlockPBX, vars, tuVars, wiring, clientVars, frame
<1>2. Moved(t, "done") /\ DOMAIN svc' = Thread /\ svc'[Main] = svc[Main]
      /\ \A u \in TU : svc'[u] \in ServiceLabel
  BY <1>1, MoveTypes DEF Open, ServerInv, ServiceLabel
<1>3. TypeOK /\ registry \in [Index -> TU \cup {NoTU}]
  BY DEF Open, ServerInv, PBXTypeOK
<1>4. TypeOK'
  BY <1>1, <1>3 DEF TypeOK
<1>5. PBXTypeOK'
  BY <1>1, <1>2, <1>3, <1>4 DEF Open, ServerInv, PBXTypeOK
<1>6. Core' /\ UNCHANGED C!vars
  BY <1>1, <1>4, OpenCore, CoreKeptExt DEF frame
<1>7. RegistryOK'
  <2>1. ext[t] = fd[t] /\ fd[t] \in Index /\ registry[fd[t]] = t
    BY <1>1, ExtInIndex DEF Open, ServerInv, RegistryOK, Registered
  <2>2. \A u \in TU \ {t} : Registered(u) => fd[u] \in Index /\ fd[u] # fd[t]
    BY <2>1, ExtInIndex DEF Open, ServerInv, RegistryOK
  <2> QED BY <1>1, <1>2, <1>3, <2>1, <2>2 DEF Open, ServerInv, RegistryOK, Connected,
                 Registered, Moved
<1>8. ServiceOK'
  <2>1. /\ chat \in [TU -> TU \cup {NoTU}] /\ target \in [Thread -> TU \cup {NoTU}]
        /\ ext \in [TU -> Ext \cup {0}]
    BY DEF Open, ServerInv, PBXTypeOK, TypeOK
  <2> QED BY <1>1, <1>2, <1>3, <2>1 DEF Open, ServerInv, ServiceOK, InService, Registered, Unseen, Moved
<1>9. ReferencesOK'
  BY <1>1, <1>2 DEF Open, ServerInv, ReferencesOK, References, Held1, OwnReference,
         Registered, Moved
<1> QED BY <1>1, <1>5, <1>6, <1>7, <1>8, <1>9 DEF Open, ServerInv, Core

(* The helper shuts down whatever connection has the TU's descriptor now.  *)
LEMMA HelperShutdownOK ==
    ASSUME Open, NEW t \in TU, HelperShutdown(t)
    PROVE  ServerInv' /\ UNCHANGED C!vars
<1>1. /\ svc[t] = "helper_shutdown" /\ pc[t] = "idle" /\ Continue(t, "helper_unref")
      /\ shut' = shut \cup ({conn[fd[t]]} \ {NoTU})
      /\ UNCHANGED <<state, chat, chatLocked, ref, ext, fd, conn, mutex, mem, told, heard,
                     pc, op, tu, target, outcome, registry, pbxMutex, pbxFreed>>
  BY DEF HelperShutdown, HelperTU, Fileno, At, vars, tuVars, wiring, clientVars, frame,
         pbxVars
<1>2. Moved(t, "helper_unref") /\ DOMAIN svc' = Thread /\ svc'[Main] = svc[Main]
      /\ \A u \in TU : svc'[u] \in ServiceLabel
  BY <1>1, MoveTypes DEF Open, ServerInv, ServiceLabel
<1>3. TypeOK
  BY DEF Open, ServerInv, PBXTypeOK
<1>4. TypeOK'
  BY <1>1, <1>3 DEF TypeOK
<1>5. PBXTypeOK'
  <2>1. conn[fd[t]] \in TU \cup {NoTU}
    BY <1>1, <1>3 DEF Open, ServerInv, RegistryOK, Registered, TypeOK
  <2> QED BY <1>1, <1>2, <1>4, <2>1 DEF Open, ServerInv, PBXTypeOK
<1>6. Core' /\ UNCHANGED C!vars
  BY <1>1, <1>4, OpenCore, CoreKeptExt DEF frame
<1>7. RegistryOK'
  BY <1>1, <1>2 DEF Open, ServerInv, PBXTypeOK, RegistryOK, Connected, Registered, Moved
<1>8. ServiceOK'
  <2>1. /\ chat \in [TU -> TU \cup {NoTU}] /\ target \in [Thread -> TU \cup {NoTU}]
        /\ ext \in [TU -> Ext \cup {0}]
    BY DEF Open, ServerInv, PBXTypeOK, TypeOK
  <2> QED BY <1>1, <1>2, <1>3, <2>1 DEF Open, ServerInv, ServiceOK, InService, Registered, Unseen, Moved
<1>9. ReferencesOK'
  BY <1>1, <1>2 DEF Open, ServerInv, ReferencesOK, References, Held1, OwnReference,
         Registered, Moved
<1> QED BY <1>1, <1>5, <1>6, <1>7, <1>8, <1>9 DEF Open, ServerInv, Core

-----------------------------------------------------------------------------
(* Calls of tu.c. *)

(* A command, or the helper's tu_hangup. *)
LEMMA CallOK ==
    ASSUME Open, NEW t \in TU, RunCommand(t) \/ Unregister(t)
    PROVE  ServerInv' /\ UNCHANGED C!vars
<1>1. Command(t) /\ pc[t] = "idle"
  BY DEF RunCommand, Unregister, Command, At
<1>2. PICK o \in {"pickup", "hangup", "chat"} :
        /\ \/ svc[t] = "reading" /\ svc' = svc
           \/ o = "hangup" /\ svc[t] = "want_unregister" /\ Continue(t, "helper_shutdown")
        /\ pc'[t] # "idle" /\ op' = [op EXCEPT ![t] = o]
        /\ target' = [target EXCEPT ![t] = NoTU]
        /\ \A q \in Thread \ {t} : pc'[q] = pc[q]
  BY <1>1 DEF RunCommand, Unregister, Call, At, Open, ServerInv, PBXTypeOK, TypeOK
<1>3. UNCHANGED <<state, chat, chatLocked, ref, ext, fd, conn, mutex, mem, told, heard,
                  outcome, registry, pbxFreed, shut>> /\ pbxMutex' \in {pbxMutex, t}
  BY DEF RunCommand, Unregister, LockPBX, tuVars, wiring, clientVars, pbxVars
<1>4. /\ \A q \in Thread \ {t} : svc'[q] = svc[q]
      /\ \/ svc'[t] = "reading" /\ svc[t] = "reading"
         \/ svc'[t] = "helper_shutdown" /\ svc[t] = "want_unregister" /\ o = "hangup"
      /\ DOMAIN svc' = Thread /\ \A u \in TU : svc'[u] \in ServiceLabel
  BY <1>2 DEF Continue, Open, ServerInv, PBXTypeOK, ServiceLabel
<1>5. Core' /\ UNCHANGED C!vars
  BY <1>1, OpenCore, CommandOK
<1>6. PBXTypeOK'
  BY <1>3, <1>4, <1>5 DEF Open, ServerInv, PBXTypeOK, Core
<1>7. RegistryOK'
  BY <1>3, <1>4 DEF Open, ServerInv, PBXTypeOK, RegistryOK, Connected, Registered
<1>8. ServiceOK'
  <2>1. TypeOK
    BY DEF Open, ServerInv, PBXTypeOK
  <2>2. /\ op'[t] \in {"pickup", "hangup", "chat"} /\ target'[t] = NoTU
        /\ o = "hangup" => op'[t] = "hangup"
        /\ \A q \in TU \ {t} : /\ pc'[q] = pc[q] /\ op'[q] = op[q]
                              /\ target'[q] = target[q] /\ svc'[q] = svc[q]
    BY <1>2, <1>4, <2>1 DEF TypeOK
  <2>3. ASSUME svc'[t] = "helper_shutdown"
        PROVE  \A q \in TU : svc[q] # "dialling"
    <3>1. pbxMutex = NoThread
      BY <1>4, <2>3 DEF RunCommand, Unregister, LockPBX, At
    <3> QED BY <3>1 DEF Open, MutexInv, PBXMutexHeld
  <2>4. chat[t] # NoTU => Registered(t)
    BY DEF Open, ServerInv, ServiceOK, InService
  <2> QED BY SMTT(60), <1>2, <1>3, <1>4, <2>1, <2>2, <2>3, <2>4
          DEF Open, ServerInv, TypeOK, ServiceOK, InService, Registered, Unseen
<1>9. ReferencesOK'
  BY <1>3, <1>4 DEF Open, ServerInv, ReferencesOK, References, Held1, OwnReference,
         Registered
<1> QED BY <1>2, <1>3, <1>5, <1>6, <1>7, <1>8, <1>9 DEF Open, ServerInv, Core

(* pbx_dial: whoever is in the registry while nobody has it locked is not  *)
(* being unregistered.                                                     *)
LEMMA DialOK ==
    ASSUME Open, NEW t \in TU, Dial(t)
    PROVE  ServerInv' /\ UNCHANGED C!vars
<1> DEFINE idle == UNCHANGED <<pc, op, tu, target>> /\ outcome' = "out of bounds"
<1>1. /\ svc[t] = "want_dial" /\ pc[t] = "idle" /\ Continue(t, "dialling")
      /\ pbxMutex = NoThread /\ pbxMutex' = t
      /\ UNCHANGED <<state, chat, chatLocked, ref, ext, fd, conn, mutex, mem, told, heard,
                     registry, pbxFreed, shut>>
  BY DEF Dial, At, LockPBX, tuVars, wiring, clientVars
<1>2. PICK u \in TU \cup {NoTU} :
        /\ u # NoTU => Registered(u)
        /\ idle \/ (Call(t, "dial", "dial_peek", t, u) /\ UNCHANGED outcome)
  <2>1. PICK e \in 0 .. MaxExt :
          IF e \in Index
          THEN Call(t, "dial", "dial_peek", t, registry[e]) /\ UNCHANGED outcome
          ELSE outcome' = "out of bounds" /\ UNCHANGED frame
    BY DEF Dial
  <2>2. CASE e \in Index
    <3>1. registry[e] \in TU \cup {NoTU} /\ (registry[e] # NoTU => Registered(registry[e]))
      BY <2>2 DEF Open, ServerInv, PBXTypeOK, RegistryOK
    <3> QED BY <2>1, <2>2, <3>1
  <2>3. CASE e \notin Index
    BY <2>1, <2>3 DEF frame
  <2> QED BY <2>2, <2>3
<1>3. Moved(t, "dialling") /\ DOMAIN svc' = Thread /\ svc'[Main] = svc[Main]
      /\ \A v \in TU : svc'[v] \in ServiceLabel
  BY <1>1, MoveTypes DEF Open, ServerInv, ServiceLabel
<1>4. TypeOK
  BY DEF Open, ServerInv, PBXTypeOK
<1>5. Core' /\ UNCHANGED C!vars
  <2>1. CASE idle
    <3>1. TypeOK'
      BY <1>1, <1>4, <2>1 DEF TypeOK, Outcome
    <3> QED BY <1>1, <2>1, <3>1, OpenCore, CoreKeptExt DEF frame
  <2>2. CASE ~idle
    <3>1. Command(t)
      BY <1>1, <1>2, <2>2 DEF Command, tuVars, wiring, clientVars
    <3> QED BY <3>1, OpenCore, CommandOK
  <2> QED BY <2>1, <2>2
<1>6. PBXTypeOK'
  BY <1>1, <1>3, <1>5 DEF Open, ServerInv, PBXTypeOK, Core
<1>7. RegistryOK'
  BY <1>1, <1>3 DEF Open, ServerInv, PBXTypeOK, RegistryOK, Connected, Registered, Moved
<1>8. ServiceOK'
  <2>1. chat \in [TU -> TU \cup {NoTU}] /\ target \in [Thread -> TU \cup {NoTU}]
        /\ pc \in [Thread -> Label] /\ op \in [Thread -> Op]
    BY <1>4 DEF TypeOK
  <2>2. \A v \in TU : svc[v] \notin Locking
    BY <1>1 DEF Open, MutexInv, PBXMutexHeld, Locking
  <2>3. /\ \A q \in TU \ {t} : /\ pc'[q] = pc[q] /\ op'[q] = op[q]
                             /\ target'[q] = target[q] /\ svc'[q] = svc[q]
        /\ svc'[t] = "dialling"
        /\ \/ pc'[t] = pc[t] /\ op'[t] = op[t] /\ target'[t] = target[t]
           \/ op'[t] = "dial" /\ target'[t] = u
    <3>1. CASE idle
      BY <1>3, <3>1 DEF Moved
    <3>2. CASE ~idle
      BY <1>2, <1>3, <2>1, <3>2 DEF Call, Moved
    <3> QED BY <3>1, <3>2
  <2>4. ASSUME NEW v \in TU PROVE InService(v)'
    <3>1. InService(v) /\ svc[v] # "dialling"
      BY <2>2 DEF Open, ServerInv, ServiceOK, Locking
    <3>2. \A w \in TU : Unseen(w)' <=> Unseen(w)
      BY <1>1, <2>3 DEF Unseen
    <3>3. \A w \in TU : Registered(w)' <=> Registered(w)
      BY <1>1, <2>3 DEF Registered
    <3>4. \A w \in TU : Registered(w) => ~Unseen(w)
      BY DEF Registered, Unseen
    <3>5. CASE v # t
      BY <1>1, <2>1, <2>3, <3>1, <3>2, <3>3, <3>5 DEF InService, Unseen, Registered
    <3>6. CASE v = t /\ target'[t] = target[t] /\ pc'[t] = pc[t]
      BY <1>1, <2>1, <2>3, <3>1, <3>2, <3>3, <3>6 DEF InService, Unseen, Registered
    <3>7. CASE v = t /\ op'[t] = "dial" /\ target'[t] = u
      <4>1. u # NoTU => Registered(u)' /\ ~Unseen(u)' /\ (u # t => ext'[u] # ext'[t])
        <5>1. Registered(t)
          BY <1>1 DEF Registered
        <5>2. u # NoTU /\ u # t => ext[u] # ext[t]
          BY <1>2, <5>1, RegisteredApart
        <5> QED BY <1>1, <1>2, <3>2, <3>3, <3>4, <5>2
      <4>2. u # NoTU => svc'[u] \notin {"helper_shutdown", "helper_unref", "clear"}
        BY <2>2, <2>3 DEF Locking
      <4>3. UNCHANGED chat /\ svc[t] = "want_dial" /\ svc'[t] = "dialling"
        BY <1>1, <2>3
      <4> QED BY <3>1, <3>7, <4>1, <4>2, <4>3 DEF InService, Unseen, Registered
    <3> QED BY <2>3, <3>5, <3>6, <3>7
  <2> QED BY <2>4 DEF ServiceOK
<1>9. ReferencesOK'
  BY <1>1, <1>3 DEF Open, ServerInv, ReferencesOK, References, Held1, OwnReference,
         Registered, Moved
<1>10. pc'[Main] = pc[Main]
  BY <1>2, <1>4 DEF Call, TypeOK
<1> QED BY <1>1, <1>5, <1>6, <1>7, <1>8, <1>9, <1>10 DEF Open, ServerInv, Core

-----------------------------------------------------------------------------
(* Steps inside tu.c. *)

\* The unlocking at the end of a handler returns, or faults and moves nothing.
LEMMA UnlockFrame ==
    ASSUME Core, NEW p \in TU, Unlock(p)
    PROVE  /\ OnlyMoves(p) /\ (op'[p] = op[p] \/ pc'[p] = "idle")
           /\ target'[p] \in {target[p], NoTU}
<1>1. /\ p \in Thread /\ pc \in [Thread -> Label] /\ op \in [Thread -> Op]
      /\ tu \in [Thread -> TU \cup {NoTU}] /\ target \in [Thread -> TU \cup {NoTU}]
  BY DEF Core, TypeOK
<1>2. CASE UNCHANGED frame
  BY <1>2 DEF frame, OnlyMoves
<1>3. CASE Return(p)
  BY <1>1, <1>3 DEF Return, OnlyMoves
<1> QED BY <1>2, <1>3 DEF Unlock

(* What a step of p does to its frame: it stays in its function or leaves  *)
(* it; what it remembers of its peer comes from chat_TU; only tu_dial      *)
(* links, its own TU and its target; and tu_hangup leaves no link.         *)
LEMMA FrameStep ==
    ASSUME Core, NEW p \in TU, Step(p)
    PROVE  /\ OnlyMoves(p) /\ pc[p] # "idle"
           /\ pc'[p] # "idle" => op'[p] = op[p]
           /\ \/ target'[p] \in {target[p], NoTU}
              \/ op[p] # "dial" /\ target'[p] = chat[p]
                 /\ chat[p] \in TU /\ chat[chat[p]] # NoTU
           /\ \A t \in TU : chat[t] = NoTU /\ chat'[t] # NoTU =>
                op[p] = "dial" /\ t \in {p, target[p]}
           /\ op[p] = "hangup" /\ pc'[p] = "idle" => chat'[p] = NoTU
<1> USE DEF OnlyMoves
<1>1. /\ pc[p] # "idle" /\ tu[p] = p /\ p \in Thread
      /\ pc \in [Thread -> Label] /\ op \in [Thread -> Op]
      /\ tu \in [Thread -> TU \cup {NoTU}] /\ target \in [Thread -> TU \cup {NoTU}]
      /\ chat \in [TU -> TU \cup {NoTU}]
  <2>1. pc[p] # "idle"
    BY DEF Step, LockPeek, LockFirst, LockSecond, Recheck, PickUp, Answer, PickUpIgnored,
           HangUpCall, HangUpFinish, HangUpIdle, DialPeek, DialBody, ChatPeek, ChatBody
  <2> QED BY <2>1 DEF Core, TypeOK, FramesOK, FrameOK
<1>2. ASSUME chat[p] # NoTU, pc[p] # "hangup_finish"
      PROVE  chat[p] \in TU /\ chat[chat[p]] # NoTU
  <2>1. PeerIsChat
    BY PeerLemma DEF Core
  <2>2. Peer[p] = chat[p] /\ chat[p] \in TU
    BY <1>1, <1>2, <2>1 DEF PeerIsChat
  <2>3. Peer[chat[p]] = p
    BY <1>2, <2>2 DEF Core, C!CallsOK, C!PeersMutual
  <2> QED BY <2>1, <2>2, <2>3 DEF PeerIsChat
<1>3. CASE LockPeek(p)
  <2>1. op[p] # "dial"
    BY <1>3 DEF LockPeek, Core, FramesOK, FrameOK
  <2>2. CASE chat[p] = NoTU
    BY <1>1, <1>3, <2>1, <2>2 DEF LockPeek
  <2>3. CASE chat[p] # NoTU
    BY <1>1, <1>2, <1>3, <2>1, <2>3 DEF LockPeek, GotoLockBoth
  <2> QED BY <2>2, <2>3
<1>4. CASE LockFirst(p) \/ LockSecond(p) \/ Recheck(p)
  BY <1>1, <1>4 DEF LockFirst, LockSecond, Recheck, Goto
<1>5. CASE PickUp(p) \/ Answer(p) \/ PickUpIgnored(p)
  <2>1. op[p] = "pickup" /\ Unlock(p) /\ UNCHANGED chat
    BY <1>5 DEF PickUp, Answer, PickUpIgnored
  <2>2. OnlyMoves(p) /\ (op'[p] = op[p] \/ pc'[p] = "idle") /\ target'[p] \in {target[p], NoTU}
    BY <2>1, UnlockFrame
  <2> QED BY <1>1, <2>1, <2>2
<1>6. CASE HangUpIdle(p)
  <2>1. op[p] = "hangup" /\ Unlock(p) /\ UNCHANGED chat
    BY <1>6 DEF HangUpIdle
  <2>2. chat[p] = NoTU
    <3>1. Peer[p] = chat[p]
      BY <1>6, BodyFacts DEF HangUpIdle
    <3>2. chat[p] # NoTU => state[p] \in C!InCall
      BY <3>1 DEF Core, C!CallsOK, C!EndsAgree
    <3> QED BY <1>1, <1>6, <3>2 DEF HangUpIdle, C!InCall
  <2>3. OnlyMoves(p) /\ (op'[p] = op[p] \/ pc'[p] = "idle") /\ target'[p] \in {target[p], NoTU}
    BY <2>1, UnlockFrame
  <2> QED BY <1>1, <2>1, <2>2, <2>3
<1>7. CASE HangUpCall(p)
  <2>1. pc' = [pc EXCEPT ![p] = "hangup_finish"] /\ UNCHANGED <<op, tu, target>>
        /\ chat' = [chat EXCEPT ![chat[p]] = NoTU]
    BY <1>1, <1>7 DEF HangUpCall, Goto
  <2> QED BY <1>1, <2>1
<1>8. CASE HangUpFinish(p)
  <2>1. Return(p) /\ chat' = [chat EXCEPT ![p] = NoTU]
    BY <1>1, <1>8 DEF HangUpFinish
  <2> QED BY <1>1, <2>1 DEF Return
<1>9. CASE DialPeek(p)
  <2>1. op[p] = "dial" /\ UNCHANGED chat /\ (Return(p) \/ Goto(p, "lock_first"))
    BY <1>9 DEF DialPeek, Core, FramesOK, FrameOK
  <2> QED BY <1>1, <2>1 DEF Return, Goto
<1>10. CASE DialBody(p)
  <2>1. op[p] = "dial" /\ Return(p)
        /\ \/ UNCHANGED chat
           \/ chat' = [chat EXCEPT ![p] = target[p], ![target[p]] = p]
    BY <1>1, <1>10 DEF DialBody
  <2> QED BY <1>1, <2>1 DEF Return
<1>11. CASE ChatPeek(p)
  <2>1. /\ op[p] = "chat" /\ UNCHANGED chat /\ pc[p] # "hangup_finish"
        /\ Return(p) \/ (GotoLockBoth(p, chat[p]) /\ chat[p] # NoTU)
    BY ZenonT(60), <1>1, <1>11 DEF ChatPeek, tuVars, Core, FramesOK, FrameOK
  <2>2. CASE Return(p)
    BY <1>1, <2>1, <2>2 DEF Return
  <2>3. CASE GotoLockBoth(p, chat[p]) /\ chat[p] # NoTU
    BY <1>1, <1>2, <2>1, <2>3 DEF GotoLockBoth
  <2> QED BY <2>1, <2>2, <2>3
<1>12. CASE ChatBody(p)
  <2>1. op[p] = "chat" /\ UNCHANGED chat /\ Return(p)
    BY <1>12 DEF ChatBody
  <2> QED BY <1>1, <2>1 DEF Return
<1> QED BY <1>3, <1>4, <1>5, <1>6, <1>7, <1>8, <1>9, <1>10, <1>11, <1>12 DEF Step

(* A step inside tu.c, seen from the server. *)
LEMMA TUStepOK ==
    ASSUME Open, NEW p \in Thread, TUStep(p)
    PROVE  ServerInv' /\ [C!Next]_C!vars
<1>1. p \in TU
  <2>1. pc[p] # "idle"
    BY DEF TUStep, Step, LockPeek, LockFirst, LockSecond, Recheck, PickUp, Answer,
           PickUpIgnored, HangUpCall, HangUpFinish, HangUpIdle, DialPeek, DialBody,
           ChatPeek, ChatBody
  <2> QED BY <2>1 DEF Open, ServerInv
<1>2. Step(p) /\ UNCHANGED <<registry, pbxMutex, pbxFreed, svc, shut>>
  BY DEF TUStep, pbxVars
<1>3. Core /\ Counted
  BY OpenCore
<1>4. Core' /\ [C!Next]_C!vars
  BY <1>1, <1>2, <1>3, StepOK
<1>5. UNCHANGED <<ext, fd, conn>>
  BY <1>1, <1>2, WiringStep DEF wiring
<1>6. RefsFollow
  BY <1>1, <1>2, <1>3, RefsStep
<1>7. PBXTypeOK'
  BY <1>2, <1>4 DEF Open, ServerInv, PBXTypeOK, Core
<1>8. RegistryOK'
  BY <1>2, <1>5 DEF Open, ServerInv, RegistryOK, Connected, Registered
<1>9. ServiceOK'
  <2>1. /\ OnlyMoves(p) /\ pc[p] # "idle"
        /\ pc'[p] # "idle" => op'[p] = op[p]
        /\ \/ target'[p] \in {target[p], NoTU}
           \/ op[p] # "dial" /\ target'[p] = chat[p]
              /\ chat[p] \in TU /\ chat[chat[p]] # NoTU
        /\ \A t \in TU : chat[t] = NoTU /\ chat'[t] # NoTU =>
             op[p] = "dial" /\ t \in {p, target[p]}
        /\ op[p] = "hangup" /\ pc'[p] = "idle" => chat'[p] = NoTU
    BY <1>1, <1>2, <1>3, FrameStep
  <2>2. target \in [Thread -> TU \cup {NoTU}] /\ chat \in [TU -> TU \cup {NoTU}]
    BY <1>3 DEF Core, TypeOK
  <2>3. \A t \in TU : InService(t)
    BY DEF Open, ServerInv, ServiceOK
  <2>4. ASSUME NEW t \in TU PROVE InService(t)'
    <3>1. pc'[t] # "idle" =>
                \/ svc'[t] = "reading" /\ op'[t] \in {"pickup", "hangup", "chat"}
                \/ svc'[t] = "dialling" /\ op'[t] = "dial"
                \/ svc'[t] = "helper_shutdown" /\ op'[t] = "hangup"
      BY <1>1, <1>2, <2>1, <2>3 DEF OnlyMoves, InService
    <3>2. chat'[t] # NoTU => /\ Registered(t)'
                             /\ svc'[t] \notin {"helper_unref", "clear"}
                             /\ svc'[t] = "helper_shutdown" => pc'[t] # "idle"
      <4>1. CASE chat[t] # NoTU
        BY <1>1, <1>2, <2>1, <2>3, <4>1 DEF OnlyMoves, InService, Registered
      <4>2. CASE chat[t] = NoTU
        BY <1>1, <1>2, <2>1, <2>2, <2>3, <4>2 DEF OnlyMoves, InService, Registered
      <4> QED BY <4>1, <4>2
    <3>3. target'[t] # NoTU =>
             /\ svc'[t] \notin {"none", "start"}
             /\ svc'[target'[t]] \notin {"none", "start"}
             /\ target'[t] # t => ext'[target'[t]] # ext'[t]
      <4>1. CASE target'[t] = target[t]
        BY <1>2, <1>5, <2>3, <4>1 DEF InService, Unseen
      <4>2. CASE target'[t] # target[t] /\ target'[t] # NoTU
        <5>1. t = p /\ target'[t] = chat[p] /\ chat[p] \in TU /\ chat[chat[p]] # NoTU
          BY <2>1, <4>2 DEF OnlyMoves
        <5>2. Registered(p) /\ Registered(chat[p])
          BY <1>1, <2>3, <5>1 DEF InService
        <5>3. chat[p] # p => ext[chat[p]] # ext[p]
          BY <1>1, <5>1, <5>2, RegisteredApart
        <5> QED BY <1>2, <1>5, <5>1, <5>2, <5>3 DEF Registered
      <4> QED BY <4>1, <4>2
    <3>4. pc'[t] # "idle" /\ op'[t] = "dial" /\ target'[t] # NoTU =>
                target'[t] = target[t] /\ pc[t] # "idle" /\ op[t] = "dial"
      BY <2>1 DEF OnlyMoves
    <3> QED BY <1>2, <2>3, <3>1, <3>2, <3>3, <3>4 DEF InService, Unseen, Registered
  <2> QED BY <2>4 DEF ServiceOK
<1>10. ReferencesOK'
  <2>0. ASSUME NEW t \in TU, svc[t] = "none" PROVE mem'[t] = "none"
    <3>1. mem[t] = "none"
      BY <2>0 DEF Open, ServerInv, ReferencesOK
    <3>2. chat[t] = NoTU /\ chat'[t] = NoTU
      BY <1>2, <1>9, <2>0 DEF Open, ServerInv, ServiceOK, InService, Registered
    <3>3. ref'[t] = ref[t]
      BY <1>3, <1>6, <3>2 DEF RefsFollow, LinkOf, Core, TypeOK
    <3> QED BY <1>3, <1>6, <3>1, <3>3 DEF RefsFollow, Core, TypeOK
  <2> SUFFICES ASSUME NEW t \in TU, svc[t] # "none"
               PROVE  /\ ref'[t] = References(t)' /\ mem'[t] # "none"
                      /\ mem'[t] = "freed" <=> ref'[t] = 0
    BY <1>2, <2>0 DEF ReferencesOK
  <2>1. References(t)' = References(t) + LinkOf(chat', t) - LinkOf(chat, t)
    BY <1>2 DEF References, Held1, OwnReference, Registered, LinkOf
  <2>2. /\ ref[t] = References(t) /\ mem[t] # "none"
        /\ mem[t] = "freed" <=> ref[t] = 0
    BY DEF Open, ServerInv, ReferencesOK
  <2>3. ref[t] \in Nat /\ ref'[t] \in Nat
    BY <1>3, <1>4 DEF Core, TypeOK
  <2>4. /\ ref'[t] = References(t)'
        /\ mem'[t] = IF ref'[t] = 0 /\ ref[t] > 0 THEN "freed" ELSE mem[t]
    BY <1>6, <2>1, <2>2 DEF RefsFollow
  <2>5. ref[t] = 0 => ref'[t] = 0
    <3>1. CASE chat'[t] = NoTU
      <4>1. LinkOf(chat', t) = 0 /\ LinkOf(chat, t) \in {0, 1}
        BY <3>1 DEF LinkOf
      <4>2. ref'[t] = ref[t] + LinkOf(chat', t) - LinkOf(chat, t)
        BY <1>6 DEF RefsFollow
      <4> QED BY <2>3, <4>1, <4>2
    <3>2. CASE chat'[t] # NoTU
      <4>1. Registered(t) /\ svc[t] # "clear"
        BY <1>2, <1>9, <3>2 DEF ServiceOK, InService, Registered
      <4>2. References(t) > 0
        BY <4>1 DEF References, Held1
      <4> QED BY <2>2, <4>2
    <3> QED BY <3>1, <3>2
  <2> QED BY <2>2, <2>3, <2>4, <2>5
<1>11. pc'[Main] = pc[Main]
  BY <1>1, <1>2, <1>3, FrameStep DEF OnlyMoves
<1> QED BY <1>2, <1>4, <1>7, <1>8, <1>9, <1>10, <1>11 DEF Open, ServerInv, Core

-----------------------------------------------------------------------------
(* The specification. *)

(* No client is connected when the server starts.                          *)
LEMMA PBXInitOK == PBXInit => Serving /\ MutexInv /\ C!Init
<1> SUFFICES ASSUME PBXInit PROVE Serving /\ MutexInv /\ C!Init
  OBVIOUS
<1>1. /\ state = [t \in TU |-> "ON_HOOK"] /\ chat = [t \in TU |-> NoTU]
      /\ chatLocked = [t \in TU |-> FALSE] /\ ref = [t \in TU |-> 0]
      /\ ext = [t \in TU |-> 0] /\ fd = [t \in TU |-> 0]
      /\ mutex = [t \in TU |-> NoThread] /\ mem = [t \in TU |-> "none"]
      /\ conn = [e \in Ext |-> NoTU]
      /\ told = [t \in TU |-> <<"nothing", NoTU>>] /\ heard = [t \in TU |-> NoTU]
      /\ pc = [p \in Thread |-> "idle"] /\ op = [p \in Thread |-> "none"]
      /\ tu = [p \in Thread |-> NoTU] /\ target = [p \in Thread |-> NoTU]
      /\ outcome = "running" /\ registry = [e \in Index |-> NoTU]
      /\ pbxMutex = NoThread /\ pbxFreed = FALSE /\ shut = {}
      /\ svc = [p \in Thread |-> IF p = Main THEN "accepting" ELSE "none"]
  BY DEF PBXInit, Message
<1>2. \A t \in TU : svc[t] = "none"
  BY <1>1
<1>3. TypeOK
  BY <1>1 DEF TypeOK, TUState, Memory, Label, Op, Outcome
<1>4. PBXTypeOK
  BY <1>1, <1>3 DEF PBXTypeOK, ServiceLabel, MainLabel
<1>5. LocksHeld /\ FramesOK
  BY <1>1 DEF LocksHeld, Held, FramesOK, FrameOK
<1>6. Peer = [t \in TU |-> NoTU]
  BY <1>1, <1>3, <1>5, PeerLemma DEF PeerIsChat
<1>7. C!Init /\ C!CallsOK
  BY <1>1, <1>6 DEF C!Init, C!CallsOK, C!TypeOK, C!PeersMutual, C!EndsAgree, C!TUState,
                    C!InCall
<1>8. RegistryOK /\ ServiceOK
  BY <1>1, <1>2 DEF RegistryOK, Connected, Registered, ServiceOK, InService, Unseen
<1>9. ReferencesOK
  BY <1>1, <1>2 DEF ReferencesOK
<1> QED BY <1>1, <1>4, <1>5, <1>7, <1>8, <1>9, MutexInit DEF Serving, ServerInv

(* The main thread never accepts connections again after SIGHUP. *)
LEMMA MainStays ==
    ASSUME MutexInv, [PBXNext]_allVars, svc'[Main] = "accepting"
    PROVE  svc[Main] = "accepting"
<1>1. CASE UNCHANGED svc
  BY <1>1
<1>2. ASSUME NEW t \in TU, NEW label, Continue(t, label)
      PROVE  svc[Main] = "accepting"
  BY <1>2 DEF Continue, MutexInv
<1>3. ASSUME NEW label, label # "accepting", Continue(Main, label)
      PROVE  FALSE
  BY <1>3 DEF Continue, MutexInv
<1>4. \/ UNCHANGED svc
      \/ \E t \in TU : \E label \in ServiceLabel : Continue(t, label)
      \/ \E label \in MainLabel \ {"accepting"} : Continue(Main, label)
  <2>1. CASE UNCHANGED allVars
    BY <2>1 DEF allVars
  <2>2. ASSUME NEW t \in TU,
               Accept(t) \/ RunCommand(t) \/ DialCommand(t) \/ ReadEof(t) \/ ServiceStep(t)
        PROVE  UNCHANGED svc \/ \E label \in ServiceLabel : Continue(t, label)
    BY <2>2 DEF Accept, Begin, RunCommand, DialCommand, ReadEof, ServiceStep, Register,
       RegisterFails, Dial, DialReturn, ReleaseOwn, GetExtension, Unregister,
       UnregisterFails, UnregisterReturn, ServiceLabel
  <2>3. ASSUME NEW p \in Thread, TUStep(p) \/ Touch(p)
        PROVE  UNCHANGED svc
    BY <2>3 DEF TUStep, Touch, TouchFreedTU, TouchFreedPBX
  <2>4. ASSUME NEW p \in Thread, HelperStep(p)
        PROVE  \E label \in ServiceLabel \cap (MainLabel \ {"accepting"}) : Continue(p, label)
    BY <2>4 DEF HelperStep, HelperShutdown, HelperUnref, ServiceLabel, MainLabel
  <2>5. ASSUME Sighup \/ ShutdownStep
        PROVE  UNCHANGED svc \/ \E label \in MainLabel \ {"accepting"} : Continue(Main, label)
    BY <2>5 DEF Sighup, ShutdownStep, ShutdownLock, ShutdownNext, ShutdownClear,
       ShutdownUnlock, ShutdownFree, Exit, MainLabel
  <2> QED BY <2>1, <2>2, <2>3, <2>4, <2>5 DEF PBXNext
<1> QED BY <1>1, <1>2, <1>3, <1>4

(* Memory that was freed: the process is killed. *)
LEMMA TouchOK ==
    ASSUME Open, NEW p \in Thread, Touch(p)
    PROVE  ServerInv' /\ UNCHANGED C!vars
<1>1. /\ outcome' \in {"freed TU", "freed PBX"}
      /\ UNCHANGED <<state, chat, chatLocked, ref, ext, fd, conn, mutex, mem, told, heard,
                     pc, op, tu, target, registry, pbxMutex, pbxFreed, svc, shut>>
  BY DEF Touch, TouchFreedTU, TouchFreedPBX, tuVars, wiring, clientVars, frame, pbxVars
<1>2. TypeOK'
  BY <1>1 DEF Open, ServerInv, PBXTypeOK, TypeOK, Outcome
<1>3. PBXTypeOK'
  BY <1>1, <1>2 DEF Open, ServerInv, PBXTypeOK
<1>4. Core' /\ UNCHANGED C!vars
  BY <1>1, <1>2, OpenCore, CoreKeptExt DEF frame
<1>5. RegistryOK' /\ ServiceOK' /\ ReferencesOK'
  <2>1. RegistryOK'
    BY <1>1 DEF Open, ServerInv, RegistryOK, Connected, Registered
  <2>2. ServiceOK'
    BY <1>1 DEF Open, ServerInv, ServiceOK, InService, Registered, Unseen
  <2>3. ReferencesOK'
    BY <1>1 DEF Open, ServerInv, ReferencesOK, References, Held1, OwnReference, Registered
  <2> QED BY <2>1, <2>2, <2>3
<1> QED BY <1>1, <1>3, <1>4, <1>5 DEF Open, ServerInv, Core

(* Every step before SIGHUP, of whatever thread.                           *)
LEMMA PBXStepOK ==
    ASSUME Open, [PBXNext]_allVars, svc'[Main] = "accepting"
    PROVE  ServerInv' /\ [C!Next]_C!vars
<1>1. CASE UNCHANGED allVars
  <2>1. UNCHANGED <<state, chat, chatLocked, ref, ext, fd, conn, mutex, mem, told, heard,
                    pc, op, tu, target, outcome, registry, pbxMutex, pbxFreed, svc, shut>>
    BY <1>1 DEF allVars, vars, tuVars, wiring, clientVars, frame, pbxVars
  <2>2. TypeOK'
    BY <2>1 DEF Open, ServerInv, PBXTypeOK, TypeOK
  <2>3. PBXTypeOK'
    BY <2>1, <2>2 DEF Open, ServerInv, PBXTypeOK
  <2>4. Core' /\ UNCHANGED C!vars
    BY <2>1, <2>2, OpenCore, CoreKeptExt DEF frame
  <2>5. RegistryOK' /\ ServiceOK' /\ ReferencesOK'
    <3>1. RegistryOK'
      BY <2>1 DEF Open, ServerInv, RegistryOK, Connected, Registered
    <3>2. ServiceOK'
      BY <2>1 DEF Open, ServerInv, ServiceOK, InService, Registered, Unseen
    <3>3. ReferencesOK'
      BY <2>1 DEF Open, ServerInv, ReferencesOK, References, Held1, OwnReference, Registered
    <3> QED BY <3>1, <3>2, <3>3
  <2> QED BY <2>1, <2>3, <2>4, <2>5 DEF Open, ServerInv, Core
<1>2. ASSUME NEW t \in TU,
             Accept(t) \/ RunCommand(t) \/ DialCommand(t) \/ ReadEof(t) \/ ServiceStep(t)
      PROVE  ServerInv' /\ [C!Next]_C!vars
  <2>1. ~UnregisterFails(t)
    BY DEF UnregisterFails, At, Open, ServerInv, RegistryOK, Registered
  <2> QED BY <1>2, <2>1, AcceptOK, CallOK, PlainOK, ReadEofOK, RegisterOK, UnrefOK, DialOK,
             UnregisterReturnOK DEF ServiceStep
<1>3. ASSUME NEW p \in Thread, HelperStep(p)
      PROVE  ServerInv' /\ [C!Next]_C!vars
  <2>1. p \in TU
    BY <1>3 DEF HelperStep, HelperShutdown, HelperUnref, At, Open
  <2> QED BY <1>3, <2>1, HelperShutdownOK, UnrefOK DEF HelperStep
<1>4. ASSUME NEW p \in Thread, TUStep(p) \/ Touch(p)
      PROVE  ServerInv' /\ [C!Next]_C!vars
  BY <1>4, TUStepOK, TouchOK
<1>5. ~ShutdownStep
  BY DEF ShutdownStep, ShutdownLock, ShutdownNext, ShutdownClear, ShutdownUnlock,
         ShutdownFree, Exit, At, Open
<1>6. ~Sighup
  BY DEF Sighup, Continue, Open, MutexInv
<1> QED BY <1>1, <1>2, <1>3, <1>4, <1>5, <1>6 DEF PBXNext

(* After SIGHUP, Serving promises nothing.                                 *)
LEMMA ServingStep ==
    ASSUME MutexInv, Serving, [PBXNext]_allVars
    PROVE  MutexInv' /\ Serving'
BY MutexStepOK, MainStays, PBXStepOK DEF Serving, Open

(* Until SIGHUP arrives the server keeps its invariant, whatever the       *)
(* clients send and however many they are.                                 *)
THEOREM ServerInvariance == PBXSpec => []Serving
<1>1. PBXInit => MutexInv /\ Serving
  BY PBXInitOK
<1>2. MutexInv /\ Serving /\ [PBXNext]_allVars => (MutexInv /\ Serving)'
  BY ServingStep
<1> QED BY <1>1, <1>2, PTL DEF PBXSpec

(* A client that is being served can be dialled at its descriptor's number *)
(* until the server is shut down.                                          *)
THEOREM ServedAreDialable == PBXSpec => []DialableWhileServed
<1>1. Serving => DialableWhileServed
  BY DEF Serving, ServerInv, RegistryOK, Connected, Registered, DialableWhileServed
<1> QED BY <1>1, ServerInvariance, PTL

-----------------------------------------------------------------------------
(* A server that is never sent SIGHUP. *)

(* It accepts connections for ever. *)
LEMMA Accepts == ASSUME ~Sighups PROVE PBXSpec => []Open
<1>1. PBXInit => Open
  BY PBXInitOK DEF Serving, Open, PBXInit
<1>2. Open /\ [PBXNext]_allVars => Open'
  <2> SUFFICES ASSUME Open, [PBXNext]_allVars PROVE Open'
    OBVIOUS
  <2>1. svc'[Main] = "accepting"
    <3>1. CASE UNCHANGED svc
      BY <3>1 DEF Open
    <3>2. ASSUME NEW t \in TU, NEW label, Continue(t, label)
          PROVE  svc'[Main] = "accepting"
      BY <3>2 DEF Continue, Open, MutexInv
    <3>3. UNCHANGED svc \/ \E t \in TU : \E label \in ServiceLabel : Continue(t, label)
      <4>1. CASE UNCHANGED allVars
        BY <4>1 DEF allVars
      <4>2. ASSUME NEW t \in TU,
                   Accept(t) \/ RunCommand(t) \/ DialCommand(t) \/ ReadEof(t) \/ ServiceStep(t)
            PROVE  UNCHANGED svc \/ \E label \in ServiceLabel : Continue(t, label)
        BY <4>2 DEF Accept, Begin, RunCommand, DialCommand, ReadEof, ServiceStep, Register,
           RegisterFails, Dial, DialReturn, ReleaseOwn, GetExtension, Unregister,
           UnregisterFails, UnregisterReturn, ServiceLabel
      <4>3. ASSUME NEW p \in Thread, TUStep(p) \/ Touch(p)
            PROVE  UNCHANGED svc
        BY <4>3 DEF TUStep, Touch, TouchFreedTU, TouchFreedPBX
      <4>4. ASSUME NEW p \in Thread, HelperStep(p)
            PROVE  p \in TU /\ \E label \in ServiceLabel : Continue(p, label)
        BY <4>4 DEF HelperStep, HelperShutdown, HelperUnref, At, Open, ServiceLabel
      <4>5. ~Sighup /\ ~ShutdownStep
        BY DEF Sighup, ShutdownStep, ShutdownLock, ShutdownNext, ShutdownClear,
               ShutdownUnlock, ShutdownFree, Exit, At, Open
      <4> QED BY <4>1, <4>2, <4>3, <4>4, <4>5 DEF PBXNext
    <3> QED BY <3>1, <3>2, <3>3
  <2> QED BY <2>1, MutexStepOK, PBXStepOK DEF Open
<1> QED BY <1>1, <1>2, PTL DEF PBXSpec

(* Every variable has its type, both kinds of mutex belong to the thread   *)
(* whose place says so, and the server keeps its invariant.                *)
THEOREM ServerLocks == ASSUME ~Sighups PROVE PBXSpec => []PBXInv
<1>1. Open => PBXInv
  BY DEF Open, ServerInv, MutexInv, PBXInv, Serving
<1> QED BY <1>1, Accepts, PTL

(* Whoever waits for a second mutex holds only a TU of smaller extension,  *)
(* although TUs come and go and extensions are used again.                 *)
THEOREM ServerLockOrder == ASSUME ~Sighups PROVE PBXSpec => []LockOrder
<1>1. Open => LockOrder
  <2> SUFFICES ASSUME Open, NEW p \in Thread, pc[p] = "lock_second",
                      NEW t \in TU, mutex[t] = p
               PROVE  ext[t] < ext[Second(tu[p], target[p])]
    BY DEF LockOrder
  <2>1. p \in TU /\ tu[p] = p /\ target[p] \in TU \ {p}
    BY DEF Open, ServerInv, FramesOK, FrameOK
  <2>2. t = First(p, target[p])
    BY <2>1 DEF Open, ServerInv, LocksHeld, Held
  <2>3. ext[p] # ext[target[p]]
    BY <2>1 DEF Open, ServerInv, ServiceOK, InService
  <2>4. ext[p] \in Nat /\ ext[target[p]] \in Nat
    <3>1. ext \in [TU -> Ext \cup {0}]
      BY DEF Open, ServerInv, PBXTypeOK, TypeOK
    <3>2. \A u \in TU : ext[u] \in Nat
      <4>1. \A e \in Ext : e \in Nat
        BY ExtAssumption
      <4> QED BY <3>1, <4>1
    <3>3. p \in TU /\ target[p] \in TU
      BY <2>1
    <3> QED BY <3>2, <3>3
  <2> QED BY <2>1, <2>2, <2>3, <2>4 DEF First, Second
<1> QED BY <1>1, Accepts, PTL

(* What can be dialled, and what is in a call, exists.                     *)
THEOREM ServerPointersLive == ASSUME ~Sighups PROVE PBXSpec => []PointersLive
<1>1. Open => PointersLive
  <2> SUFFICES ASSUME Open PROVE PointersLive
    OBVIOUS
  <2>1. ASSUME NEW t \in TU, (Registered(t) /\ svc[t] # "clear") \/ chat[t] # NoTU
        PROVE  mem[t] = "live"
    <3>1. References(t) > 0 /\ svc[t] # "none"
      BY <2>1 DEF References, Held1, Registered, Open, ServerInv, ServiceOK, InService
    <3>2. ref[t] = References(t) /\ mem[t] # "none" /\ (mem[t] = "freed" <=> ref[t] = 0)
      BY <3>1 DEF Open, ServerInv, ReferencesOK
    <3>3. mem[t] \in Memory
      BY DEF Open, ServerInv, PBXTypeOK, TypeOK
    <3> QED BY <3>1, <3>2, <3>3 DEF Memory
  <2>2. ASSUME NEW e \in Index, registry[e] # NoTU, pbxMutex = NoThread
        PROVE  mem[registry[e]] = "live" /\ ext[registry[e]] = e
    <3>1. registry[e] \in TU /\ Registered(registry[e]) /\ ext[registry[e]] = e
      BY <2>2 DEF Open, ServerInv, PBXTypeOK, RegistryOK
    <3>2. svc[registry[e]] # "clear"
      BY <2>2, <3>1 DEF Open, MutexInv, PBXMutexHeld
    <3> QED BY <2>1, <3>1, <3>2
  <2>3. ASSUME NEW t \in TU, Peer[t] # NoTU
        PROVE  mem[t] = "live" /\ mem[Peer[t]] = "live"
    <3>1. PeerIsChat
      BY OpenCore, PeerLemma DEF Core
    <3>2. Peer[t] \in TU /\ Peer[Peer[t]] = t
      BY <2>3 DEF Open, ServerInv, C!CallsOK, C!TypeOK, C!PeersMutual
    <3>3. chat[t] # NoTU /\ chat[Peer[t]] # NoTU
      BY <2>3, <3>1, <3>2 DEF PeerIsChat
    <3> QED BY <2>1, <3>2, <3>3
  <2> QED BY <2>2, <2>3 DEF PointersLive
<1> QED BY <1>1, Accepts, PTL

(* Counts are exact, and a service thread that has ended leaves no TU.     *)
THEOREM ServerNoLeak == ASSUME ~Sighups PROVE PBXSpec => []NoLeak
<1>1. Open => NoLeak
  <2> SUFFICES ASSUME Open PROVE NoLeak
    OBVIOUS
  <2>1. ASSUME NEW t \in TU
        PROVE  RegistryReference(t) <=> Registered(t) /\ svc[t] # "clear"
    <3>1. Registered(t) <=> \E e \in Index : registry[e] = t
      BY ExtInIndex DEF Open, ServerInv, RegistryOK
    <3>2. (\E p \in Thread : svc[p] = "clear" /\ HelperTU(p) = t) <=> svc[t] = "clear"
      BY DEF Open, HelperTU
    <3> QED BY <3>1, <3>2 DEF RegistryReference
  <2>2. PBXRefCountExact
    <3> SUFFICES ASSUME NEW t \in TU, mem[t] # "none"
                 PROVE  /\ ref[t] = Held1(OwnReference(t)) + Held1(RegistryReference(t))
                                    + Held1(chat[t] # NoTU)
                        /\ mem[t] = "freed" <=> ref[t] = 0
      BY DEF PBXRefCountExact
    <3>1. ref[t] = References(t) /\ (mem[t] = "freed" <=> ref[t] = 0)
      BY DEF Open, ServerInv, ReferencesOK
    <3> QED BY <2>1, <3>1 DEF References, Held1
  <2>3. ASSUME NEW t \in TU, svc[t] = "done" PROVE mem[t] = "freed"
    <3>1. chat[t] = NoTU
      BY <2>3 DEF Open, ServerInv, ServiceOK, InService, Registered
    <3>2. References(t) = 0
      BY <2>3, <3>1 DEF References, Held1, OwnReference, Registered
    <3> QED BY <2>3, <3>2 DEF Open, ServerInv, ReferencesOK
  <2> QED BY <2>2, <2>3 DEF NoLeak
<1> QED BY <1>1, Accepts, PTL

(* The whole server, registry and connections included, shows its clients  *)
(* the exchange in which every operation is a single step.                 *)
THEOREM ServerImplementsCalls == ASSUME ~Sighups PROVE PBXSpec => ImplementsCalls
<1>1. PBXInit => C!Init
  BY PBXInitOK
<1>2. Open /\ Open' /\ [PBXNext]_allVars => [C!Next]_C!vars
  BY PBXStepOK DEF Open
<1> QED BY <1>1, <1>2, Accepts, PTL DEF PBXSpec, ImplementsCalls, C!Spec

=============================================================================
