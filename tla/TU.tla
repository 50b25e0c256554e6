---------------------------------- MODULE TU ----------------------------------
(***************************************************************************)
(* The telephone-unit module, hw5/src/tu.c, at the grain of its mutexes.   *)
(*                                                                         *)
(* Every TU has a mutex.  A thread performs tu_pickup, tu_hangup, tu_dial  *)
(* or tu_chat in several steps; one step runs from the acquisition of a    *)
(* mutex up to the next acquisition, because what the thread does between  *)
(* the two is invisible to every other thread.  The step boundaries are    *)
(* exactly the places where another thread can intervene: while this one   *)
(* holds nothing (it drops its own mutex to take two in the order of their *)
(* extensions), holds the first of two, holds both, or has let go of the   *)
(* peer but not yet of its own TU.                                         *)
(*                                                                         *)
(* Specification Spec is the module under its client threads, each of      *)
(* which issues any commands, in any order, on the TU it serves.  Module   *)
(* PBX runs the same steps from the service threads and from the shutdown  *)
(* handler, where TUs are also created, registered, unregistered, freed.   *)
(***************************************************************************)
EXTENDS Naturals

CONSTANTS TU,       \* the TU objects, each named by its address
          NoTU,     \* the NULL pointer
          Thread,   \* the threads; the service thread of TU t is called t
          NoThread, \* the owner of a mutex that is not locked
          Ext       \* the extension numbers

ASSUME NoTUAssumption == NoTU \notin TU
ASSUME ThreadAssumption == TU \subseteq Thread /\ NoThread \notin Thread
ASSUME ExtAssumption == Ext \subseteq Nat \ {0}

VARIABLES
    (* struct tu *)
    state,       \* the state of the telephone
    chat,        \* chat_TU, the peer
    chatLocked,  \* chat_locked: "the peer's mutex is mine to unlock too"
    ref,         \* the reference count
    ext,         \* the extension number, 0 before it is registered
    fd,          \* the descriptor of its connection
    mutex,       \* the thread that has locked the mutex
    mem,         \* "none" before malloc, "live", "freed" after free
    (* the clients; each is named by the TU that was created for it *)
    conn,        \* the client whose connection is open on a descriptor
    told,        \* its last notification: <<state, connected peer>>
    heard,       \* the TU whose chat message has arrived since then
    (* the stack frame of each thread *)
    pc,          \* where the thread is inside tu.c, or "idle"
    op,          \* the tu_... function it is in
    tu,          \* that function's argument tu
    target,      \* its other TU: the argument target, or the local tmp
    (* the process *)
    outcome      \* "running", or how the process has ended

(* What tu.c leaves alone once a TU has been registered. *)
wiring == <<ext, fd, conn>>
tuVars == <<state, chat, chatLocked, ref, wiring, mutex, mem>>
clientVars == <<told, heard>>
frame == <<pc, op, tu, target>>
vars == <<tuVars, clientVars, frame, outcome>>

TUState == {"ON_HOOK", "RINGING", "DIAL_TONE", "RING_BACK",
            "BUSY_SIGNAL", "CONNECTED", "ERROR"}
Memory == {"none", "live", "freed"}
Op == {"none", "pickup", "hangup", "dial", "chat"}
Label == {"idle", "lock_peek", "dial_peek", "chat_peek", "lock_first",
          "lock_second", "locked", "body", "hangup_finish"}
Outcome == {"running", "exit", "null peer", "freed TU", "freed PBX",
            "out of bounds"}

-----------------------------------------------------------------------------
(* Frames, mutexes and notifications. *)

Goto(p, label) ==
    /\ pc' = [pc EXCEPT ![p] = label]
    /\ UNCHANGED <<op, tu, target>>

(* The thread remembers u, then competes for the mutexes of its TU and u.  *)
GotoLockBoth(p, u) ==
    /\ pc' = [pc EXCEPT ![p] = "lock_first"]
    /\ target' = [target EXCEPT ![p] = u]
    /\ UNCHANGED <<op, tu>>

Call(p, o, label, t, u) ==
    /\ pc[p] = "idle"
    /\ pc' = [pc EXCEPT ![p] = label]
    /\ op' = [op EXCEPT ![p] = o]
    /\ tu' = [tu EXCEPT ![p] = t]
    /\ target' = [target EXCEPT ![p] = u]

Return(p) ==
    /\ pc' = [pc EXCEPT ![p] = "idle"]
    /\ op' = [op EXCEPT ![p] = "none"]
    /\ tu' = [tu EXCEPT ![p] = NoTU]
    /\ target' = [target EXCEPT ![p] = NoTU]

(* t's mutex can be locked now. *)
Free(t) == mem[t] = "live" /\ mutex[t] = NoThread

Unlocked(S) == [t \in TU |-> IF t \in S THEN NoThread ELSE mutex[t]]

(* What tu_notify prints: the state and, when connected, the peer. *)
Message(s, p) == <<s, IF s = "CONNECTED" THEN p ELSE NoTU>>

(* Mutant: the notification is sent before the state is assigned. *)
Sent_Early(t) == Message(state[t], chat[t])

(* What t's client is sent after the assignments of the step. *)
Sent(t) == Message(state'[t], chat[t])

(* tu_notify, called after the assignments of the step for each TU of S:   *)
(* it writes to whatever connection is open on the TU's descriptor.        *)
(* (The two TUs of a call never share a descriptor: a TU is registered     *)
(* where its descriptor says only once its predecessor there has hung up.) *)
Notify(S) ==
    LET from(c) == {t \in S : conn[fd[t]] = c}
        notified == {c \in TU : from(c) # {}}
    IN /\ told' = [c \in TU |-> IF c \in notified
                               THEN LET t == CHOOSE t \in from(c) : TRUE
                                    IN Sent(t)
                               ELSE told[c]]
       /\ heard' = [c \in TU |-> IF c \in notified THEN NoTU ELSE heard[c]]

(* Mutant: a thread locks its own TU first. *)
First_Own(t, u) == t

(* Of two TUs, the one whose mutex is locked first, and the other. *)
First(t, u) == IF ext[t] < ext[u] THEN t ELSE u
Second(t, u) == IF ext[t] < ext[u] THEN u ELSE t

(* tu_unlock: unlock the peer's mutex if chat_locked says so, then tu's.   *)
(* With chat_locked set and no peer, &tu->chat_TU->mutex is an address     *)
(* computed from NULL, and the process is killed.                          *)
Unlock(p) ==
    LET t == tu[p]
    IN IF chatLocked[t] /\ chat[t] = NoTU
       THEN /\ outcome' = "null peer"
            /\ UNCHANGED <<mutex, chatLocked, frame>>
       ELSE /\ mutex' = Unlocked({t} \cup (IF chatLocked[t] THEN {chat[t]}
                                                             ELSE {}))
            /\ chatLocked' = [chatLocked EXCEPT ![t] = FALSE]
            /\ Return(p)
            /\ UNCHANGED outcome

(* One reference less; at zero the TU is destroyed. *)
Unref(t) ==
    /\ ref' = [ref EXCEPT ![t] = @ - 1]
    /\ mem' = IF ref[t] <= 1 THEN [mem EXCEPT ![t] = "freed"] ELSE mem

-----------------------------------------------------------------------------
(* Acquiring the mutexes of a TU and its peer. *)

(* tu_lock, first half of the loop body: lock tu and read its peer.  With  *)
(* no peer the lock is kept and tu_lock returns; otherwise it is dropped   *)
(* in order to take both in the order of their extensions.                 *)
LockPeek(p) ==
    /\ pc[p] = "lock_peek"
    /\ Free(tu[p])
    /\ IF chat[tu[p]] = NoTU
       THEN /\ mutex' = [mutex EXCEPT ![tu[p]] = p]
            /\ pc' = [pc EXCEPT ![p] = "body"]
            /\ target' = [target EXCEPT ![p] = NoTU]
            /\ UNCHANGED <<op, tu>>
       ELSE /\ GotoLockBoth(p, chat[tu[p]])
            /\ UNCHANGED mutex
    /\ UNCHANGED <<state, chat, chatLocked, ref, wiring, mem, clientVars, outcome>>

LockFirst(p) ==
    LET t == First(tu[p], target[p])
    IN /\ pc[p] = "lock_first"
       /\ Free(t)
       /\ mutex' = [mutex EXCEPT ![t] = p]
       /\ Goto(p, "lock_second")
       /\ UNCHANGED <<state, chat, chatLocked, ref, wiring, mem, clientVars, outcome>>

LockSecond(p) ==
    LET t == Second(tu[p], target[p])
    IN /\ pc[p] = "lock_second"
       /\ Free(t)
       /\ mutex' = [mutex EXCEPT ![t] = p]
       /\ Goto(p, "locked")
       /\ UNCHANGED <<state, chat, chatLocked, ref, wiring, mem, clientVars, outcome>>

(* Mutants: the peer is not compared again; the loop never ends. *)
Recheck_Skipped(p) ==
    /\ pc[p] = "locked"
    /\ op[p] \in {"pickup", "hangup"}
    /\ chatLocked' = [chatLocked EXCEPT ![tu[p]] = TRUE]
    /\ Goto(p, "body")
    /\ UNCHANGED <<mutex, state, chat, ref, wiring, mem, clientVars, outcome>>

Recheck_Forever(p) ==
    /\ pc[p] = "locked"
    /\ op[p] \in {"pickup", "hangup"}
    /\ Goto(p, "lock_peek")
    /\ mutex' = Unlocked({tu[p], target[p]})
    /\ UNCHANGED <<chatLocked, state, chat, ref, wiring, mem, clientVars, outcome>>

(* tu_lock, second half: chat_locked is set, and if the peer has changed   *)
(* while the locks were dropped, both are released and the loop restarts.  *)
Recheck(p) ==
    /\ pc[p] = "locked"
    /\ op[p] \in {"pickup", "hangup"}
    /\ chatLocked' = [chatLocked EXCEPT ![tu[p]] = TRUE]
    /\ IF chat[tu[p]] = target[p]
       THEN Goto(p, "body") /\ UNCHANGED mutex
       ELSE /\ Goto(p, "lock_peek")
            /\ mutex' = Unlocked({tu[p], target[p]})
    /\ UNCHANGED <<state, chat, ref, wiring, mem, clientVars, outcome>>

-----------------------------------------------------------------------------
(* tu_pickup. *)

CanAnswer(t) ==
    /\ state[t] = "RINGING"
    /\ chat[t] # NoTU
    /\ state[chat[t]] = "RING_BACK"
    /\ chat[chat[t]] = t

PickUp(p) ==
    /\ pc[p] = "body" /\ op[p] = "pickup"
    /\ state[tu[p]] = "ON_HOOK"
    /\ state' = [state EXCEPT ![tu[p]] = "DIAL_TONE"]
    /\ Notify({tu[p]})
    /\ Unlock(p)
    /\ UNCHANGED <<chat, ref, wiring, mem>>

Answer(p) ==
    LET t == tu[p]
    IN /\ pc[p] = "body" /\ op[p] = "pickup"
       /\ CanAnswer(t)
       /\ state' = [state EXCEPT ![t] = "CONNECTED", ![chat[t]] = "CONNECTED"]
       /\ Notify({t, chat[t]})
       /\ Unlock(p)
       /\ UNCHANGED <<chat, ref, wiring, mem>>

(* Off the hook already, or one of the two error branches for a telephone  *)
(* that rings; the branch for one that rings without a peer sends nothing. *)
PickUpIgnored(p) ==
    LET t == tu[p]
    IN /\ pc[p] = "body" /\ op[p] = "pickup"
       /\ state[t] # "ON_HOOK"
       /\ ~CanAnswer(t)
       /\ UNCHANGED state
       /\ Notify(IF state[t] = "RINGING" /\ chat[t] = NoTU THEN {} ELSE {t})
       /\ Unlock(p)
       /\ UNCHANGED <<chat, ref, wiring, mem>>

-----------------------------------------------------------------------------
(* tu_hangup. *)

(* A call is in progress: both ends change state and are notified, then    *)
(* the peer is unlinked, loses its reference and is unlocked (or destroyed *)
(* if that was the last one); tu itself is still linked and locked.        *)
HangUpCall(p) ==
    LET t == tu[p]
        u == chat[t]
    IN /\ pc[p] = "body" /\ op[p] = "hangup"
       /\ state[t] \in {"CONNECTED", "RINGING", "RING_BACK"}
       /\ u # NoTU
       /\ state' = [state EXCEPT ![t] = "ON_HOOK",
                                 ![u] = IF state[t] = "RING_BACK"
                                        THEN "ON_HOOK" ELSE "DIAL_TONE"]
       /\ Notify({t, u})
       /\ chat' = [chat EXCEPT ![u] = NoTU]
       /\ Unref(u)
       /\ mutex' = Unlocked({u})
       /\ Goto(p, "hangup_finish")
       /\ UNCHANGED <<chatLocked, wiring, outcome>>

(* The rest of that branch: tu is unlinked, loses its reference and is     *)
(* unlocked (or destroyed).                                                *)
HangUpFinish(p) ==
    LET t == tu[p]
    IN /\ pc[p] = "hangup_finish"
       /\ chat' = [chat EXCEPT ![t] = NoTU]
       /\ Unref(t)
       /\ chatLocked' = [chatLocked EXCEPT ![t] = FALSE]
       /\ mutex' = Unlocked({t})
       /\ Return(p)
       /\ UNCHANGED <<state, wiring, clientVars, outcome>>

(* No call in progress, or an error branch: the telephone is put on hook   *)
(* and its client notified.                                                *)
HangUpIdle(p) ==
    LET t == tu[p]
    IN /\ pc[p] = "body" /\ op[p] = "hangup"
       /\ ~(state[t] \in {"CONNECTED", "RINGING", "RING_BACK"} /\ chat[t] # NoTU)
       /\ state' = [state EXCEPT ![t] = "ON_HOOK"]
       /\ Notify({t})
       /\ Unlock(p)
       /\ UNCHANGED <<chat, ref, wiring, mem>>

-----------------------------------------------------------------------------
(* tu_dial. *)

(* The checks made under tu's own mutex.  All but the last alternative     *)
(* notify the client and return.  (tu_notify of a CONNECTED TU reads its   *)
(* peer's descriptor, which kills the process if there is no peer.)        *)
DialPeek(p) ==
    LET t == tu[p]
        u == target[p]
    IN /\ pc[p] = "dial_peek"
       /\ Free(t)
       /\ IF chat[t] # NoTU \/ state[t] # "DIAL_TONE" \/ u \in {NoTU, t}
          THEN /\ state' = IF chat[t] # NoTU \/ state[t] # "DIAL_TONE"
                           THEN state
                           ELSE [state EXCEPT ![t] = IF u = t THEN "BUSY_SIGNAL"
                                                              ELSE "ERROR"]
               /\ Notify({t})
               /\ outcome' = IF state[t] = "CONNECTED" /\ chat[t] = NoTU
                           THEN "null peer" ELSE outcome
               /\ Return(p)
          ELSE /\ Goto(p, "lock_first")
               /\ UNCHANGED <<state, clientVars, outcome>>
       /\ UNCHANGED <<chat, chatLocked, ref, wiring, mutex, mem>>

(* Mutant: a telephone off the hook but without a peer is rung. *)
InUse_PeerOnly(u) == chat[u] # NoTU

InUse(u) == chat[u] # NoTU \/ state[u] # "ON_HOOK"

(* Both locked: the target rings, or it is in use and tu hears it busy.    *)
DialBody(p) ==
    LET t == tu[p]
        u == target[p]
    IN /\ pc[p] = "locked" /\ op[p] = "dial"
       /\ IF InUse(u)
          THEN /\ state' = [state EXCEPT ![t] = "BUSY_SIGNAL"]
               /\ Notify({t})
               /\ UNCHANGED <<chat, ref>>
          ELSE /\ state' = [state EXCEPT ![t] = "RING_BACK", ![u] = "RINGING"]
               /\ Notify({t, u})
               /\ chat' = [chat EXCEPT ![t] = u, ![u] = t]
               /\ ref' = [ref EXCEPT ![t] = @ + 1, ![u] = @ + 1]
       /\ mutex' = Unlocked({t, u})
       /\ Return(p)
       /\ UNCHANGED <<chatLocked, wiring, mem, outcome>>

-----------------------------------------------------------------------------
(* tu_chat. *)

(* Only a connected TU goes on to lock its peer as well. *)
ChatPeek(p) ==
    LET t == tu[p]
    IN /\ pc[p] = "chat_peek"
       /\ Free(t)
       /\ UNCHANGED tuVars
       /\ IF state[t] = "CONNECTED" /\ chat[t] # NoTU
          THEN GotoLockBoth(p, chat[t]) /\ UNCHANGED <<clientVars, outcome>>
          ELSE /\ Notify({t})
               /\ outcome' = IF state[t] = "CONNECTED" THEN "null peer" ELSE outcome
               /\ Return(p)

(* Mutant: the call is not looked at again. *)
StillConnected_Unchecked(t, u) == TRUE

(* The call may have ended while the lock was dropped. *)
StillConnected(t, u) ==
    /\ chat[t] = u /\ chat[u] = t
    /\ state[t] = "CONNECTED" /\ state[u] = "CONNECTED"

ChatBody(p) ==
    LET t == tu[p]
        u == target[p]
    IN /\ pc[p] = "locked" /\ op[p] = "chat"
       /\ UNCHANGED <<state, chat, chatLocked, ref, wiring, mem, outcome>>
       /\ told' = [c \in TU |-> IF c = conn[fd[t]] THEN Message(state[t], chat[t])
                                                  ELSE told[c]]
       /\ heard' = [c \in TU |->
                       CASE c = conn[fd[t]] -> NoTU
                         [] c = conn[fd[u]] /\ StillConnected(t, u) -> t
                         [] OTHER -> heard[c]]
       /\ mutex' = Unlocked({t, u})
       /\ Return(p)

-----------------------------------------------------------------------------
(* The module under its client threads. *)

(* A thread inside tu.c takes its next step. *)
Step(p) ==
    \/ LockPeek(p) \/ LockFirst(p) \/ LockSecond(p) \/ Recheck(p)
    \/ PickUp(p) \/ Answer(p) \/ PickUpIgnored(p)
    \/ HangUpCall(p) \/ HangUpFinish(p) \/ HangUpIdle(p)
    \/ DialPeek(p) \/ DialBody(p)
    \/ ChatPeek(p) \/ ChatBody(p)

(* The service thread of t executes the next command of its client. *)
Command(t) ==
    /\ \/ Call(t, "pickup", "lock_peek", t, NoTU)
       \/ Call(t, "hangup", "lock_peek", t, NoTU)
       \/ \E u \in TU \cup {NoTU} : Call(t, "dial", "dial_peek", t, u)
       \/ Call(t, "chat", "chat_peek", t, NoTU)
    /\ UNCHANGED <<tuVars, clientVars, outcome>>

(* The process has been killed. *)
Killed == outcome # "running" /\ UNCHANGED vars

Running == outcome = "running"

Injective(f) == \A t, u \in DOMAIN f : t # u => f[t] # f[u]

(* Every TU has just been registered, so it has two references, that of    *)
(* its service thread and that of the registry, and has been sent ON HOOK. *)
Init ==
    /\ state = [t \in TU |-> "ON_HOOK"]
    /\ chat = [t \in TU |-> NoTU]
    /\ chatLocked = [t \in TU |-> FALSE]
    /\ ref = [t \in TU |-> 2]
    /\ ext \in {f \in [TU -> Ext] : Injective(f)}
    /\ fd = ext
    /\ conn = [e \in Ext |-> IF \E t \in TU : fd[t] = e
                             THEN CHOOSE t \in TU : fd[t] = e ELSE NoTU]
    /\ mutex = [t \in TU |-> NoThread]
    /\ mem = [t \in TU |-> "live"]
    /\ told = [t \in TU |-> Message("ON_HOOK", NoTU)]
    /\ heard = [t \in TU |-> NoTU]
    /\ pc = [p \in Thread |-> "idle"]
    /\ op = [p \in Thread |-> "none"]
    /\ tu = [p \in Thread |-> NoTU]
    /\ target = [p \in Thread |-> NoTU]
    /\ outcome = "running"

Next ==
    \/ Running /\ \E t \in TU : Command(t) \/ Step(t)
    \/ Killed

Spec == Init /\ [][Next]_vars

(* A thread inside tu.c keeps running; a client may stop sending commands. *)
FairSpec == Spec /\ \A t \in TU : WF_vars(Running /\ Step(t))

-----------------------------------------------------------------------------
TypeOK ==
    /\ state \in [TU -> TUState]
    /\ chat \in [TU -> TU \cup {NoTU}]
    /\ chatLocked \in [TU -> BOOLEAN]
    /\ ref \in [TU -> Nat]
    /\ ext \in [TU -> Ext \cup {0}]
    /\ fd \in [TU -> Ext \cup {0}]
    /\ conn \in [Ext -> TU \cup {NoTU}]
    /\ mutex \in [TU -> Thread \cup {NoThread}]
    /\ mem \in [TU -> Memory]
    /\ told \in [TU -> (TUState \cup {"nothing"}) \X (TU \cup {NoTU})]
    /\ heard \in [TU -> TU \cup {NoTU}]
    /\ pc \in [Thread -> Label]
    /\ op \in [Thread -> Op]
    /\ tu \in [Thread -> TU \cup {NoTU}]
    /\ target \in [Thread -> TU \cup {NoTU}]
    /\ outcome \in Outcome


(* The mutexes that a thread holds, read off its program counter. *)
Held(p) ==
    {t \in TU : \/ pc[p] = "lock_second" /\ t = First(tu[p], target[p])
                \/ pc[p] \in {"locked", "body"} /\ t \in {tu[p], target[p]}
                \/ pc[p] = "hangup_finish" /\ t = tu[p]}

(* Mutual exclusion as tu.c intends it: between two acquisitions a mutex is *)
(* owned by exactly the thread whose program counter says so.  No branch   *)
(* returns with a mutex locked, unlocks one it never took, or (tu_unlock,  *)
(* which trusts chat_locked) unlocks a peer that somebody else has locked. *)
LocksHeld ==
    \A t \in TU, p \in Thread : mutex[t] = p <=> t \in Held(p)

(* The deadlock rule of tu_lock, tu_dial and tu_chat: a thread that waits   *)
(* for a mutex holds only mutexes of smaller extensions.                   *)
LockOrder ==
    \A p \in Thread : pc[p] = "lock_second" =>
        \A t \in TU : mutex[t] = p => ext[t] < ext[Second(tu[p], target[p])]

(* The reference count of a TU that nobody has locked is exact: one for    *)
(* its service thread, one for the registry, one more for a call.          *)
RefCountExact ==
    \A t \in TU : mutex[t] = NoThread =>
        ref[t] = 2 + (IF chat[t] = NoTU THEN 0 ELSE 1)

(* A client is never left with a stale display: while nobody has its TU    *)
(* locked, the last notification sent names the state of the TU and, when  *)
(* connected, the right peer, although half of the changes of a TU are     *)
(* made by the threads of other clients.                                   *)
ClientsUpToDate ==
    \A t \in TU : mutex[t] = NoThread => told[t] = Message(state[t], chat[t])

(* A chat message is delivered only to a client whose display shows it     *)
(* connected to the sender, however the call changed while tu_chat waited  *)
(* for the second mutex.                                                   *)
ChatReachesOnlyThePeer ==
    \A u \in TU : heard[u] # NoTU => told[u] = <<"CONNECTED", heard[u]>>

(* The telephone exchange that clients see.  A call ends in one step, when *)
(* the peer is unlinked, so tu has no peer while hangup_finish is to come. *)
Peer == [t \in TU |-> IF \E p \in Thread : pc[p] = "hangup_finish" /\ tu[p] = t
                      THEN NoTU ELSE chat[t]]

C == INSTANCE Calls WITH peer <- Peer

(* Whatever the interleaving, tu.c implements the exchange in which every  *)
(* operation is indivisible.                                               *)
ImplementsCalls == C!Spec

-----------------------------------------------------------------------------
(* The inductive invariant of Spec. *)

(* Locals and arguments: a thread works for its own TU; what it remembers  *)
(* of its peer is true while it has both locked, chat_locked included; and *)
(* nobody disturbs a TU whose thread is inside tu_dial.                    *)
FrameOK(p) ==
    /\ pc[p] # "idle" => p \in TU /\ tu[p] = p
    /\ pc[p] \in {"lock_peek", "body"} => op[p] \in {"pickup", "hangup"}
    /\ pc[p] = "dial_peek" => op[p] = "dial"
    /\ pc[p] = "chat_peek" => op[p] = "chat"
    /\ pc[p] \in {"lock_first", "lock_second", "locked"} =>
         /\ op[p] # "none"
         /\ target[p] \in TU \ {p}
         /\ op[p] = "dial" => chat[p] = NoTU /\ state[p] = "DIAL_TONE"
    /\ pc[p] = "body" =>
         /\ target[p] = chat[p]
         /\ chat[p] # NoTU => chatLocked[p]
    /\ pc[p] = "hangup_finish" => chat[p] # NoTU

FramesOK == \A p \in Thread : FrameOK(p)

(* Every TU is registered at its descriptor, which nobody else has. *)
WiringOK ==
    /\ Injective(ext)
    /\ \A t \in TU : ext[t] \in Ext /\ fd[t] = ext[t] /\ conn[ext[t]] = t

(* Reference counts change together with the links they count, so that no  *)
(* TU is ever freed. *)
RefsOK ==
    \A t \in TU : /\ ref[t] = 2 + (IF chat[t] = NoTU THEN 0 ELSE 1)
                  /\ mem[t] = "live"

(* Notifications are sent together with the changes they announce. *)
ToldOK ==
    \A t \in TU : told[t] = Message(state[t], chat[t])

IInv ==
    /\ TypeOK
    /\ LocksHeld
    /\ FramesOK
    /\ WiringOK
    /\ C!CallsOK
    /\ RefsOK
    /\ ToldOK
    /\ ChatReachesOnlyThePeer

-----------------------------------------------------------------------------
Quiet == \A p \in Thread : pc[p] = "idle"

(* No operation hangs: unless the process dies or the clients go on sending *)
(* commands for ever, every operation in progress comes to its end.        *)
OperationsEnd ==
    \/ []<>(Quiet \/ ~Running)
    \/ []<><<\E t \in TU : Command(t)>>_vars

=============================================================================
