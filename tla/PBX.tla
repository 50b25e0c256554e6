---------------------------------- MODULE PBX ----------------------------------
(***************************************************************************)
(* The server of hw5: the registry (pbx.c), the service threads that run   *)
(* it (server.c), the thread that accepts connections and, on SIGHUP, runs *)
(* the shutdown (main.c), over the telephone units of module TU.           *)
(*                                                                         *)
(* TUs are created when a client connects, registered at the extension     *)
(* that is the number of their descriptor, used, unregistered and freed.   *)
(* Every thread has two program counters: pc says where it is inside tu.c  *)
(* (module TU) and svc where it is in the functions above; an action of    *)
(* this module is enabled only while pc is "idle".                         *)
(*                                                                         *)
(* An address is used for one TU only: memory that is freed is never       *)
(* allocated again, so that every use of it can be recognised.             *)
(***************************************************************************)
EXTENDS TU

CONSTANTS Main,   \* the thread that accepts connections
          MaxExt, \* PBX_MAX_EXTENSIONS, the length of the array pbx->tus
          Commands, \* the commands that clients send (a bound for TLC)
          Sighups   \* whether SIGHUP may be sent (a bound for TLC)

ASSUME MainAssumption == Thread = TU \cup {Main} /\ Main \notin TU
(* A process has no descriptor beyond PBX_MAX_EXTENSIONS - 1 = 1023 unless  *)
(* the default limit on open files has been raised.                        *)
ASSUME MaxExtAssumption == MaxExt \in Nat /\ Ext \subseteq 1 .. MaxExt - 1
ASSUME BoundsAssumption ==
    Commands \subseteq {"pickup", "hangup", "dial", "chat"} /\ Sighups \in BOOLEAN

VARIABLES
    registry,   \* pbx->tus
    pbxMutex,   \* the thread that has locked pbx->mutex
    pbxFreed,   \* pbx has been freed
    svc,        \* where a thread is in server.c, pbx.c and main.c
    shut        \* the clients whose connection was shut down for reading

pbxVars == <<registry, pbxMutex, pbxFreed>>
allVars == <<vars, pbxVars, svc, shut>>

Index == 0 .. MaxExt - 1

ServiceLabel == {"none", "start", "reading", "want_dial", "dialling", "eof",
                 "get_ext", "want_unregister", "helper_shutdown",
                 "helper_unref", "clear", "done"}
MainLabel == {"accepting", "want_shutdown", "scan", "helper_shutdown",
              "helper_unref", "clear", "unlocked", "freed"}

-----------------------------------------------------------------------------
At(p, label) == pc[p] = "idle" /\ svc[p] = label

Continue(p, label) == svc' = [svc EXCEPT ![p] = label]

LockPBX(p) == ~pbxFreed /\ pbxMutex = NoThread /\ pbxMutex' = p
UnlockPBX(p) == ~pbxFreed /\ pbxMutex' = NoThread

Occupied == {e \in Index : registry[e] # NoTU}
LowestOccupied == CHOOSE e \in Occupied : \A f \in Occupied : e <= f

(* The argument of pbx_unregister_helper: the thread's own TU, or the one  *)
(* that the loop of pbx_shutdown has reached.                              *)
HelperTU(p) == IF p = Main THEN registry[LowestOccupied] ELSE p

-----------------------------------------------------------------------------
(* main.c and the start of pbx_client_service. *)

(* The new thread makes a TU (tu_init) that no other thread knows.         *)
Begin(t) ==
    /\ mem' = [mem EXCEPT ![t] = "live"]
    /\ ref' = [ref EXCEPT ![t] = 1]
    /\ Continue(t, "start")

(* A client connects: accept returns the lowest free descriptor.           *)
Accept(t) ==
    /\ svc[Main] = "accepting"
    /\ svc[t] = "none"
    /\ \E e \in Ext :
         /\ conn[e] = NoTU
         /\ \A f \in Ext : conn[f] = NoTU => e <= f
         /\ conn' = [conn EXCEPT ![e] = t]
         /\ fd' = [fd EXCEPT ![t] = e]
    /\ Begin(t)
    /\ UNCHANGED <<state, chat, chatLocked, ext, mutex, clientVars, frame,
                   outcome, pbxVars, shut>>

(* tu_ref, of a TU whose mutex nobody holds. *)
Ref(t) == ref' = [ref EXCEPT ![t] = @ + 1]

(* tu_set_extension, which notifies the client: called with the registry   *)
(* locked, for a TU that no other thread can reach yet.                    *)
SetExtension(t) ==
    /\ ext' = [ext EXCEPT ![t] = fd[t]]
    /\ UNCHANGED <<state, chat, chatLocked, fd, conn, mutex, mem>>
    /\ Notify({t})

(* Mutant: an extension that is taken is given away. *)
Vacant_Any(e) == TRUE

Vacant(e) == registry[e] = NoTU

(* Mutant: the registry's pointer is not counted. *)
Register_NoRef(t) ==
    /\ At(t, "start")
    /\ ~pbxFreed /\ pbxMutex = NoThread
    /\ Vacant(fd[t])
    /\ registry' = [registry EXCEPT ![fd[t]] = t]
    /\ UNCHANGED ref
    /\ SetExtension(t)
    /\ Continue(t, "reading")
    /\ UNCHANGED <<frame, outcome, pbxMutex, pbxFreed, shut>>

(* pbx_register at the extension numbered like the descriptor.             *)
Register(t) ==
    /\ At(t, "start")
    /\ ~pbxFreed /\ pbxMutex = NoThread
    /\ Vacant(fd[t])
    /\ registry' = [registry EXCEPT ![fd[t]] = t]
    /\ Ref(t)
    /\ SetExtension(t)
    /\ Continue(t, "reading")
    /\ UNCHANGED <<frame, outcome, pbxMutex, pbxFreed, shut>>

(* pbx_register fails: the connection is closed and the TU destroyed.      *)
RegisterFails(t) ==
    /\ At(t, "start")
    /\ ~pbxFreed /\ pbxMutex = NoThread
    /\ ~Vacant(fd[t])
    /\ conn' = [conn EXCEPT ![fd[t]] = NoTU]
    /\ Unref(t)
    /\ Continue(t, "done")
    /\ UNCHANGED <<state, chat, chatLocked, ext, fd, mutex, clientVars, frame,
                   outcome, pbxVars, shut>>

-----------------------------------------------------------------------------
(* The service loop: pbx_get_next_command, pbx_run_command, pbx_dial. *)

(* A command for tu.c. *)
RunCommand(t) ==
    /\ At(t, "reading")
    /\ \/ "pickup" \in Commands /\ Call(t, "pickup", "lock_peek", t, NoTU)
       \/ "hangup" \in Commands /\ Call(t, "hangup", "lock_peek", t, NoTU)
       \/ "chat" \in Commands /\ Call(t, "chat", "chat_peek", t, NoTU)
    /\ UNCHANGED <<tuVars, clientVars, outcome, pbxVars, svc, shut>>

DialCommand(t) ==
    /\ At(t, "reading")
    /\ "dial" \in Commands
    /\ Continue(t, "want_dial")
    /\ UNCHANGED <<vars, pbxVars, shut>>

(* pbx_dial, with any extension number that passes its range check; the    *)
(* check lets PBX_MAX_EXTENSIONS itself pass, which is one too many.       *)
Dial(t) ==
    /\ At(t, "want_dial")
    /\ LockPBX(t)
    /\ \E e \in 0 .. MaxExt :
         IF e \in Index
         THEN /\ Call(t, "dial", "dial_peek", t, registry[e])
              /\ UNCHANGED outcome
         ELSE outcome' = "out of bounds" /\ UNCHANGED frame
    /\ Continue(t, "dialling")
    /\ UNCHANGED <<tuVars, clientVars, registry, pbxFreed, shut>>

(* Mutant: pbx_dial returns without unlocking the registry. *)
DialReturn_Locked(t) ==
    /\ At(t, "dialling")
    /\ Continue(t, "reading")
    /\ UNCHANGED <<vars, pbxVars, shut>>

DialReturn(t) ==
    /\ At(t, "dialling")
    /\ UnlockPBX(t)
    /\ Continue(t, "reading")
    /\ UNCHANGED <<vars, registry, pbxFreed, shut>>

(* End of file, because the client has closed the connection or because it *)
(* was shut down here: fclose releases the descriptor.                     *)
ReadEof(t) ==
    /\ At(t, "reading")
    /\ conn' = [conn EXCEPT ![fd[t]] = NoTU]
    /\ Continue(t, "eof")
    /\ UNCHANGED <<state, chat, chatLocked, ref, ext, fd, mutex, mem,
                   clientVars, frame, outcome, pbxVars, shut>>

(* Mutant: tu_unref is forgotten. *)
ReleaseOwn_Kept(t) ==
    /\ At(t, "eof")
    /\ Free(t)
    /\ Continue(t, "get_ext")
    /\ UNCHANGED <<vars, pbxVars, shut>>

(* The service thread gives up its reference, *)
ReleaseOwn(t) ==
    /\ At(t, "eof")
    /\ Free(t)
    /\ Unref(t)
    /\ Continue(t, "get_ext")
    /\ UNCHANGED <<state, chat, chatLocked, wiring, mutex, clientVars, frame,
                   outcome, pbxVars, shut>>

(* and then calls pbx_unregister, which begins with tu_extension.          *)
GetExtension(t) ==
    /\ At(t, "get_ext")
    /\ Free(t)
    /\ Continue(t, "want_unregister")
    /\ UNCHANGED <<vars, pbxVars, shut>>

(* The registry is locked; if the extension is occupied, by whatever TU,   *)
(* the helper begins by hanging up the thread's own TU.                    *)
Unregister(t) ==
    /\ At(t, "want_unregister")
    /\ LockPBX(t)
    /\ registry[ext[t]] # NoTU
    /\ Call(t, "hangup", "lock_peek", t, NoTU)
    /\ Continue(t, "helper_shutdown")
    /\ UNCHANGED <<tuVars, clientVars, outcome, registry, pbxFreed, shut>>

(* Nothing is registered at the extension any more: the shutdown has been  *)
(* there first.  Whatever call the TU has made since then goes on.         *)
UnregisterFails(t) ==
    /\ At(t, "want_unregister")
    /\ ~pbxFreed /\ pbxMutex = NoThread
    /\ registry[ext[t]] = NoTU
    /\ Continue(t, "done")
    /\ UNCHANGED <<vars, pbxVars, shut>>

UnregisterReturn(t) ==
    /\ At(t, "clear")
    /\ UnlockPBX(t)
    /\ registry' = [registry EXCEPT ![ext[t]] = NoTU]
    /\ Continue(t, "done")
    /\ UNCHANGED <<vars, pbxFreed, shut>>

-----------------------------------------------------------------------------
(* The rest of pbx_unregister_helper, in a service thread or in Main. *)

(* tu_fileno *)
Fileno(t) == fd[t]

(* shutdown(tu_fileno(tu), SHUT_RD): the descriptor may be closed by now,  *)
(* or belong to the connection of another client.                          *)
HelperShutdown(p) ==
    /\ At(p, "helper_shutdown")
    /\ Free(HelperTU(p))
    /\ shut' = shut \cup ({conn[Fileno(HelperTU(p))]} \ {NoTU})
    /\ Continue(p, "helper_unref")
    /\ UNCHANGED <<vars, pbxVars>>

HelperUnref(p) ==
    /\ At(p, "helper_unref")
    /\ Free(HelperTU(p))
    /\ Unref(HelperTU(p))
    /\ Continue(p, "clear")
    /\ UNCHANGED <<state, chat, chatLocked, wiring, mutex, clientVars, frame,
                   outcome, pbxVars, shut>>

-----------------------------------------------------------------------------
(* pbx_shutdown, called by the handler of SIGHUP in the main thread. *)

Sighup ==
    /\ Sighups
    /\ svc[Main] = "accepting"
    /\ Continue(Main, "want_shutdown")
    /\ UNCHANGED <<vars, pbxVars, shut>>

ShutdownLock ==
    /\ At(Main, "want_shutdown")
    /\ LockPBX(Main)
    /\ Continue(Main, "scan")
    /\ UNCHANGED <<vars, registry, pbxFreed, shut>>

ShutdownNext ==
    /\ At(Main, "scan")
    /\ Occupied # {}
    /\ Call(Main, "hangup", "lock_peek", HelperTU(Main), NoTU)
    /\ Continue(Main, "helper_shutdown")
    /\ UNCHANGED <<tuVars, clientVars, outcome, pbxVars, shut>>

ShutdownClear ==
    /\ At(Main, "clear")
    /\ registry' = [registry EXCEPT ![LowestOccupied] = NoTU]
    /\ Continue(Main, "scan")
    /\ UNCHANGED <<vars, pbxMutex, pbxFreed, shut>>

(* The loop is over: unlock; destroy the mutex and free the PBX; exit.     *)
ShutdownUnlock ==
    /\ At(Main, "scan")
    /\ Occupied = {}
    /\ UnlockPBX(Main)
    /\ Continue(Main, "unlocked")
    /\ UNCHANGED <<vars, registry, pbxFreed, shut>>

ShutdownFree ==
    /\ At(Main, "unlocked")
    /\ pbxFreed' = TRUE
    /\ Continue(Main, "freed")
    /\ UNCHANGED <<vars, registry, pbxMutex, shut>>

Exit ==
    /\ At(Main, "freed")
    /\ outcome' = "exit"
    /\ UNCHANGED <<tuVars, clientVars, frame, pbxVars, svc, shut>>

-----------------------------------------------------------------------------
(* Memory that has been freed. *)

(* The TU whose mutex a thread is about to lock. *)
Wanted(p) ==
    CASE pc[p] \in {"lock_peek", "dial_peek", "chat_peek"} -> tu[p]
      [] pc[p] = "lock_first" -> First(tu[p], target[p])
      [] pc[p] = "lock_second" -> Second(tu[p], target[p])
      [] At(p, "eof") \/ At(p, "get_ext") \/ At(p, "helper_shutdown")
         \/ At(p, "helper_unref") -> HelperTU(p)
      [] OTHER -> NoTU

TouchFreedTU(p) ==
    /\ Wanted(p) # NoTU
    /\ mem[Wanted(p)] = "freed"
    /\ outcome' = "freed TU"
    /\ UNCHANGED <<tuVars, clientVars, frame, pbxVars, svc, shut>>

TouchFreedPBX(p) ==
    /\ pbxFreed
    /\ \E label \in {"start", "want_dial", "dialling", "want_unregister", "clear"} :
         At(p, label)
    /\ outcome' = "freed PBX"
    /\ UNCHANGED <<tuVars, clientVars, frame, pbxVars, svc, shut>>

-----------------------------------------------------------------------------
TUStep(p) == Step(p) /\ UNCHANGED <<pbxVars, svc, shut>>

(* What a thread does without waiting for its client. *)
ServiceStep(t) ==
    \/ Register(t) \/ RegisterFails(t)
    \/ Dial(t) \/ DialReturn(t)
    \/ ReleaseOwn(t) \/ GetExtension(t) \/ Unregister(t)
    \/ UnregisterFails(t) \/ UnregisterReturn(t)

HelperStep(p) == HelperShutdown(p) \/ HelperUnref(p)

ShutdownStep ==
    \/ ShutdownLock \/ ShutdownNext \/ ShutdownClear
    \/ ShutdownUnlock \/ ShutdownFree \/ Exit

Touch(p) == TouchFreedTU(p) \/ TouchFreedPBX(p)

PBXInit ==
    /\ state = [t \in TU |-> "ON_HOOK"]
    /\ chat = [t \in TU |-> NoTU]
    /\ chatLocked = [t \in TU |-> FALSE]
    /\ ref = [t \in TU |-> 0]
    /\ ext = [t \in TU |-> 0]
    /\ fd = [t \in TU |-> 0]
    /\ mutex = [t \in TU |-> NoThread]
    /\ mem = [t \in TU |-> "none"]
    /\ conn = [e \in Ext |-> NoTU]
    /\ told = [t \in TU |-> Message("nothing", NoTU)]
    /\ heard = [t \in TU |-> NoTU]
    /\ pc = [p \in Thread |-> "idle"]
    /\ op = [p \in Thread |-> "none"]
    /\ tu = [p \in Thread |-> NoTU]
    /\ target = [p \in Thread |-> NoTU]
    /\ outcome = "running"
    /\ registry = [e \in Index |-> NoTU]
    /\ pbxMutex = NoThread
    /\ pbxFreed = FALSE
    /\ svc = [p \in Thread |-> IF p = Main THEN "accepting" ELSE "none"]
    /\ shut = {}

(* Every thread waits: in accept, for its client, or it has ended. *)
Settled ==
    /\ Quiet
    /\ svc[Main] = "accepting"
    /\ \A t \in TU : svc[t] \in {"none", "done"} \/ (svc[t] = "reading" /\ t \notin shut)

PBXNext ==
    \/ Running /\ \E t \in TU : Accept(t) \/ RunCommand(t) \/ DialCommand(t)
                               \/ ReadEof(t) \/ ServiceStep(t)
    \/ Running /\ \E p \in Thread : TUStep(p) \/ HelperStep(p) \/ Touch(p)
    \/ Running /\ (Sighup \/ ShutdownStep)
    \/ (~Running \/ Settled) /\ UNCHANGED allVars

PBXSpec == PBXInit /\ [][PBXNext]_allVars

(* Threads keep running.  Nothing is assumed of the clients, nor of SIGHUP, *)
(* but a thread whose connection has been shut down reads end of file.     *)
Proceed(p) ==
    \/ TUStep(p) \/ HelperStep(p) \/ Touch(p)
    \/ p = Main /\ ShutdownStep
    \/ p # Main /\ (ServiceStep(p) \/ (p \in shut /\ ReadEof(p)))

PBXFairSpec == PBXSpec /\ \A p \in Thread : WF_allVars(Running /\ Proceed(p))

-----------------------------------------------------------------------------
PBXTypeOK ==
    /\ TypeOK
    /\ registry \in [Index -> TU \cup {NoTU}]
    /\ pbxMutex \in Thread \cup {NoThread}
    /\ pbxFreed \in BOOLEAN
    /\ \A t \in TU : svc[t] \in ServiceLabel
    /\ svc[Main] \in MainLabel
    /\ DOMAIN svc = Thread
    /\ shut \subseteq TU

(* The registry's mutex is held through all of pbx_dial's tu_dial and all  *)
(* of pbx_unregister_helper, whatever tu.c waits for meanwhile, and by no  *)
(* thread that has returned.                                               *)
PBXMutexHeld ==
    \A p \in Thread : pbxMutex = p <=>
        svc[p] \in {"dialling", "helper_shutdown", "helper_unref", "clear", "scan"}

Held1(b) == IF b THEN 1 ELSE 0

(* The service thread's pointer to its TU, as far as tu_unref accounts for it. *)
OwnReference(t) ==
    svc[t] \in {"start", "reading", "want_dial", "dialling", "eof"}

(* The registry's pointer, until the helper's tu_unref. *)
RegistryReference(t) ==
    \E e \in Index : /\ registry[e] = t
                     /\ ~\E p \in Thread : svc[p] = "clear" /\ HelperTU(p) = t

(* The reference count of an unlocked TU is the number of counted pointers *)
(* to it (its service thread, the registry, its peer), and the TU has been *)
(* freed exactly if there are none.                                        *)
PBXRefCountExact ==
    \A t \in TU : mem[t] # "none" /\ mutex[t] = NoThread =>
        /\ ref[t] = Held1(OwnReference(t)) + Held1(RegistryReference(t))
                    + Held1(chat[t] # NoTU)
        /\ mem[t] = "freed" <=> ref[t] = 0

(* Every TU that can still be dialled, or has a peer, exists: neither the  *)
(* registry nor chat_TU points to a freed TU, except that a thread about   *)
(* to clear chat_TU still has its old value.                               *)
PointersLive ==
    /\ \A e \in Index : registry[e] # NoTU /\ pbxMutex = NoThread =>
         mem[registry[e]] = "live" /\ ext[registry[e]] = e
    /\ \A t \in TU : Peer[t] # NoTU => mem[t] = "live" /\ mem[Peer[t]] = "live"

(* A client that is being served can be dialled at its descriptor's number *)
(* until the server is shut down.                                          *)
DialableWhileServed ==
    \A t \in TU : svc[t] \in {"reading", "want_dial", "dialling"} /\ svc[Main] = "accepting"
        => registry[fd[t]] = t /\ conn[fd[t]] = t

(* Counts are exact and, until the server is shut down, the TU of a client *)
(* whose service thread has ended has been freed: nobody else's thread is  *)
(* needed for it (pbx_unregister with tu_hangup, tu_unref and server.c 61). *)
NoLeak ==
    /\ PBXRefCountExact
    /\ svc[Main] = "accepting" => \A t \in TU : svc[t] = "done" => mem[t] = "freed"

(* Unless the clients go on sending commands for ever, the server settles  *)
(* again and again, every closed connection completely unregistered, and   *)
(* after SIGHUP it comes to its end.                                       *)
ServerSettles ==
    \/ []<>(Settled \/ ~Running)
    \/ []<><<\E t \in TU : RunCommand(t) \/ DialCommand(t)>>_allVars

-----------------------------------------------------------------------------
(* The inductive invariant of PBXSpec, as long as SIGHUP has not arrived.  *)

(* No thread but its own knows the TU. *)
Unseen(t) == svc[t] \in {"none", "start"}

(* The registry has the TU, until its service thread clears the entry. *)
Registered(t) ==
    svc[t] \in {"reading", "want_dial", "dialling", "eof", "get_ext",
               "want_unregister", "helper_shutdown", "helper_unref", "clear"}

(* The connection is open; it is closed before the TU is unregistered. *)
Connected(t) == svc[t] \in {"start", "reading", "want_dial", "dialling"}

RegistryOK ==
    /\ \A t \in TU : Connected(t) => fd[t] \in Ext /\ conn[fd[t]] = t
    /\ \A t \in TU : Registered(t) => /\ ext[t] = fd[t] /\ fd[t] \in Ext
                                     /\ registry[fd[t]] = t
    /\ \A e \in Index : registry[e] # NoTU => /\ Registered(registry[e])
                                              /\ fd[registry[e]] = e

(* A TU can have a peer until the helper has hung up.  Nobody can be       *)
(* dialling it while the helper does, because both lock the registry.      *)
InService(t) ==
    /\ pc[t] # "idle" =>
         \/ svc[t] = "reading" /\ op[t] \in {"pickup", "hangup", "chat"}
         \/ svc[t] = "dialling" /\ op[t] = "dial"
         \/ svc[t] = "helper_shutdown" /\ op[t] = "hangup"
    /\ chat[t] # NoTU => /\ Registered(t)
                         /\ svc[t] \notin {"helper_unref", "clear"}
                         /\ svc[t] = "helper_shutdown" => pc[t] # "idle"
    /\ target[t] # NoTU => /\ ~Unseen(t) /\ ~Unseen(target[t])
                           /\ target[t] # t => ext[target[t]] # ext[t]
    /\ pc[t] # "idle" /\ op[t] = "dial" /\ target[t] # NoTU =>
         /\ Registered(target[t])
         /\ svc[target[t]] \notin {"helper_shutdown", "helper_unref", "clear"}

ServiceOK == \A t \in TU : InService(t)

References(t) ==
    Held1(OwnReference(t)) + Held1(Registered(t) /\ svc[t] # "clear")
    + Held1(chat[t] # NoTU)

ReferencesOK ==
    \A t \in TU : /\ mem[t] = "none" <=> svc[t] = "none"
                  /\ svc[t] # "none" => /\ ref[t] = References(t)
                                        /\ mem[t] = "freed" <=> ref[t] = 0

ServerInv ==
    /\ PBXTypeOK
    /\ LocksHeld /\ FramesOK /\ C!CallsOK
    /\ RegistryOK /\ ServiceOK /\ ReferencesOK
    /\ pc[Main] = "idle" /\ ~pbxFreed

Serving == svc[Main] = "accepting" => ServerInv

(* Both kinds of mutex belong to the thread whose place says so, whatever  *)
(* it waits for, through registration, hang-up and shutdown; and until the *)
(* shutdown registry, connections, counts and calls agree: a registered TU *)
(* has its descriptor's number and its entry, and a TU that is being       *)
(* unregistered has no peer and cannot be dialled.                         *)
PBXInv == PBXTypeOK /\ LocksHeld /\ PBXMutexHeld /\ Serving

=============================================================================
