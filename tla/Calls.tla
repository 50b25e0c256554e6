-------------------------------- MODULE Calls --------------------------------
(***************************************************************************)
(* What the telephone exchange promises its subscribers, with every        *)
(* operation of hw5/src/tu.c taken as one indivisible step.                *)
(*                                                                         *)
(* A telephone unit (TU) has a state and at most one peer.  Locks,         *)
(* reference counts, threads and the registry do not exist here: modules   *)
(* TU and PBX, which have them, are shown to implement this one.           *)
(***************************************************************************)

CONSTANTS TU,    \* the telephone units
          NoTU   \* the NULL pointer to a TU

VARIABLES state, \* tu->state
          peer   \* tu->chat_TU

vars == <<state, peer>>

(* enum tu_state *)
TUState == {"ON_HOOK", "RINGING", "DIAL_TONE", "RING_BACK",
            "BUSY_SIGNAL", "CONNECTED", "ERROR"}

(* The states in which a TU has a peer. *)
InCall == {"RINGING", "RING_BACK", "CONNECTED"}

Init ==
    /\ state = [t \in TU |-> "ON_HOOK"]
    /\ peer = [t \in TU |-> NoTU]

-----------------------------------------------------------------------------

(* tu_pickup of an idle telephone. *)
PickUp(t) ==
    /\ state[t] = "ON_HOOK"
    /\ state' = [state EXCEPT ![t] = "DIAL_TONE"]
    /\ UNCHANGED peer

(* tu_pickup of a ringing telephone: both ends are connected at once. *)
Answer(t) ==
    /\ state[t] = "RINGING"
    /\ peer[t] # NoTU
    /\ state[peer[t]] = "RING_BACK"
    /\ peer[peer[t]] = t
    /\ state' = [state EXCEPT ![t] = "CONNECTED", ![peer[t]] = "CONNECTED"]
    /\ UNCHANGED peer

(* tu_hangup during a call that is connected, or that is ringing here: the *)
(* other end, which is off the hook, hears a dial tone.  tu_hangup by the  *)
(* caller of a call that still rings puts the called end back on hook.     *)
HangUpCall(t) ==
    /\ state[t] \in InCall
    /\ peer[t] # NoTU
    /\ state' = [state EXCEPT ![t] = "ON_HOOK",
                              ![peer[t]] = IF state[t] = "RING_BACK"
                                           THEN "ON_HOOK" ELSE "DIAL_TONE"]
    /\ peer' = [peer EXCEPT ![t] = NoTU, ![peer[t]] = NoTU]

(* tu_hangup with no call in progress. *)
HangUpIdle(t) ==
    /\ state[t] \in {"DIAL_TONE", "BUSY_SIGNAL", "ERROR"}
    /\ state' = [state EXCEPT ![t] = "ON_HOOK"]
    /\ UNCHANGED peer

(* tu_dial of a telephone that is on hook and has no peer. *)
Dial(t, u) ==
    /\ state[t] = "DIAL_TONE"
    /\ u # t
    /\ peer[u] = NoTU
    /\ state[u] = "ON_HOOK"
    /\ state' = [state EXCEPT ![t] = "RING_BACK", ![u] = "RINGING"]
    /\ peer' = [peer EXCEPT ![t] = u, ![u] = t]

(* tu_dial of a telephone in use, or of oneself. *)
DialBusy(t, u) ==
    /\ state[t] = "DIAL_TONE"
    /\ \/ u = t
       \/ peer[u] # NoTU
       \/ state[u] # "ON_HOOK"
    /\ state' = [state EXCEPT ![t] = "BUSY_SIGNAL"]
    /\ UNCHANGED peer

(* tu_dial of an extension at which nothing is registered. *)
DialNobody(t) ==
    /\ state[t] = "DIAL_TONE"
    /\ state' = [state EXCEPT ![t] = "ERROR"]
    /\ UNCHANGED peer

Next ==
    \E t \in TU :
        \/ PickUp(t)
        \/ Answer(t)
        \/ HangUpCall(t)
        \/ HangUpIdle(t)
        \/ DialNobody(t)
        \/ \E u \in TU : Dial(t, u) \/ DialBusy(t, u)

Spec == Init /\ [][Next]_vars

-----------------------------------------------------------------------------

(* Every TU has a state of enum tu_state and a peer that is a TU or NULL.  *)
TypeOK ==
    /\ state \in [TU -> TUState]
    /\ peer \in [TU -> TU \cup {NoTU}]

(* A peer is another telephone, and it has this one as its own peer: what  *)
(* tu_dial links and tu_hangup unlinks is always a pair.                   *)
PeersMutual ==
    \A t \in TU : peer[t] # NoTU => peer[t] # t /\ peer[peer[t]] = t

(* The state that goes with t's at the other end of t's call. *)
Opposite == [s \in InCall |-> IF s = "RINGING" THEN "RING_BACK"
                             ELSE IF s = "RING_BACK" THEN "RINGING"
                             ELSE "CONNECTED"]

(* A telephone has a peer exactly while its state is that of a call, and   *)
(* the two ends always agree on the stage the call has reached.            *)
EndsAgree ==
    \A t \in TU : /\ state[t] \in InCall <=> peer[t] # NoTU
                  /\ peer[t] # NoTU => state[peer[t]] = Opposite[state[t]]

(* The inductive invariant: the three together. *)
CallsOK == TypeOK /\ PeersMutual /\ EndsAgree

=============================================================================
