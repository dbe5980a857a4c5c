------------------------------ MODULE Presence ------------------------------
(***************************************************************************)
(* Presence of one user: registrations made through the trackers of        *)
(* several instances over one Redis hash with a time to live               *)
(* (presence/redis), or through one tracker in memory (presence/memory).   *)
(***************************************************************************)
EXTENDS Integers, FiniteSets

CONSTANTS Tracker, Registration,
          Home,         \* the tracker a registration is made with
          Trackers,     \* "redis" or "memory"
          MaxFaults     \* commands that fail, late refreshes and crashes

VARIABLES trackers,  \* the implementation in use
          count,     \* the field of the hash; the key exists when it is positive
          routing,   \* the instance the user last registered at, 0 for none
          reg,       \* the registrations
          loop,      \* registrations whose refresh loop runs
          tracker,   \* the trackers
          lapsed,    \* the key has expired while somebody held a registration
          faults

presence == <<count, routing>>
vars == <<trackers, presence, reg, loop, tracker, lapsed, faults>>
Redis == trackers = "redis"

Fault == faults > 0 /\ faults' = faults - 1
Reg(r, state) == reg' = [reg EXCEPT ![r] = state]

(***************************************************************************)
(* Questions.  A closed tracker answers none of them; one in memory knows  *)
(* what was registered with it.                                            *)
(***************************************************************************)
Answers(t) == tracker[t] = "open"
Online == count > 0
IsOnline(t) == Answers(t) /\ Online
IsOnlineMemory(t) == Answers(t) /\ Online /\ routing = t
\* Those of the given users who are online.
OnlineUsers(us, t) == {u \in us : u = "user" /\ IsOnline(t)}
OnlineUsersMemory(us, t) == {u \in us : u = "user" /\ IsOnlineMemory(t)}
\* Locate finds where the user registered last, 0 when the user is not found.
Locate(t) == IF IsOnline(t) THEN routing ELSE 0
LocateMemory(t) == IF IsOnlineMemory(t) THEN routing ELSE 0

(***************************************************************************)
(* presence/redis.                                                         *)
(***************************************************************************)
\* Register runs its script, unless the tracker is closed, ...
Register(r) ==
    /\ Redis /\ reg[r] = "none"
    /\ IF tracker[Home[r]] # "open" THEN Reg(r, "failed") /\ UNCHANGED <<presence, faults>>
       ELSE \/ Reg(r, "counted") /\ count' = count + 1 /\ routing' = Home[r] /\ UNCHANGED faults
            \/ Reg(r, "failed") /\ Fault /\ UNCHANGED presence
    /\ UNCHANGED <<trackers, loop, tracker, lapsed>>
\* ... and then enters the registration and starts its refresh loop; a tracker that was closed
\* meanwhile refuses it, and what the script counted stays until the key expires.
Track(r) ==
    /\ reg[r] = "counted"
    /\ IF tracker[Home[r]] # "open" THEN Reg(r, "failed") /\ UNCHANGED loop
       ELSE Reg(r, "live") /\ loop' = loop \cup {r}
    /\ UNCHANGED <<trackers, presence, tracker, lapsed, faults>>

\* Mutant: a second Unregister of the same registration is not recognised.
MutUnregister(r) ==
    /\ Redis /\ reg[r] \in {"live", "gone"}
    /\ Reg(r, "leaving") /\ loop' = loop \ {r}
    /\ UNCHANGED <<trackers, presence, tracker, lapsed, faults>>
\* Unregister stops the loop, once, and then runs its script; a registration may be held long after
\* its tracker was closed.
Unregister(r) ==
    /\ Redis /\ reg[r] = "live"
    /\ Reg(r, "leaving") /\ loop' = loop \ {r}
    /\ UNCHANGED <<trackers, presence, tracker, lapsed, faults>>
Decrement(r) ==
    /\ reg[r] = "leaving" /\ Reg(r, "gone")
    /\ \/ count' = (IF count <= 1 THEN 0 ELSE count - 1) /\ routing' = (IF count <= 1 THEN 0 ELSE routing)
          /\ UNCHANGED faults
       \/ Fault /\ UNCHANGED presence
    /\ UNCHANGED <<trackers, loop, tracker, lapsed>>

CloseBegin(t) ==
    /\ Redis /\ tracker[t] = "open" /\ tracker' = [tracker EXCEPT ![t] = "closing"]
    /\ UNCHANGED <<trackers, presence, reg, loop, lapsed, faults>>
\* Mutant: the loops are not cancelled.
MutClose(t) ==
    /\ tracker[t] = "closing" /\ tracker' = [tracker EXCEPT ![t] = "closed"]
    /\ UNCHANGED <<trackers, presence, reg, loop, lapsed, faults>>
\* Close cancels the loops of its registrations; it decrements nothing.
Close(t) ==
    /\ tracker[t] = "closing" /\ tracker' = [tracker EXCEPT ![t] = "closed"]
    /\ loop' = {r \in loop : Home[r] # t}
    /\ UNCHANGED <<trackers, presence, reg, lapsed, faults>>

\* The time to live runs out when no loop refreshes it.  (refreshLoop keeps the key by renewing it well
\* before: it changes nothing here.  EXPIRE does not bring back a key that has gone.)
Expire ==
    /\ Redis /\ count > 0 /\ loop = {} /\ count' = 0 /\ routing' = 0
    /\ lapsed' = (lapsed \/ \E r \in Registration : reg[r] \in {"counted", "live", "leaving"})
    /\ UNCHANGED <<trackers, reg, loop, tracker, faults>>
\* It may also run out under a loop that Redis or a pause held up for too long.
RefreshLate ==
    /\ Redis /\ count > 0 /\ loop # {} /\ Fault /\ count' = 0 /\ routing' = 0 /\ lapsed' = TRUE
    /\ UNCHANGED <<trackers, reg, loop, tracker>>
\* An instance dies with its registrations.
Crash(t) ==
    /\ Redis /\ tracker[t] # "closed" /\ Fault
    /\ tracker' = [tracker EXCEPT ![t] = "closed"]
    /\ reg' = [r \in Registration |-> IF Home[r] = t /\ reg[r] # "none" THEN "dead" ELSE reg[r]]
    /\ loop' = {r \in loop : Home[r] # t}
    /\ UNCHANGED <<trackers, presence, lapsed>>

(***************************************************************************)
(* presence/memory: every call is one step under the tracker's lock, and a *)
(* tracker knows only the registrations made with it.                      *)
(***************************************************************************)
RegisterMemory(r) ==
    /\ ~Redis /\ reg[r] = "none" /\ \A q \in Registration : reg[q] # "none" => Home[q] = Home[r]
    /\ IF tracker[Home[r]] # "open" THEN Reg(r, "failed") /\ UNCHANGED presence
       ELSE Reg(r, "live") /\ count' = count + 1 /\ routing' = Home[r]
    /\ UNCHANGED <<trackers, loop, tracker, lapsed, faults>>
UnregisterMemory(r) ==
    /\ ~Redis /\ reg[r] = "live" /\ Reg(r, "gone")
    /\ count' = count - 1 /\ routing' = IF count = 1 THEN 0 ELSE routing
    /\ UNCHANGED <<trackers, loop, tracker, lapsed, faults>>
CloseMemory(t) ==
    /\ ~Redis /\ tracker[t] = "open" /\ tracker' = [tracker EXCEPT ![t] = "closed"]
    /\ UNCHANGED <<trackers, presence, reg, loop, lapsed, faults>>

Init ==
    /\ trackers \in Trackers /\ count = 0 /\ routing = 0
    /\ reg = [r \in Registration |-> "none"] /\ loop = {}
    /\ tracker = [t \in Tracker |-> "open"]
    /\ lapsed = FALSE /\ faults = MaxFaults
Next ==
    \/ \E r \in Registration : \/ Register(r) \/ Track(r) \/ Unregister(r) \/ Decrement(r)
                               \/ RegisterMemory(r) \/ UnregisterMemory(r)
    \/ \E t \in Tracker : CloseBegin(t) \/ Close(t) \/ Crash(t) \/ CloseMemory(t)
    \/ Expire \/ RefreshLate
\* Redis expires keys.
Spec == Init /\ [][Next]_vars /\ WF_vars(Expire)

(***************************************************************************)
(* Properties.                                                             *)
(***************************************************************************)
Held(r) == IF Redis THEN r \in loop ELSE reg[r] = "live"
Found(t) == IF Redis THEN IsOnline(t) /\ OnlineUsers({"user", "other"}, t) = {"user"} /\ Locate(t) # 0
            ELSE IsOnlineMemory(t) /\ OnlineUsersMemory({"user", "other"}, t) = {"user"} /\ LocateMemory(t) # 0

\* OnlineWhileRegistered: whoever holds a registration that is refreshed is found by every tracker that
\* answers (in memory, by the one of the registration): online, among the online users, and with Locate
\* naming an instance, whatever other registrations of the user come, go, fail or die with their instance,
\* unless the key has expired under a registration (presence/redis counts registrations in one field
\* and deletes the key when the count is used up).
OnlineWhileRegistered ==
    ~lapsed => \A r \in Registration, t \in Tracker :
                 Held(r) /\ Answers(t) /\ (Redis \/ t = Home[r]) => Found(t)

\* OfflineEventually: when all registrations are over, or their trackers closed or dead, the user is
\* offline in the end, although a refused Register, a Close, a crash or a failed Unregister leaves the
\* count too high (presence/redis relies on the time to live for that).
OfflineEventually ==
    <>[](Redis /\ \A r \in Registration : \/ reg[r] \in {"none", "failed", "gone", "dead"}
                                          \/ tracker[Home[r]] = "closed")
        => <>[](~Online)
=============================================================================
