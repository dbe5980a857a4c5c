------------------------------- MODULE Rules -------------------------------
(***************************************************************************)
(* The rules engine (rules/engine.go): runs of AfterSend on the sender's   *)
(* copy and of OnMessageReceived on a recipient's, which share a bounded   *)
(* cache of compiled conditions while the provider's rules are edited and  *)
(* the owners change their messages.                                       *)
(***************************************************************************)
EXTENDS Integers, FiniteSets, Sequences, SequencesExt

CONSTANTS Run,         \* calls of the engine, each on a message of its own
          Tables,      \* the sets of rules the provider may hold: [id, scope, cond, actions, prio, stop]
          MaxCache,    \* engineOptions.maxCacheSize
          Stricts,     \* engineOptions.strictMode
          MaxEdits     \* changes of the provider's rules and of the messages

VARIABLES table,     \* the provider's rules
          cache,     \* Engine.cache: compiled programs by key
          message,   \* the message of each run
          run,       \* the state of each run
          strict, edits

vars == <<table, cache, message, run, strict, edits>>

NotStarted == [pc |-> "new", scope |-> "", rules |-> <<>>, seen |-> [here |-> FALSE], i |-> 0,
               program |-> "", todo |-> <<>>, applied |-> <<>>, failed |-> FALSE]
Become(p, r) == run' = [run EXCEPT ![p] = r]
Rule(p) == run[p].rules[run[p].i]

(***************************************************************************)
(* Conditions and actions.                                                 *)
(***************************************************************************)
\* A condition is true, false, about the tags of the message, does not compile, or does not evaluate to
\* a truth value.
Compiles(cond) == cond # "broken"
Evaluates(program) == program # "text"
Matches(program, m) == program = "true" \/ (program = "tagged" /\ m.tag)

validSendActions == {"set_folder", "add_tag", "remove_tag", "archive", "webhook"}
Valid(scope, actions) ==
    IF scope = "send" THEN SelectSeq(actions, LAMBDA a : a \in validSendActions) ELSE actions

\* applyAction: what the store does; webhooks and forwards leave the message alone.
applyAction(a, m) ==
    CASE a = "set_folder"  -> [m EXCEPT !.folder = "folder"]
      [] a = "archive"     -> [m EXCEPT !.folder = "archived"]
      [] a = "spam"        -> [m EXCEPT !.folder = "spam"]
      [] a = "delete"      -> [m EXCEPT !.folder = "trash"]
      [] a = "add_tag"     -> [m EXCEPT !.tag = TRUE]
      [] a = "remove_tag"  -> [m EXCEPT !.tag = FALSE]
      [] a = "mark_read"   -> [m EXCEPT !.read = TRUE]
      [] a = "hard_delete" -> [m EXCEPT !.here = FALSE]
      [] OTHER             -> m
OutsideStore == {"webhook", "forward", "unknown"}
ActionFails(a, m) == IF a \in OutsideStore THEN a = "unknown" /\ strict ELSE ~m.here

(***************************************************************************)
(* A run.                                                                  *)
(***************************************************************************)
\* handleError: the error is returned in strict mode only.
Stop(r) == [r EXCEPT !.pc = "done", !.failed = TRUE]
Skip(r) == [r EXCEPT !.pc = "rule", !.i = @ + 1]

\* fetchRules: the rules of the scope by priority, in any order where priorities are equal.
fetchRules(scope) ==
    LET rs == {r \in table : r.scope = scope}
    IN  {s \in SetToSeqs(rs) : \A i, j \in DOMAIN s : i < j => s[i].prio <= s[j].prio}

\* OnMessageReceived first gets the message and refuses one that is not the recipient's; AfterSend
\* has been given the message.  Both fetch the rules, which may fail, and read the message once.
Start(p, scope, mine) ==
    /\ run[p].pc = "new"
    /\ IF scope = "receive" /\ (~mine \/ ~message[p].here) THEN Become(p, Stop(NotStarted))
       ELSE \/ \E s \in fetchRules(scope) :
                  Become(p, [NotStarted EXCEPT !.pc = "rule", !.scope = scope, !.rules = s, !.seen = message[p], !.i = 1])
            \/ Become(p, Stop(NotStarted))
    /\ UNCHANGED <<table, cache, message, strict, edits>>

\* Mutant: a program is kept under the id of its rule.
MutcacheKey(r) == <<r.id>>
cacheKey(r) == <<r.id, r.cond>>

\* compileOrCache: a program that is there, or the condition compiled and entered, into a cache emptied
\* first when it is full; another run may have entered it meanwhile.
Lookup(p) ==
    LET known == {c \in cache : c.key = cacheKey(Rule(p))} IN
    /\ run[p].pc = "rule" /\ run[p].i <= Len(run[p].rules)
    /\ Become(p, IF known = {} THEN [run[p] EXCEPT !.pc = "compile"]
                 ELSE [run[p] EXCEPT !.pc = "eval", !.program = (CHOOSE c \in known : TRUE).program])
    /\ UNCHANGED <<table, cache, message, strict, edits>>
compileOrCache(p) ==
    LET r == Rule(p)
        known == {c \in cache : c.key = cacheKey(r)}
    IN  /\ run[p].pc = "compile"
        /\ IF ~Compiles(r.cond)
           THEN Become(p, IF strict THEN Stop(run[p]) ELSE Skip(run[p])) /\ UNCHANGED cache
           ELSE IF known # {}
           THEN /\ Become(p, [run[p] EXCEPT !.pc = "eval", !.program = (CHOOSE c \in known : TRUE).program])
                /\ UNCHANGED cache
           ELSE /\ Become(p, [run[p] EXCEPT !.pc = "eval", !.program = r.cond])
                /\ cache' = (IF Cardinality(cache) >= MaxCache THEN {} ELSE cache)
                              \cup {[key |-> cacheKey(r), program |-> r.cond]}
        /\ UNCHANGED <<table, message, strict, edits>>

\* evaluate, against the message as it was read at the start.
evaluate(p) ==
    LET r == run[p] IN
    /\ r.pc = "eval"
    /\ Become(p, IF ~Evaluates(r.program) THEN IF strict THEN Stop(r) ELSE Skip(r)
                 ELSE IF Matches(r.program, r.seen)
                 THEN [r EXCEPT !.pc = "act", !.todo = Valid(r.scope, Rule(p).actions)]
                 ELSE Skip(r))
    /\ UNCHANGED <<table, cache, message, strict, edits>>

\* applySendActions, applyReceiveActions: an action that fails ends the run; after the last one the
\* next rule follows, unless the rule says stop.
Act(p) ==
    LET r == run[p]
        a == Head(r.todo)
    IN  /\ r.pc = "act" /\ r.todo # <<>>
        /\ IF ActionFails(a, message[p]) THEN Become(p, Stop(r)) /\ UNCHANGED message
           ELSE /\ Become(p, [r EXCEPT !.todo = Tail(@), !.applied = Append(@, a)])
                /\ message' = [message EXCEPT ![p] = applyAction(a, @)]
        /\ UNCHANGED <<table, cache, strict, edits>>
AfterRule(p) ==
    /\ run[p].pc = "act" /\ run[p].todo = <<>>
    /\ Become(p, IF Rule(p).stop THEN [run[p] EXCEPT !.pc = "done"] ELSE Skip(run[p]))
    /\ UNCHANGED <<table, cache, message, strict, edits>>
Finish(p) ==
    /\ run[p].pc = "rule" /\ run[p].i > Len(run[p].rules)
    /\ Become(p, [run[p] EXCEPT !.pc = "done"])
    /\ UNCHANGED <<table, cache, message, strict, edits>>

(***************************************************************************)
(* What happens beside the runs.                                           *)
(***************************************************************************)
Edit(t) ==
    /\ edits > 0 /\ edits' = edits - 1 /\ t # table /\ table' = t
    /\ UNCHANGED <<cache, message, run, strict>>
OwnerDeletes(p) ==
    /\ edits > 0 /\ edits' = edits - 1 /\ message[p].here /\ message' = [message EXCEPT ![p].here = FALSE]
    /\ UNCHANGED <<table, cache, run, strict>>
\* Engine.Close empties the cache.
Close ==
    /\ edits > 0 /\ edits' = edits - 1 /\ cache # {} /\ cache' = {}
    /\ UNCHANGED <<table, message, run, strict>>

Init ==
    /\ table \in Tables /\ cache = {} /\ strict \in Stricts /\ edits = MaxEdits
    /\ message = [p \in Run |-> [here |-> TRUE, folder |-> "inbox", tag |-> FALSE, read |-> FALSE]]
    /\ run = [p \in Run |-> NotStarted]
Next ==
    \/ \E p \in Run : \/ \E scope \in {"send", "receive"}, mine \in BOOLEAN : Start(p, scope, mine)
                      \/ Lookup(p) \/ compileOrCache(p) \/ evaluate(p) \/ Act(p) \/ AfterRule(p) \/ Finish(p)
                      \/ OwnerDeletes(p)
    \/ \E t \in Tables : Edit(t)
    \/ Close
Spec == Init /\ [][Next]_vars

(***************************************************************************)
(* Properties.                                                             *)
(***************************************************************************)
\* What the rules say should be done: the actions of the rules that match, in order, up to the first
\* that stops, or in strict mode up to the first that cannot be evaluated.
Called(r) ==
    LET Bad(n) == ~Compiles(r.rules[n].cond) \/ ~Evaluates(r.rules[n].cond)
        Hit(n) == ~Bad(n) /\ Matches(r.rules[n].cond, r.seen)
        Reached(n) == \A k \in 1 .. n - 1 : ~(Hit(k) /\ r.rules[k].stop) /\ ~(strict /\ Bad(k))
    IN  FlattenSeq([n \in DOMAIN r.rules |->
                      IF Hit(n) /\ Reached(n) THEN Valid(r.scope, r.rules[n].actions) ELSE <<>>])

\* RulesAsWritten: a run applies the actions its rules call for on the message it was started with, in
\* order and each once, and all of them unless it ends with an error: whatever other runs do to the
\* cache of compiled conditions, however rules are edited meanwhile (rules/engine.go).
RulesAsWritten ==
    \A p \in Run : /\ IsPrefix(run[p].applied, Called(run[p]))
                   /\ run[p].pc = "done" /\ ~run[p].failed => run[p].applied = Called(run[p])
=============================================================================
