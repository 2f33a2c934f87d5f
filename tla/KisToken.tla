------------------------------ MODULE KisToken ------------------------------
(***************************************************************************)
(* adapters/kis_token.py: the access token of one KIS key, shared by the   *)
(* callers of a process through TokenStore (an asyncio.Lock) and by the    *)
(* processes of the host through a cache file under flock.  KIS asks for   *)
(* one issue per life of a token.                                          *)
(*                                                                         *)
(* A token is what is left of its life: 2 more than MIN_REMAIN_S, 1 enough *)
(* to be used by who has it (more than 60 s), 0 expired; -1 is no token.   *)
(***************************************************************************)
EXTENDS Integers

CONSTANTS
    Callers,        \* coroutines that ask for a token
    Procs,          \* processes
    ProcOf(_),      \* caller -> process
    NoCaller

ASSUME CallersAssumption ==
    NoCaller \notin Callers /\ \A c \in Callers : ProcOf(c) \in Procs

VARIABLES
    file,           \* the cache file
    mem,            \* process -> TokenStore._token, _exp
    lock,           \* process -> holder of TokenStore._lock
    flock,          \* holder of the file lock
    call,           \* caller -> off, wait (for _lock), flock, issue, have
    issues,         \* tokens issued by KIS (history)
    spent,          \* tokens in the file that came near their end (history)
    unsaved         \* issues that could not be written to the file (history)

tokenVars == <<file, mem, lock, flock, call, issues, spent, unsaved>>

TokenInit ==
    /\ file = -1 /\ mem = [p \in Procs |-> -1]
    /\ lock = [p \in Procs |-> NoCaller] /\ flock = NoCaller
    /\ call = [c \in Callers |-> "off"]
    /\ issues = 0 /\ spent = 0 /\ unsaved = 0

Mem(c) == mem[ProcOf(c)]
ReadCache == file = 2

\* token(): the one in memory is good for another minute, or wait for the lock
Token(c) ==
    /\ call[c] = "off"
    /\ call' = [call EXCEPT ![c] = IF Mem(c) >= 1 THEN "have" ELSE "wait"]
    /\ UNCHANGED <<file, mem, lock, flock, issues, spent, unsaved>>

\* under the lock: look again, then into the file, then go for the file lock
Acquire(c) ==
    /\ call[c] = "wait" /\ lock[ProcOf(c)] = NoCaller
    /\ IF Mem(c) >= 1 \/ ReadCache
       THEN /\ call' = [call EXCEPT ![c] = "have"] /\ UNCHANGED lock
            /\ mem' = IF Mem(c) >= 1 THEN mem ELSE [mem EXCEPT ![ProcOf(c)] = file]
       ELSE /\ call' = [call EXCEPT ![c] = "flock"]
            /\ lock' = [lock EXCEPT ![ProcOf(c)] = c] /\ UNCHANGED mem
    /\ UNCHANGED <<file, flock, issues, spent, unsaved>>

\* _issue_locked returns or raises: both locks are released
Release(c, how, tok) ==
    /\ call' = [call EXCEPT ![c] = how]
    /\ lock' = [lock EXCEPT ![ProcOf(c)] = NoCaller]
    /\ flock' = NoCaller
    /\ mem' = [mem EXCEPT ![ProcOf(c)] = tok]

\* mutant: the cache is not read again under the file lock
IssueLockedBlind(c) ==
    /\ call[c] = "flock" /\ flock = NoCaller
    /\ call' = [call EXCEPT ![c] = "issue"] /\ flock' = c /\ UNCHANGED <<mem, lock>>
    /\ UNCHANGED <<file, issues, spent, unsaved>>

\* _issue_locked: with the file lock, read the cache again, else ask KIS
IssueLocked(c) ==
    /\ call[c] = "flock" /\ flock = NoCaller
    /\ IF ReadCache THEN Release(c, "have", file)
       ELSE call' = [call EXCEPT ![c] = "issue"] /\ flock' = c /\ UNCHANGED <<mem, lock>>
    /\ UNCHANGED <<file, issues, spent, unsaved>>

\* KIS answers and _write_cache replaces the file
Issued(c) ==
    /\ call[c] = "issue" /\ Release(c, "have", 2)
    /\ file' = 2 /\ issues' = issues + 1
    /\ UNCHANGED <<spent, unsaved>>

\* KIS does not answer; or it does and the file cannot be written
IssueFails(c) ==
    /\ call[c] = "issue" /\ Release(c, "off", Mem(c))
    /\ \/ UNCHANGED <<issues, unsaved>>
       \/ issues' = issues + 1 /\ unsaved' = unsaved + 1
    /\ UNCHANGED <<file, spent>>

\* the caller is done with its token
Done(c) == /\ call[c] = "have" /\ call' = [call EXCEPT ![c] = "off"]
           /\ UNCHANGED <<file, mem, lock, flock, issues, spent, unsaved>>

\* the process ends: its memory and locks are gone.  If KIS was being asked, it
\* may have issued a token nobody has
ProcessDies(p) ==
    /\ mem' = [mem EXCEPT ![p] = -1]
    /\ lock' = [lock EXCEPT ![p] = NoCaller]
    /\ flock' = IF flock # NoCaller /\ ProcOf(flock) = p THEN NoCaller ELSE flock
    /\ call' = [c \in Callers |-> IF ProcOf(c) = p THEN "off" ELSE call[c]]
    /\ \/ UNCHANGED <<issues, unsaved>>
       \/ /\ \E c \in Callers : call[c] = "issue" /\ ProcOf(c) = p
          /\ issues' = issues + 1 /\ unsaved' = unsaved + 1
    /\ UNCHANGED <<file, spent>>

Aged(t) == IF t > 0 THEN t - 1 ELSE t
TokenAges ==
    /\ file' = Aged(file) /\ mem' = [p \in Procs |-> Aged(mem[p])]
    /\ spent' = IF file = 2 THEN spent + 1 ELSE spent
    /\ UNCHANGED <<lock, flock, call, issues, unsaved>>

(* KIS is asked for a token once per life of the one in the cache file,    *)
(* whatever callers and processes find it used up at the same time; only   *)
(* an issue that could not be written is followed by another.              *)
OneIssuePerLife == issues <= 1 + spent + unsaved
=============================================================================
