----------------------------- MODULE SessionLog -----------------------------
(***************************************************************************)
(* The diagnostic log (backprobe/session_log.py): every line of every      *)
(* thread goes through _write, which opens the log, replaces each VIN by a *)
(* keyed token, records token and VIN in the keyring, and appends.         *)
(*                                                                         *)
(* Processes share three files: the key, the keyring and the logs.  In one *)
(* process the daemon's main thread writes, and a stop request may write   *)
(* from a console handler's thread, or from a signal handler, which runs   *)
(* on the main thread wherever that happens to be.  An action is the code  *)
(* between two points at which another process, thread or handler, or a    *)
(* crash, can come in.                                                     *)
(***************************************************************************)
EXTENDS Naturals, FiniteSets

CONSTANTS
  Procs,      \* processes: the daemon, a second one, the command-line tool
  Vins,       \* vehicles
  Stoppable,  \* processes that are asked to stop
  MaxStarts   \* bound: starts of processes

ASSUME SessionLogAssumption ==
  /\ Stoppable \subseteq Procs
  /\ MaxStarts \in Nat

VARIABLES
  env,     \* $BACKPROBE_VIN_KEY is set
  file,    \* the key file: absent, truncated, or the key in it
  ring,    \* the keyring: tokens with their VINs
  logged,  \* tokens in the lines of all logs
  starts,  \* number of process starts
  alive,   \* the processes that run
  born,    \* the number of a process's start
  key,     \* _key_cache of a process
  known,   \* _known_tokens of a process; not loaded is the empty set
  lock,    \* _lock of a process: the thread that holds it, or Nobody
  stop,    \* Watcher._stop of a process
  pc,      \* where a thread of a process is in _write
  vin,     \* the VIN in the line its main thread writes, or NoVin
  clash,   \* history: was the key file used while being written, or written
           \* in part?
  unkept   \* history: tokens the keyring could not be appended

files   == <<env, file, ring, logged>>
process == <<starts, alive, born>>
history == <<clash, unkept>>
vars == <<files, process, key, known, lock, stop, pc, vin, history>>

Threads == {"main", "console", "handler"}
Nobody  == "nobody"
NoVin   == "no VIN"
NoKey   == <<"no key", 0>>
\* What a file that was truncated and not written yet holds: fromhex("") is a
\* key like any other.
Truncated == <<"truncated", 0>>
EnvKey    == <<"environment", 0>>
\* A random key.  A process makes one at most, so its start names it.
NewKey(n) == <<"new", n>>
NewKeys == {NewKey(n) : n \in 1 .. MaxStarts}
Keys    == NewKeys \cup {NoKey, Truncated, EnvKey}

Points == {"idle", "init", "in init", "key", "generated", "truncated",
           "remember", "append", "in append"}

\* A VIN's token, the HMAC under a key: another VIN or key, another token.
vin_token(k, v) == [key |-> k, vin |-> v]

-----------------------------------------------------------------------------
(* Who runs.                                                               *)

\* The main thread stands still while its signal handler runs.
Runs(p, t) == p \in alive /\ (t = "main" => pc[p]["handler"] = "idle")

At(p, t, point) == Runs(p, t) /\ pc[p][t] = point

Goto(p, t, point) == pc' = [pc EXCEPT ![p][t] = point]

\* _write is over; a line of the main thread is done with.
Leave(p, t) ==
  /\ Goto(p, t, "idle")
  /\ vin' = IF t = "main" THEN [vin EXCEPT ![p] = NoVin] ELSE vin

Start(p) ==
  /\ p \notin alive /\ starts < MaxStarts
  /\ alive' = alive \cup {p}
  /\ starts' = starts + 1
  /\ born' = [born EXCEPT ![p] = starts']
  /\ UNCHANGED <<files, key, known, lock, stop, pc, vin, history>>

\* A crash, a kill, the end: what is in memory is gone.  One that comes between
\* the truncation of the key file and its contents leaves it empty.
Dies(p) ==
  /\ p \in alive
  /\ alive' = alive \ {p}
  /\ key' = [key EXCEPT ![p] = NoKey]
  /\ known' = [known EXCEPT ![p] = {}]
  /\ lock' = [lock EXCEPT ![p] = Nobody]
  /\ stop' = [stop EXCEPT ![p] = FALSE]
  /\ pc' = [pc EXCEPT ![p] = [t \in Threads |-> "idle"]]
  /\ vin' = [vin EXCEPT ![p] = NoVin]
  /\ clash' = (clash \/ pc[p]["main"] = "truncated")
  /\ UNCHANGED <<files, starts, born, unkept>>

\* The main thread has a line to write, with a VIN in it or none.
Line(p, v) ==
  /\ At(p, "main", "idle")
  /\ vin' = [vin EXCEPT ![p] = v]
  /\ Goto(p, "main", "init")
  /\ UNCHANGED <<files, process, key, known, lock, stop, history>>

\* request_stop(), from a console thread or a signal: the first notes the request
\* and goes on to log it.  (Two at once that both find it the first would both
\* log it.)
request_stop(p, t) ==
  /\ p \in Stoppable /\ t # "main"
  /\ At(p, t, "idle")
  /\ ~stop[p]
  /\ stop' = [stop EXCEPT ![p] = TRUE]
  /\ Goto(p, t, "init")
  /\ UNCHANGED <<files, process, key, known, lock, vin, history>>

-----------------------------------------------------------------------------
(* _write.  The lock is taken twice; it cannot be taken again by the       *)
(* thread that holds it.                                                   *)

Acquire(p, t) == lock[p] = Nobody /\ lock' = [lock EXCEPT ![p] = t]

Release(p) == lock' = [lock EXCEPT ![p] = Nobody]

\* init(): the lock, and the directory and header the first time.
init(p, t) ==
  /\ At(p, t, "init")
  /\ Acquire(p, t)
  /\ Goto(p, t, "in init")
  /\ UNCHANGED <<files, process, key, known, stop, vin, history>>

\* Only a main thread's line may hold a VIN; then a token is needed.
init_returns(p, t) ==
  /\ At(p, t, "in init")
  /\ Release(p)
  /\ Goto(p, t, IF t = "main" /\ vin[p] # NoVin THEN "key" ELSE "append")
  /\ UNCHANGED <<files, process, key, known, stop, vin, history>>

\* Mutant of WriteFails: the lock stays taken.
WriteFailsLocked(p, t) ==
  /\ At(p, t, "in init") \/ At(p, t, "in append")
  /\ Leave(p, t)
  /\ UNCHANGED <<files, process, key, known, lock, stop, history>>

\* An exception ends _write, which swallows it; the line is lost.  The directory
\* cannot be made, or the log not opened or written.
WriteFails(p, t) ==
  /\ At(p, t, "in init") \/ At(p, t, "in append")
  /\ Release(p)
  /\ Leave(p, t)
  /\ UNCHANGED <<files, process, key, known, stop, history>>

\* The append.
append(p, t) ==
  /\ At(p, t, "append")
  /\ Acquire(p, t)
  /\ Goto(p, t, "in append")
  /\ UNCHANGED <<files, process, key, known, stop, vin, history>>

Token(p) == vin_token(key[p], vin[p])

append_returns(p, t) ==
  /\ At(p, t, "in append")
  /\ logged' = IF t = "main" /\ vin[p] # NoVin THEN logged \cup {Token(p)} ELSE logged
  /\ Release(p)
  /\ Leave(p, t)
  /\ UNCHANGED <<env, file, ring, process, key, known, stop, history>>

-----------------------------------------------------------------------------
(* The key.                                                                *)

Writing == {"generated", "truncated"}

\* A process has made a key and not written it yet.
BeingWritten == \E q \in Procs : pc[q]["main"] \in Writing

\* Mutant of vin_key: each process makes a key of its own.
vin_key_random(p) ==
  /\ At(p, "main", "key")
  /\ key' = [key EXCEPT ![p] = IF @ # NoKey THEN @ ELSE NewKey(born[p])]
  /\ Goto(p, "main", IF key[p] # NoKey THEN "remember" ELSE "generated")
  /\ clash' = (clash \/ (key[p] = NoKey /\ ~env /\ BeingWritten))
  /\ UNCHANGED <<files, process, known, lock, stop, vin, unkept>>

\* _vin_key(): the cached key, else the environment's, else the file's, else a
\* random one, which is cached before it is written.
vin_key(p) ==
  /\ At(p, "main", "key")
  /\ key' = [key EXCEPT ![p] = IF @ # NoKey THEN @
                               ELSE IF env THEN EnvKey
                               ELSE IF file # NoKey THEN file
                               ELSE NewKey(born[p])]
  /\ Goto(p, "main",
          IF key[p] # NoKey \/ env \/ file # NoKey THEN "remember" ELSE "generated")
  /\ clash' = (clash \/ (key[p] = NoKey /\ ~env /\ BeingWritten))
  /\ UNCHANGED <<files, process, known, lock, stop, vin, unkept>>

\* Mutant of KeyUnreadable: the line is written under no key.
KeyUnreadableIgnored(p) ==
  /\ At(p, "main", "key") /\ key[p] = NoKey /\ ~env
  /\ Goto(p, "main", "remember")
  /\ UNCHANGED <<files, process, key, known, lock, stop, vin, history>>

\* The file cannot be read: the line is lost.
KeyUnreadable(p) ==
  /\ At(p, "main", "key") /\ key[p] = NoKey /\ ~env
  /\ Leave(p, "main")
  /\ UNCHANGED <<files, process, key, known, lock, stop, history>>

\* write_text opens the file, which empties it,
KeyTruncates(p) ==
  /\ At(p, "main", "generated")
  /\ file' = Truncated
  /\ Goto(p, "main", "truncated")
  /\ UNCHANGED <<env, ring, logged, process, key, known, lock, stop, vin, history>>

\* and writes it.
KeyStored(p) ==
  /\ At(p, "main", "truncated")
  /\ file' = key[p]
  /\ Goto(p, "main", "remember")
  /\ UNCHANGED <<env, ring, logged, process, key, known, lock, stop, vin, history>>

\* It cannot be opened or written: the line is lost, and the key stays cached.
KeyFails(p) ==
  /\ \E point \in Writing : At(p, "main", point)
  /\ Leave(p, "main")
  /\ clash' = TRUE
  /\ UNCHANGED <<files, process, key, known, lock, stop, unkept>>

-----------------------------------------------------------------------------
(* The keyring.                                                            *)

\* What the process has read of the keyring or added to it.  It reads it once;
\* what it would find in a second look it may at most append again.
Loaded(p) == IF known[p] = {} THEN ring ELSE known[p]

\* Mutant of Known: the VIN is looked up, not the token.
KnownVin(p) == \E t \in Loaded(p) : t.vin = vin[p]

Known(p) == Token(p) \in Loaded(p)

\* _remember(): a token that is not known is appended.
remember(p) ==
  /\ At(p, "main", "remember")
  /\ ring' = IF Known(p) THEN ring ELSE ring \cup {Token(p)}
  /\ known' = [known EXCEPT ![p] = IF Known(p) THEN Loaded(p)
                                   ELSE Loaded(p) \cup {Token(p)}]
  /\ Goto(p, "main", "append")
  /\ UNCHANGED <<env, file, logged, process, key, lock, stop, vin, history>>

\* The keyring cannot be read or appended: _write goes on, and the next line with
\* the VIN tries again.
RememberFails(p) ==
  /\ At(p, "main", "remember")
  /\ unkept' = unkept \cup {Token(p)}
  /\ Goto(p, "main", "append")
  /\ UNCHANGED <<files, process, key, known, lock, stop, vin, clash>>

\* decode_token(): the keyring has the VIN of a token.
decode_token(t) == t \in ring

-----------------------------------------------------------------------------
Init ==
  /\ env \in BOOLEAN
  /\ file = NoKey /\ ring = {} /\ logged = {}
  /\ starts = 0 /\ alive = {} /\ born = [p \in Procs |-> 0]
  /\ key = [p \in Procs |-> NoKey]
  /\ known = [p \in Procs |-> {}]
  /\ lock = [p \in Procs |-> Nobody]
  /\ stop = [p \in Procs |-> FALSE]
  /\ pc = [p \in Procs |-> [t \in Threads |-> "idle"]]
  /\ vin = [p \in Procs |-> NoVin]
  /\ clash = FALSE /\ unkept = {}

\* The steps inside _write.
Step(p, t) == \/ init(p, t) \/ init_returns(p, t)
              \/ append(p, t) \/ append_returns(p, t)
              \/ WriteFails(p, t)

KeyStep(p) == \/ vin_key(p) \/ KeyUnreadable(p)
              \/ KeyTruncates(p) \/ KeyStored(p) \/ KeyFails(p)
              \/ remember(p) \/ RememberFails(p)

Next ==
  \E p \in Procs :
    \/ Start(p) \/ Dies(p)
    \/ \E v \in Vins \cup {NoVin} : Line(p, v)
    \/ KeyStep(p)
    \/ \E t \in Threads : request_stop(p, t) \/ Step(p, t)

Spec == Init /\ [][Next]_vars

\* A thread in _write goes on: no I/O of it blocks for ever, and a lock that is
\* free again and again is had at some time.  Lines and requests may end.
Fairness ==
  \A p \in Stoppable :
    /\ WF_vars(KeyStep(p) \/ Step(p, "main"))
    /\ SF_vars(\E t \in Threads \ {"main"} : Step(p, t))

LiveSpec == Spec /\ Fairness

-----------------------------------------------------------------------------
(* Properties.                                                             *)

Tokens == {vin_token(k, v) : k \in Keys \ {NoKey}, v \in Vins}

\* Type correctness.
TypeOK ==
  /\ env \in BOOLEAN
  /\ file \in NewKeys \cup {NoKey, Truncated}
  /\ ring \subseteq Tokens /\ logged \subseteq Tokens /\ unkept \subseteq Tokens
  /\ starts \in 0 .. MaxStarts /\ alive \subseteq Procs
  /\ born \in [Procs -> 0 .. starts]
  /\ key \in [Procs -> Keys]
  /\ known \in [Procs -> SUBSET Tokens]
  /\ lock \in [Procs -> Threads \cup {Nobody}]
  /\ stop \in [Procs -> BOOLEAN]
  /\ pc \in [Procs -> [Threads -> Points]]
  /\ vin \in [Procs -> Vins \cup {NoVin}]
  /\ clash \in BOOLEAN

\* "Same VIN -> same token": all lines of all processes name a vehicle alike,
\* across crashes and failed writes, if no process needed the key while another
\* was writing it, or left it unwritten; and always, if the environment has it.
SameToken ==
  env \/ ~clash => \A t, u \in logged : t.vin = u.vin => t = u

\* Every token in a log can be decoded, also after a crash, unless the keyring
\* could not be written when a line needed it.
Decodable == \A t \in logged : decode_token(t) \/ t \in unkept

\* A stop request is writing its line.
Stopping(p) == \E t \in Threads \ {"main"} : pc[p][t] # "idle"

\* The handler of a signal waits for a lock that its own thread holds.
Stuck(p) == lock[p] = "main" /\ pc[p]["handler"] = "init"

\* A stop request returns, with or without its line in the log, unless a signal
\* came while the main thread was inside the lock.
StopReturns ==
  \A p \in Stoppable : Stopping(p) ~> ~Stopping(p) \/ Stuck(p)
=============================================================================
