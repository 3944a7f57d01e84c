------------------------------ MODULE ParsePool ------------------------------
(***************************************************************************)
(* parse_instances of the evaluation tool: worker threads take sentences   *)
(* from a shared iterator, parse them with one shared grammar, and send    *)
(* the results to the main thread, which puts them back into corpus order. *)
(*                                                                         *)
(* What parsing an instance ends in is fixed beforehand and unknown to the *)
(* workers.  A panic unwinds its worker, which drops the worker's sender.  *)
(***************************************************************************)
EXTENDS Naturals, Sequences, FiniteSets, SequencesExt

CONSTANTS Jobs,     \* --jobs
          Count     \* instances of the corpus

ASSUME SomeWork == Jobs \in Nat \ {0} /\ Count \in Nat \ {0}

Instances == 1..Count
Workers == 1..Min({Jobs, Count})
None == 0

VARIABLES
    fate,           \* instance |-> "parsed", "error" or "panic"; never written
    tasks,          \* the next instance of the shared iterator
    pc,             \* worker |-> "idle", "parse", "send", "gone" or "panicked"
    held,           \* worker |-> its instance, or None
    sending,        \* worker |-> the result it is about to send, or NoResult
    channel,        \* results sent and not received, in order
    ordered,        \* instance |-> the result received, or NoResult
    first_error,    \* the instance of the first error received, or None
    outcome         \* "running", "results", "error" or "panic"

vars == <<fate, tasks, pc, held, sending, channel, ordered, first_error, outcome>>

main == <<ordered, first_error, outcome>>

Goto(w, label) == pc' = [pc EXCEPT ![w] = label]

Result(i, kind) == [instance |-> i, kind |-> kind]

NoResult == Result(None, "none")

-----------------------------------------------------------------------------
Init ==
    /\ fate \in [Instances -> {"parsed", "error", "panic"}]
    /\ tasks = 1
    /\ pc = [w \in Workers |-> "idle"]
    /\ held = [w \in Workers |-> None]
    /\ sending = [w \in Workers |-> NoResult]
    /\ channel = <<>>
    /\ ordered = [i \in Instances |-> NoResult]
    /\ first_error = None
    /\ outcome = "running"

(* Faulty variant: the iterator is read under one lock and advanced under   *)
(* another, so that it may be read twice in between.                        *)
NextTask_Racing(w) == IF \E v \in Workers \ {w} : pc[v] = "parse" THEN tasks ELSE tasks + 1

(* The iterator after the worker has taken an instance. *)
NextTask(w) == tasks + 1

(* tasks.lock().next(): an instance, or none is left and the worker ends. *)
TakeTask(w) ==
    /\ pc[w] = "idle"
    /\ IF tasks \in Instances
         THEN /\ held' = [held EXCEPT ![w] = tasks]
              /\ tasks' = NextTask(w)
              /\ Goto(w, "parse")
         ELSE Goto(w, "gone") /\ UNCHANGED <<held, tasks>>
    /\ UNCHANGED <<fate, sending, channel, main>>

(* The parse returns a result or panics. *)
Parse(w) ==
    /\ pc[w] = "parse"
    /\ IF fate[held[w]] = "panic"
         THEN Goto(w, "panicked") /\ UNCHANGED sending
         ELSE /\ sending' = [sending EXCEPT ![w] = Result(held[w], fate[held[w]])]
              /\ Goto(w, "send")
    /\ UNCHANGED <<fate, tasks, held, channel, main>>

(* The receiver lives until all senders are dropped, so sending succeeds.   *)
Send(w) ==
    /\ pc[w] = "send"
    /\ channel' = Append(channel, sending[w])
    /\ sending' = [sending EXCEPT ![w] = NoResult]
    /\ held' = [held EXCEPT ![w] = None]
    /\ Goto(w, "idle")
    /\ UNCHANGED <<fate, tasks, main>>

(* Faulty variant: results are stored in the order in which they arrive. *)
Slot_Arrival(result) == Cardinality({i \in Instances : ordered[i] # NoResult}) + 1

Slot(result) == result.instance

(* One iteration of the main thread's `for result in rx`. *)
Receive ==
    /\ outcome = "running"
    /\ channel # <<>>
    /\ LET result == Head(channel)
       IN  IF result.kind = "parsed"
             THEN ordered' = [ordered EXCEPT ![Slot(result)] = result] /\ UNCHANGED first_error
             ELSE /\ first_error' = IF first_error = None THEN result.instance ELSE first_error
                  /\ UNCHANGED ordered
    /\ channel' = Tail(channel)
    /\ UNCHANGED <<fate, tasks, pc, held, sending, outcome>>

(* Faulty variant: a worker that panics keeps its sender. *)
Ended_Gone(w) == pc[w] = "gone"

Ended(w) == pc[w] \in {"gone", "panicked"}

(* All senders are dropped: the receiving loop ends on an empty channel. *)
SendersDropped == \A w \in Workers : Ended(w)

(* The scope is left: it passes on a worker's panic; then the first error   *)
(* is returned, or all the results in order.                                *)
Leave ==
    /\ outcome = "running"
    /\ channel = <<>>
    /\ SendersDropped
    /\ outcome' = IF \E w \in Workers : pc[w] = "panicked" THEN "panic"
                  ELSE IF first_error # None THEN "error"
                  ELSE "results"
    /\ UNCHANGED <<fate, tasks, pc, held, sending, channel, ordered, first_error>>

Worker(w) ==
    TakeTask(w) \/ Parse(w) \/ Send(w)

Main == Receive \/ Leave

Next == Main \/ \E w \in Workers : Worker(w)

(* The operating system runs every thread; parsing one sentence ends. *)
Spec == Init /\ [][Next]_vars /\ WF_vars(Main) /\ \A w \in Workers : WF_vars(Worker(w))

-----------------------------------------------------------------------------
(* Properties. *)

Results == [instance : Instances \cup {None}, kind : {"none", "parsed", "error"}]

(* Every variable has its type, and a slot is for one instance. *)
TypeOK ==
    /\ fate \in [Instances -> {"parsed", "error", "panic"}]
    /\ tasks \in 1..(Count + 1)
    /\ pc \in [Workers -> {"idle", "parse", "send", "gone", "panicked"}]
    /\ held \in [Workers -> Instances \cup {None}]
    /\ sending \in [Workers -> Results]
    /\ channel \in Seq([instance : Instances, kind : {"parsed", "error"}])
    /\ ordered \in [Instances -> Results]
    /\ \A i \in Instances : ordered[i] \in {NoResult, Result(i, "parsed")}
    /\ first_error \in Instances \cup {None}
    /\ outcome \in {"running", "results", "error", "panic"}

(* Whatever the interleaving, every instance that was taken is in exactly   *)
(* one place: with one worker, in the channel once, or received; none is    *)
(* parsed twice and none gets lost on the way.                              *)
Places(i) ==
    Cardinality({w \in Workers : held[w] = i}) + Cardinality({k \in DOMAIN channel : channel[k].instance = i})

InOnePlace ==
    \A i \in Instances :
        /\ Places(i) <= IF i < tasks THEN 1 ELSE 0
        /\ Places(i) = 1 => ordered[i] = NoResult
        /\ i < tasks /\ Places(i) = 0 => ordered[i] # NoResult \/ first_error # None

(* The results are complete and in corpus order, an error is returned only  *)
(* for an instance that failed, and a panic is not hidden behind either.    *)
FaithfulOutcome ==
    /\ outcome = "results" =>
          \A i \in Instances : ordered[i] = Result(i, "parsed") /\ fate[i] = "parsed"
    /\ outcome = "error" => fate[first_error] = "error" /\ \A i \in Instances : fate[i] # "panic"
    /\ outcome = "panic" => \E i \in Instances : fate[i] = "panic"

(* Nobody waits for a result that never comes, also when workers panic:     *)
(* the pool ends.                                                           *)
Terminates == <>(outcome # "running")

-----------------------------------------------------------------------------
(* The inductive invariant behind InOnePlace and FaithfulOutcome.           *)

(* What a worker has where it stands. *)
AtWork(w) ==
    /\ held[w] = None <=> pc[w] \in {"idle", "gone"}
    /\ pc[w] = "send" => sending[w] = Result(held[w], fate[held[w]])
    /\ pc[w] = "panicked" => fate[held[w]] = "panic"
    /\ pc[w] = "gone" => tasks = Count + 1

(* An instance is held by one worker, or in the channel once, and has been  *)
(* taken and not been received; what has been received has been taken.      *)
Apart ==
    /\ \A v, w \in Workers : held[v] # None /\ held[v] = held[w] => v = w
    /\ \A j, k \in DOMAIN channel : channel[j].instance = channel[k].instance => j = k
    /\ \A w \in Workers : \A k \in DOMAIN channel : held[w] # channel[k].instance
    /\ \A w \in Workers : held[w] # None => held[w] < tasks /\ ordered[held[w]] = NoResult
    /\ \A k \in DOMAIN channel :
          channel[k].instance < tasks /\ ordered[channel[k].instance] = NoResult
    /\ \A i \in Instances : ordered[i] # NoResult => i < tasks

Received(i) == ordered[i] # NoResult \/ (first_error # None /\ fate[i] = "error")

(* No instance that was taken is lost. *)
Accounted ==
    \A i \in Instances : i < tasks =>
        \/ \E w \in Workers : held[w] = i
        \/ \E k \in DOMAIN channel : channel[k].instance = i
        \/ Received(i)

(* What has been sent and received is what the parses ended in. *)
Reported ==
    /\ \A k \in DOMAIN channel : channel[k].kind = fate[channel[k].instance]
    /\ \A i \in Instances : ordered[i] # NoResult => fate[i] = "parsed"
    /\ first_error # None => fate[first_error] = "error"

IInv ==
    /\ TypeOK
    /\ \A w \in Workers : AtWork(w)
    /\ Apart
    /\ Accounted
    /\ Reported
    /\ FaithfulOutcome
=============================================================================
