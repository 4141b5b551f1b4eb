---------------------------- MODULE CommandStream ----------------------------
(* The durable command stream of one session and the consumers that read it,  *)
(* one for each residency the session is granted: the pass over the inbox,    *)
(* the durable cursor, and the fence every write goes through.  What is done  *)
(* with one command is a processor's: a pass hands it over in "call" and      *)
(* waits for the answer.  When a pass may begin is the module Consumption's.  *)
EXTENDS Naturals, Sequences

CONSTANTS
  LastGrant,     \* residencies of the session, in the order of their epochs
  LastOrder,     \* commands accepted for the session, in acceptance order
  Batch,         \* records a pass lists at most
  Leaving,       \* residencies that may crash or be released
  Backlog,       \* commands accepted before the session's first Host
  MaxMishaps     \* bound on failed calls, bad pages, lapsed claims and deadlines

ASSUME StreamAssumption ==
  /\ LastGrant \in Nat \ {0} /\ LastOrder \in Nat /\ Batch \in Nat \ {0}
  /\ MaxMishaps \in Nat /\ Backlog \in 0..LastOrder /\ Leaving \subseteq 1..LastGrant

Grants == 1..LastGrant
Orders == 1..LastOrder

VARIABLES
  accepted,    \* how many commands the inbox holds
  rec,         \* the durable record of each command
  saved,       \* the durable cursor and the epoch it was saved under
  host,        \* each residency: its life and its fence
  work,        \* each consumer: the pass in flight and the cursor in memory
  call,        \* each processor: the command it was handed and its progress
  opened,      \* the journal's latest opening fence
  gateMark,    \* the residency epoch that last wrote the gate projection
  mishaps

streamVars == <<accepted, rec, saved, host, work, call, opened, gateMark, mishaps>>

States == {"pending", "claimed", "applying", "applied", "rejected"}

Final == {"applied", "rejected"}

Terminal(c) == rec[c].state \in Final

Fresh == [state |-> "pending", rev |-> 1, epoch |-> 0, live |-> FALSE,
          attempt |-> 0, due |-> FALSE]

NoCall == [order |-> 0, pc |-> "none", rev |-> 0, mode |-> "first", prefix |-> FALSE, seen |-> Fresh]

NewHost == [life |-> "none", lost |-> FALSE, ended |-> FALSE]

NewConsumer == [pass |-> "idle", page |-> <<>>, consumed |-> 0, cursor |-> 0, loaded |-> FALSE]

StreamInit ==
  /\ accepted = Backlog /\ opened = 0 /\ gateMark = 0 /\ mishaps = 0
  /\ rec = [c \in Orders |-> Fresh]
  /\ saved = [order |-> 0, epoch |-> 0]
  /\ host = [h \in Grants |-> NewHost]
  /\ work = [h \in Grants |-> NewConsumer]
  /\ call = [h \in Grants |-> NoCall]

Mishap == mishaps < MaxMishaps /\ mishaps' = mishaps + 1

Up(h) == host[h].life = "up"

\* The fence of a residency: its grant is not lost and no write of it was
\* refused as superseded.
Held(h) == ~host[h].lost /\ ~host[h].ended

-----------------------------------------------------------------------------
(* The session's residencies and its inbox.                                   *)

\* Factory accepts a command.
Accept ==
  /\ accepted < LastOrder
  /\ accepted' = accepted + 1
  /\ UNCHANGED <<rec, saved, host, work, call, opened, gateMark, mishaps>>

\* The session is granted to the next Host, once the grant before it may have
\* expired.  The Host has launched its runtime, whose journal fences every
\* earlier one out, and starts the session's work: the applier and the consumer.
beginWork(h) ==
  /\ host[h].life = "none"
  /\ h > 1 => host[h - 1].life # "none"
  /\ host' = [host EXCEPT ![h].life = "up"]
  /\ opened' = h
  /\ UNCHANGED <<accepted, rec, saved, work, call, gateMark, mishaps>>

\* The Host learns, late or early, that its grant is gone.  The last Host of
\* the instance keeps its own.
LoseLease(h) ==
  /\ Up(h) /\ ~host[h].lost /\ h < LastGrant
  /\ host' = [host EXCEPT ![h].lost = TRUE]
  /\ UNCHANGED <<accepted, rec, saved, work, call, opened, gateMark, mishaps>>

\* The Host crashes, or has released the session and its runtime.
Leave(h) ==
  /\ Up(h) /\ h \in Leaving
  /\ host' = [host EXCEPT ![h].life = "gone"]
  /\ UNCHANGED <<accepted, rec, saved, work, call, opened, gateMark, mishaps>>

\* A claim outlives its time to live: early in its holder's work, or in the
\* end, when nobody may renew it.
Lapse(c) ==
  /\ ~Terminal(c) /\ rec[c].live
  /\ Mishap \/ ((rec[c].due \/ rec[c].state = "applying") /\ UNCHANGED mishaps)
  /\ rec' = [rec EXCEPT ![c].live = FALSE]
  /\ UNCHANGED <<accepted, saved, host, work, call, opened, gateMark>>

\* A command's apply deadline passes, and Factory's reconciler then rejects
\* it unless an attempt on it was authorized.
Expire(c) ==
  /\ c <= accepted /\ ~rec[c].due /\ ~Terminal(c)
  /\ Mishap
  /\ rec' = [rec EXCEPT ![c].due = TRUE]
  /\ UNCHANGED <<accepted, saved, host, work, call, opened, gateMark>>

Sweep(c) ==
  /\ rec[c].due
  /\ rec[c].state = "pending" \/ (rec[c].state = "claimed" /\ ~rec[c].live)
  /\ rec' = [rec EXCEPT ![c].state = "rejected", ![c].rev = @ + 1]
  /\ UNCHANGED <<accepted, saved, host, work, call, opened, gateMark, mishaps>>

\* The gate publisher of a residency has written the gates it listed.
MarkGates(h) ==
  /\ Up(h) /\ Held(h) /\ gateMark < h
  /\ gateMark' = h
  /\ UNCHANGED <<accepted, rec, saved, host, work, call, opened, mishaps>>

-----------------------------------------------------------------------------
(* One pass of a consumer.                                                    *)

PassStep(h, new) ==
  /\ work' = [work EXCEPT ![h] = new]
  /\ UNCHANGED <<accepted, rec, opened, gateMark>>

EndPass(h) == [work[h] EXCEPT !.pass = "idle", !.page = <<>>, !.consumed = 0]

\* Past the last record of its page, a pass saves the cursor at the end of the
\* settled prefix, when that moved.
OnPage(h, consumed, page) ==
  CASE page # <<>> -> [work[h] EXCEPT !.pass = "records", !.consumed = consumed, !.page = page]
    [] page = <<>> /\ consumed > work[h].cursor ->
         [work[h] EXCEPT !.pass = "save", !.consumed = consumed, !.page = page]
    [] OTHER -> EndPass(h)

\* Run begins a pass on a hint or on its timer, so at any time while the
\* fence holds.
Run(h) ==
  /\ Up(h) /\ work[h].pass = "idle" /\ Held(h)
  /\ PassStep(h, [work[h] EXCEPT !.pass = "list"])
  /\ UNCHANGED <<saved, host, call, mishaps>>

\* The records after an order, and the pages a store that breaks its contract
\* may answer with: out of order, from the head again, or past the limit.
Listed(from, n) == [i \in 1..n |-> [order |-> from + i, final |-> Terminal(from + i)]]

Backwards(page) == [i \in 1..Len(page) |-> page[Len(page) + 1 - i]]

Fewest(m, n) == IF m < n THEN m ELSE n

ListOrdered(from) == Listed(from, Fewest(Batch, accepted - from))

BadPages(from) ==
  {Backwards(ListOrdered(from)), ListOrdered(0), Listed(from, accepted - from)}

validatePage(page, cursor) ==
  /\ Len(page) <= Batch
  /\ \A i \in 1..Len(page) :
       page[i].order > (IF i = 1 THEN cursor ELSE page[i - 1].order)

\* The cursor a pass starts from: the durable one, refused when it went back
\* behind the one this consumer has seen.
loadCursor(h) == work[h].loaded => saved.order >= work[h].cursor

Takes(h, page) ==
  [ (IF validatePage(page, saved.order) /\ page # <<>>
      THEN [work[h] EXCEPT !.pass = "records", !.page = page, !.consumed = saved.order]
      ELSE EndPass(h))
    EXCEPT !.cursor = saved.order, !.loaded = TRUE]

List(h) ==
  /\ Up(h) /\ work[h].pass = "list"
  /\ \/ loadCursor(h) /\ PassStep(h, Takes(h, ListOrdered(saved.order))) /\ UNCHANGED mishaps
     \/ loadCursor(h) /\ Mishap /\ \E page \in BadPages(saved.order) : PassStep(h, Takes(h, page))
     \/ ~loadCursor(h) /\ PassStep(h, EndPass(h)) /\ UNCHANGED mishaps
     \/ Mishap /\ PassStep(h, EndPass(h))
  /\ UNCHANGED <<saved, host, call>>

\* A record the page shows settled is consumed; any other is handed to the
\* processor while the fence holds, and ends the pass with nothing saved when
\* it does not.
Examine(h) ==
  /\ Up(h) /\ work[h].pass = "records" /\ work[h].page # <<>>
  /\ LET record == Head(work[h].page) IN
     \/ /\ record.final
        /\ PassStep(h, OnPage(h, record.order, Tail(work[h].page)))
        /\ UNCHANGED call
     \/ /\ ~record.final /\ Held(h)
        /\ PassStep(h, [work[h] EXCEPT !.pass = "process"])
        /\ call' = [call EXCEPT ![h] = [NoCall EXCEPT !.order = record.order, !.pc = "load"]]
     \/ ~record.final /\ ~Held(h) /\ PassStep(h, EndPass(h)) /\ UNCHANGED call
  /\ UNCHANGED <<saved, host, mishaps>>

\* The store keeps a cursor that names no older epoch and goes no way back.
StoreKeeps(h) == h >= saved.epoch /\ work[h].consumed >= saved.order

\* The fenced save: the cursor in memory moves only when it is acknowledged.
SaveCursor(h) ==
  /\ Up(h) /\ work[h].pass = "save"
  /\ \/ /\ Held(h) /\ StoreKeeps(h)
        /\ saved' = [order |-> work[h].consumed, epoch |-> h]
        /\ \/ PassStep(h, [EndPass(h) EXCEPT !.cursor = work[h].consumed]) /\ UNCHANGED mishaps
           \/ Mishap /\ PassStep(h, EndPass(h))
        /\ UNCHANGED host
     \/ /\ Held(h) /\ ~StoreKeeps(h)
        /\ host' = [host EXCEPT ![h].ended = @ \/ h < saved.epoch]
        /\ PassStep(h, EndPass(h))
        /\ UNCHANGED <<saved, mishaps>>
     \/ Held(h) /\ Mishap /\ PassStep(h, EndPass(h)) /\ UNCHANGED <<saved, host>>
     \/ ~Held(h) /\ PassStep(h, EndPass(h)) /\ UNCHANGED <<saved, host, mishaps>>
  /\ UNCHANGED call

-----------------------------------------------------------------------------
(* What the processors are built from.                                        *)

At(h, pc) == Up(h) /\ work[h].pass = "process" /\ call[h].pc = pc

Calls(h, new) == call' = [call EXCEPT ![h] = new] /\ UNCHANGED work

To(h, pc) == Calls(h, [call[h] EXCEPT !.pc = pc])

\* The processor's answers: a command that is settled, or whose effect is
\* durable and owned, is consumed; any other blocks the pass there.
Consumed(h) ==
  /\ work' = [work EXCEPT ![h] = OnPage(h, call[h].order, Tail(work[h].page))]
  /\ call' = [call EXCEPT ![h] = NoCall]

Blocked(h) ==
  /\ work' = [work EXCEPT ![h] = OnPage(h, work[h].consumed, <<>>)]
  /\ call' = [call EXCEPT ![h] = NoCall]

\* A fenced write of the record the call is about: refused when the fence is
\* closed, refused by the store, which closes the fence when a later epoch
\* has written, failed, or committed, with its acknowledgement lost or not.
FencedWrite(h, admitted, superseded, new, acked, failed) ==
  /\ \/ /\ Held(h) /\ admitted
        /\ rec' = [rec EXCEPT ![call[h].order] = new]
        /\ UNCHANGED host
        /\ (acked /\ UNCHANGED mishaps) \/ (Mishap /\ failed)
     \/ /\ Held(h) /\ ~admitted
        /\ host' = [host EXCEPT ![h].ended = @ \/ superseded]
        /\ UNCHANGED <<rec, mishaps>> /\ failed
     \/ Held(h) /\ Mishap /\ UNCHANGED <<rec, host>> /\ failed
     \/ ~Held(h) /\ UNCHANGED <<rec, host, mishaps>> /\ failed
  /\ UNCHANGED <<accepted, saved, opened, gateMark>>

\* A step of a processor that writes no record.
LocalStep == UNCHANGED <<accepted, rec, saved, host, opened, gateMark>>

StreamNext ==
  \/ Accept
  \/ \E c \in Orders : Lapse(c) \/ Expire(c) \/ Sweep(c)
  \/ \E h \in Grants :
       \/ beginWork(h) \/ LoseLease(h) \/ Leave(h) \/ MarkGates(h)
       \/ Run(h) \/ List(h) \/ Examine(h) \/ SaveCursor(h)
=============================================================================
