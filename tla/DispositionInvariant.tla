------------------------ MODULE DispositionInvariant ------------------------
(* The inductive invariant of Disposition.tla, what a processor and a write    *)
(* of a record may do to it, and the steps of the stream, which keep it.       *)
EXTENDS Disposition, TLAPS

Record == [state : States, rev : Nat, epoch : Nat, live : BOOLEAN, attempt : Nat, due : BOOLEAN]
Entry == [order : Nat, final : BOOLEAN]
Pages == Seq(Entry)
Host == [life : {"none", "up", "gone"}, lost : BOOLEAN, ended : BOOLEAN]
Passes == {"idle", "list", "records", "process", "save"}
Consumer ==
  [pass : Passes, page : Pages, consumed : Nat,
   cursor : Nat, loaded : BOOLEAN]
Steps ==
  {"none", "load", "claim", "check", "reject", "begin", "dispatch", "dispose", "settle", "failed",
   "close"}
Call ==
  [order : Nat, pc : Steps, rev : Nat, mode : {"first", "failed", "recover", "last"},
   prefix : BOOLEAN, seen : Record]

TypeOK ==
  /\ accepted \in 0..LastOrder /\ rec \in [Orders -> Record] /\ saved \in [order : Nat, epoch : Nat]
  /\ host \in [Grants -> Host] /\ work \in [Grants -> Consumer] /\ call \in [Grants -> Call]
  /\ opened \in 0..LastGrant /\ effects \in [Orders -> {0, 1}]
  /\ evidence \in [Orders -> {"none", "applied", "refused", "not_applied"}]
  /\ late \subseteq Orders

\* The residencies that began are the ones up to the writer of the journal.
HostInv == \A h \in Grants : host[h].life = "none" <=> h > opened

\* Everything up to a cursor is settled.
CursorInv ==
  /\ saved.order <= accepted /\ \A c \in 1..saved.order : Terminal(c)
  /\ \A h \in Grants :
       /\ work[h].cursor <= saved.order /\ work[h].consumed <= accepted
       /\ \A c \in 1..work[h].consumed : Terminal(c)

\* The page of a pass goes on where the settled prefix ends, and what it showed
\* settled still is.
PageFollows(page, consumed) ==
  /\ page # <<>>
  /\ \A i \in 1..Len(page) :
       /\ page[i].order = consumed + i /\ page[i].order <= accepted
       /\ page[i].final => Terminal(page[i].order)

PageInv ==
  \A h \in Grants :
    work[h].pass \in {"records", "process"} => PageFollows(work[h].page, work[h].consumed)

\* The processor is at the command after the settled prefix.
CallInv ==
  \A h \in Grants : call[h].pc # "none" =>
    work[h].pass = "process" /\ call[h].order = work[h].consumed + 1

\* A command without an attempt has left no trace in the journal, and the
\* verdicts of record and journal are the effect's.
Untried(c) == effects[c] = 0 /\ evidence[c] = "none" /\ c \notin late

RecordInv ==
  \A c \in Orders :
    /\ rec[c].attempt <= opened
    /\ rec[c].state \in {"pending", "claimed"} => rec[c].attempt = 0
    /\ rec[c].state = "applying" => rec[c].attempt # 0
    /\ rec[c].attempt = 0 => Untried(c)
    /\ evidence[c] = "applied" => effects[c] = 1
    /\ evidence[c] \in {"refused", "not_applied"} => effects[c] = 0
    /\ rec[c].state = "applied" => effects[c] = 1
    /\ rec[c].state = "rejected" => effects[c] = 0

\* While the author of an attempt writes the journal the attempt is open.
OpenAttempt(c) == rec[c].state = "applying" /\ evidence[c] = "none"

LateInv ==
  \A c \in late :
    /\ rec[c].attempt # 0 /\ (opened = rec[c].attempt => OpenAttempt(c))
    /\ \A d \in 1..(c - 1) : Terminal(d)

DispatchOK(h) ==
  LET c == call[h].order IN
  /\ call[h].pc \in {"dispatch", "dispose"} =>
       /\ rec[c].attempt = h /\ c \notin late
       /\ opened = h => OpenAttempt(c) /\ effects[c] = (IF call[h].pc = "dispatch" THEN 0 ELSE 1)
  /\ call[h].pc = "settle" => rec[c].attempt # 0
  /\ call[h].pc = "close" => rec[c].attempt # 0 /\ rec[c].attempt < h

DispatchInv == \A h \in Grants : DispatchOK(h)

IndInv ==
  TypeOK /\ HostInv /\ CursorInv /\ PageInv /\ CallInv /\ RecordInv /\ LateInv /\ DispatchInv

-----------------------------------------------------------------------------
(* Records, pages and calls.                                                   *)

\* The empty values are of their types.
LEMMA Empties ==
  Fresh \in Record /\ NoCall \in Call /\ NoCall.pc = "none" /\ NewConsumer \in Consumer
<1>1. Fresh \in Record
  BY DEF Fresh, Record, States
<1>2. NoCall \in Call /\ NoCall.pc = "none"
  BY <1>1 DEF NoCall, Call, Steps
<1>3. NewConsumer \in Consumer
  BY DEF NewConsumer, Consumer, Pages, Passes
<1>. QED  BY <1>1, <1>2, <1>3

\* What becomes of a pass that ends.
LEMMA EndPassIs ==
  ASSUME TypeOK, NEW h \in Grants
  PROVE  /\ EndPass(h) \in Consumer /\ EndPass(h).pass = "idle" /\ EndPass(h).consumed = 0
         /\ EndPass(h).cursor = work[h].cursor
<1>1. work[h] \in Consumer /\ <<>> \in Pages /\ "idle" \in Passes /\ 0 \in Nat
  BY DEF TypeOK, Pages, Passes
<1>2. EndPass(h) \in Consumer
  BY <1>1, Zenon DEF EndPass, Consumer
<1>. QED  BY <1>1, <1>2 DEF EndPass, Consumer

\* A pass goes on with the rest of its page, saves its cursor, or ends.
LEMMA OnPageIs ==
  ASSUME TypeOK, NEW h \in Grants, NEW n \in Nat, NEW page \in Pages
  PROVE  LET w == OnPage(h, n, page) IN
         /\ w \in Consumer /\ w.cursor = work[h].cursor /\ w.consumed \in {n, 0}
         /\ w.pass # "process"
         /\ w.pass = "records" => w.page = page /\ page # <<>> /\ w.consumed = n
<1>1. work[h] \in Consumer /\ "records" \in Passes /\ "save" \in Passes
  BY DEF TypeOK, Passes
<1>2. CASE page # <<>>
  <2>1. OnPage(h, n, page) = [work[h] EXCEPT !.pass = "records", !.consumed = n, !.page = page]
    BY <1>2 DEF OnPage
  <2>2. OnPage(h, n, page) \in Consumer
    BY <1>1, <2>1, Zenon DEF Consumer
  <2>. QED  BY <1>1, <1>2, <2>1, <2>2 DEF Consumer
<1>3. CASE page = <<>> /\ n > work[h].cursor
  <2>1. OnPage(h, n, page) = [work[h] EXCEPT !.pass = "save", !.consumed = n, !.page = page]
    BY <1>3 DEF OnPage
  <2>2. OnPage(h, n, page) \in Consumer
    BY <1>1, <2>1, Zenon DEF Consumer
  <2>. QED  BY <1>1, <2>1, <2>2 DEF Consumer
<1>4. CASE page = <<>> /\ ~(n > work[h].cursor)
  <2>1. OnPage(h, n, page) = EndPass(h)
    BY <1>4 DEF OnPage
  <2>. QED  BY <2>1, EndPassIs
<1>. QED  BY <1>2, <1>3, <1>4

\* One consumer moves; the others' prefixes stay settled.
LEMMA WorkMoves ==
  ASSUME TypeOK, CursorInv, PageInv, NEW h \in Grants, NEW w \in Consumer,
         work' = [work EXCEPT ![h] = w], accepted' = accepted,
         \A c \in Orders : Terminal(c) => Terminal(c)',
         saved' \in [order : Nat, epoch : Nat],
         saved.order <= saved'.order, saved'.order <= accepted,
         \A c \in 1..saved'.order : Terminal(c)',
         w.cursor <= saved'.order, w.consumed <= accepted,
         \A c \in 1..w.consumed : Terminal(c)',
         w.pass \in {"records", "process"} => PageFollows(w.page, w.consumed)'
  PROVE  CursorInv' /\ PageInv'
<1>1. /\ work'[h] = w /\ \A g \in Grants : g # h => work'[g] = work[g]
  BY DEF TypeOK
<1>2. /\ accepted \in 0..LastOrder /\ LastOrder \in Nat /\ saved.order \in Nat
      /\ \A g \in Grants : work[g] \in Consumer
  BY StreamAssumption DEF TypeOK
<1>3. \A g \in Grants : /\ work[g].cursor \in Nat /\ work[g].consumed \in Nat
                          /\ Len(work[g].page) \in Nat
  <2>1. \A g \in Grants : /\ work[g].cursor \in Nat /\ work[g].consumed \in Nat
                            /\ work[g].page \in Seq(Entry)
    BY <1>2 DEF Consumer, Pages
  <2>2. \A page \in Seq(Entry) : Len(page) \in Nat
    OBVIOUS
  <2>. QED  BY <2>1, <2>2
<1>4. CursorInv'
  <2>1. ASSUME NEW g \in Grants, g # h
        PROVE  /\ work[g].cursor <= saved'.order /\ work[g].consumed <= accepted
               /\ \A c \in 1..work[g].consumed : Terminal(c)'
    BY <1>2, <1>3 DEF CursorInv, Orders
  <2>. QED  BY <1>1, <2>1 DEF CursorInv
<1>5. PageInv'
  <2>1. ASSUME NEW g \in Grants, g # h, work[g].pass \in {"records", "process"}
        PROVE  PageFollows(work[g].page, work[g].consumed)'
    <3>1. PageFollows(work[g].page, work[g].consumed)
      BY <2>1 DEF PageInv
    <3>2. ASSUME NEW i \in 1..Len(work[g].page)  PROVE work[g].consumed + i \in Orders
      <4>1. work[g].consumed + i <= accepted
        BY <3>1 DEF PageFollows
      <4>. QED  BY <4>1, <1>2, <1>3 DEF Orders
    <3>. QED  BY <3>1, <3>2, <1>1, <2>1 DEF PageFollows
  <2>2. ASSUME NEW g \in Grants, work'[g].pass \in {"records", "process"}
        PROVE  PageFollows(work[g].page, work[g].consumed)'
    BY <2>1, <2>2, <1>1 DEF PageFollows
  <2>. QED  BY <2>2 DEF PageInv
<1>. QED  BY <1>4, <1>5

\* No consumer moves.
LEMMA WorkStays ==
  ASSUME TypeOK, CursorInv, PageInv, work' = work, saved' = saved,
         accepted' \in 0..LastOrder, accepted <= accepted',
         \A c \in Orders : Terminal(c) => Terminal(c)'
  PROVE  CursorInv' /\ PageInv'
<1>1. /\ accepted \in 0..LastOrder /\ LastOrder \in Nat /\ saved.order \in Nat
      /\ \A g \in Grants : work[g] \in Consumer
  BY StreamAssumption DEF TypeOK
<1>2. \A g \in Grants : /\ work[g].cursor \in Nat /\ work[g].consumed \in Nat
                          /\ Len(work[g].page) \in Nat
  <2>1. \A g \in Grants : /\ work[g].cursor \in Nat /\ work[g].consumed \in Nat
                            /\ work[g].page \in Seq(Entry)
    BY <1>1 DEF Consumer, Pages
  <2>2. \A page \in Seq(Entry) : Len(page) \in Nat
    OBVIOUS
  <2>. QED  BY <2>1, <2>2
<1>3. CursorInv'
  BY <1>1, <1>2 DEF CursorInv, Orders
<1>4. ASSUME NEW g \in Grants, work[g].pass \in {"records", "process"}
      PROVE  PageFollows(work[g].page, work[g].consumed)'
  <2>1. PageFollows(work[g].page, work[g].consumed)
    BY <1>4 DEF PageInv
  <2>2. ASSUME NEW i \in 1..Len(work[g].page)
        PROVE  work[g].consumed + i \in Orders /\ work[g].consumed + i <= accepted'
    <3>1. work[g].consumed + i <= accepted
      BY <2>1 DEF PageFollows
    <3>. QED  BY <3>1, <1>1, <1>2 DEF Orders
  <2>. QED  BY <2>1, <2>2 DEF PageFollows
<1>. QED  BY <1>3, <1>4 DEF PageInv

\* The rest of a page follows on its first record.
LEMMA RestFollows ==
  ASSUME NEW page \in Pages, NEW n \in Nat, PageFollows(page, n)
  PROVE  /\ n + 1 <= accepted /\ Head(page) = page[1] /\ page[1].order = n + 1
         /\ page[1] \in Entry /\ (page[1].final => Terminal(n + 1))
         /\ Tail(page) \in Pages /\ (Tail(page) # <<>> => PageFollows(Tail(page), n + 1))
<1>1. page \in Seq(Entry) /\ page # <<>> /\ Len(page) \in Nat /\ Len(page) >= 1
  BY DEF Pages, PageFollows
<1>2. /\ Tail(page) \in Seq(Entry) /\ Len(Tail(page)) = Len(page) - 1
      /\ \A i \in 1..Len(Tail(page)) : i + 1 \in 1..Len(page) /\ Tail(page)[i] = page[i + 1]
  BY <1>1
<1>3. 1 \in 1..Len(page) /\ Head(page) = page[1] /\ page[1] \in Entry
  BY <1>1
<1>4. /\ page[1].order = n + 1 /\ page[1].order <= accepted
      /\ page[1].final => Terminal(page[1].order)
  BY <1>3 DEF PageFollows
<1>5. ASSUME NEW i \in 1..Len(Tail(page))
      PROVE  /\ Tail(page)[i].order = (n + 1) + i /\ Tail(page)[i].order <= accepted
             /\ Tail(page)[i].final => Terminal(Tail(page)[i].order)
  <2>1. i \in Nat /\ i + 1 \in 1..Len(page) /\ Tail(page)[i] = page[i + 1]
    BY <1>1, <1>2
  <2>2. /\ page[i + 1].order = n + (i + 1) /\ page[i + 1].order <= accepted
        /\ page[i + 1].final => Terminal(page[i + 1].order)
    BY <2>1 DEF PageFollows
  <2>. QED  BY <2>1, <2>2
<1>6. Tail(page) # <<>> => PageFollows(Tail(page), n + 1)
  BY <1>5 DEF PageFollows
<1>. QED  BY <1>2, <1>3, <1>4, <1>6 DEF Pages

\* A processor goes on with its command, or answers: the command is settled,
\* or the pass is blocked there.
Goes(h) ==
  /\ work' = work /\ call' \in [Grants -> Call] /\ call'[h].order = call[h].order
  /\ \A g \in Grants \ {h} : call'[g] = call[g]

Answers(h) == (Consumed(h) /\ rec'[call[h].order].state \in Final) \/ Blocked(h)

\* Whatever a processor does with its command, cursors, pages and calls keep to
\* the settled prefix.
LEMMA ProcessorMoves ==
  ASSUME TypeOK, CursorInv, PageInv, CallInv, NEW h \in Grants,
         work[h].pass = "process", call[h].pc # "none",
         accepted' = accepted, saved' = saved,
         \A c \in Orders : Terminal(c) => Terminal(c)',
         Goes(h) \/ Answers(h)
  PROVE  /\ work' \in [Grants -> Consumer] /\ call' \in [Grants -> Call]
         /\ CursorInv' /\ PageInv' /\ CallInv'
         /\ \A g \in Grants \ {h} : call'[g] = call[g]
         /\ Answers(h) => call'[h].pc = "none"
<1>0. Answers(h) => call'[h].pc = "none"
  BY Empties DEF Answers, Consumed, Blocked, TypeOK
<1>1. /\ accepted \in 0..LastOrder /\ LastOrder \in Nat /\ saved \in [order : Nat, epoch : Nat]
      /\ work \in [Grants -> Consumer] /\ call \in [Grants -> Call] /\ work[h] \in Consumer
      /\ work[h].consumed \in Nat /\ work[h].page \in Pages /\ work[h].cursor \in Nat
      /\ saved.order \in Nat
  BY StreamAssumption DEF TypeOK, Consumer
<1>2. PageFollows(work[h].page, work[h].consumed) /\ call[h].order = work[h].consumed + 1
  BY DEF PageInv, CallInv
<1>3. /\ call[h].order \in Nat /\ call[h].order <= accepted
      /\ \A c \in 1..work[h].consumed : Terminal(c)'
  <2>1. work[h].consumed + 1 <= accepted
    BY <1>1, <1>2, RestFollows, Zenon
  <2>2. \A c \in 1..work[h].consumed : c \in Orders /\ Terminal(c)
    BY <1>1, <2>1 DEF CursorInv, Orders
  <2>. QED  BY <1>1, <1>2, <2>1, <2>2
<1>4. /\ saved.order <= accepted /\ \A c \in 1..saved.order : Terminal(c)'
      /\ work[h].cursor <= saved.order /\ work[h].consumed <= accepted
  BY <1>1 DEF CursorInv, Orders
<1>5. CASE Goes(h)
  <2>1. work' = work /\ call' \in [Grants -> Call] /\ CursorInv' /\ PageInv'
    BY <1>1, <1>5, WorkStays DEF Goes
  <2>2. CallInv'
    BY <1>2, <1>5 DEF CallInv, Goes
  <2>. QED  BY <1>0, <1>1, <1>5, <2>1, <2>2 DEF Goes
<1>6. ASSUME NEW w \in Consumer, work' = [work EXCEPT ![h] = w],
             call' = [call EXCEPT ![h] = NoCall], w.cursor = work[h].cursor,
             w.consumed <= accepted, \A c \in 1..w.consumed : Terminal(c)',
             w.pass # "process", w.pass = "records" => PageFollows(w.page, w.consumed)'
      PROVE  /\ work' \in [Grants -> Consumer] /\ call' \in [Grants -> Call]
             /\ CursorInv' /\ PageInv' /\ CallInv'
             /\ \A g \in Grants \ {h} : call'[g] = call[g]
             /\ call'[h].pc = "none"
  <2>1. /\ saved' \in [order : Nat, epoch : Nat] /\ saved.order <= saved'.order
        /\ saved'.order <= accepted /\ (\A c \in 1..saved'.order : Terminal(c)')
        /\ w.cursor <= saved'.order
        /\ w.pass \in {"records", "process"} => PageFollows(w.page, w.consumed)'
    BY <1>1, <1>4, <1>6
  <2>4. CursorInv' /\ PageInv'
    BY <1>6, <2>1, WorkMoves, Zenon
  <2>2. /\ call'[h] = NoCall /\ \A g \in Grants \ {h} : call'[g] = call[g] /\ work'[g] = work[g]
        /\ call' \in [Grants -> Call] /\ work' \in [Grants -> Consumer]
    BY <1>1, <1>6, Empties
  <2>3. CallInv'
    BY <2>2, Empties DEF CallInv
  <2>. QED  BY <2>2, <2>3, <2>4, Empties
<1>7. CASE Consumed(h) /\ rec'[call[h].order].state \in Final
  <2>1. PICK w : w = OnPage(h, call[h].order, Tail(work[h].page))
    BY Zenon
  <2>2. /\ Tail(work[h].page) \in Pages
        /\ (Tail(work[h].page) # <<>> => PageFollows(Tail(work[h].page), call[h].order))
    BY <1>1, <1>2, RestFollows
  <2>3. /\ w \in Consumer /\ w.cursor = work[h].cursor /\ w.consumed \in {call[h].order, 0}
        /\ w.pass # "process"
        /\ w.pass = "records" => /\ w.page = Tail(work[h].page) /\ w.page # <<>>
                                 /\ w.consumed = call[h].order
    BY <2>1, <2>2, <1>3, OnPageIs
  <2>4. w.consumed <= accepted /\ \A c \in 1..w.consumed : Terminal(c)'
    <3>1. \A c \in 1..call[h].order : Terminal(c)'
      <4>1. \A c \in 1..call[h].order : c \in 1..work[h].consumed \/ c = call[h].order
        BY <1>1, <1>2
      <4>. QED  BY <4>1, <1>3, <1>7 DEF Terminal
    <3>2. w.consumed = call[h].order \/ w.consumed = 0
      BY <2>3
    <3>. QED  BY <3>1, <3>2, <1>1, <1>3
  <2>5. w.pass = "records" => PageFollows(w.page, w.consumed)'
    <3>1. SUFFICES ASSUME w.pass = "records" PROVE PageFollows(w.page, w.consumed)'
      OBVIOUS
    <3>4. w.page = Tail(work[h].page) /\ w.page # <<>> /\ w.consumed = call[h].order
      BY <3>1, <2>3
    <3>2. PageFollows(w.page, w.consumed) /\ w.consumed \in Nat /\ Len(w.page) \in Nat
      BY <3>4, <2>2, <1>3 DEF Pages
    <3>3. ASSUME NEW i \in 1..Len(w.page)  PROVE w.consumed + i \in Orders
      <4>1. w.consumed + i <= accepted
        BY <3>2 DEF PageFollows
      <4>. QED  BY <4>1, <3>2, <1>1 DEF Orders
    <3>. QED  BY <3>2, <3>3 DEF PageFollows
  <2>. QED  BY <1>6, <1>7, <2>1, <2>3, <2>4, <2>5, Zenon DEF Consumed
<1>8. CASE Blocked(h)
  <2>1. PICK w : w = OnPage(h, work[h].consumed, <<>>)
    BY Zenon
  <2>2. /\ w \in Consumer /\ w.cursor = work[h].cursor /\ w.consumed \in {work[h].consumed, 0}
        /\ w.pass # "process" /\ w.pass # "records"
    <3>1. <<>> \in Pages
      BY DEF Pages
    <3>2. PICK page \in Pages : page = <<>>
      BY <3>1
    <3>3. w = OnPage(h, work[h].consumed, page)
      BY <2>1, <3>2
    <3>. QED  BY <1>1, <3>2, <3>3, OnPageIs
  <2>3. w.consumed <= accepted /\ \A c \in 1..w.consumed : Terminal(c)'
    BY <2>2, <1>1, <1>3, <1>4
  <2>. QED  BY <1>6, <1>8, <2>1, <2>2, <2>3, Zenon DEF Blocked
<1>. QED  BY <1>5, <1>7, <1>8 DEF Answers

-----------------------------------------------------------------------------
(* The record of a command and the journal.                                    *)

\* The step of the promise that a step of the system is.
Told(c) == IF Terminal(c) THEN rec[c].state ELSE "open"

Quiet == effects' = effects /\ \A c \in Orders : Told(c)' = Told(c)

Runs(c) ==
  /\ Told(c) = "open" /\ effects[c] = 0 /\ effects' = [effects EXCEPT ![c] = 1]
  /\ \A d \in Orders : Told(d)' = Told(d) /\ (d < c => Told(d) # "open")

Settles(c) ==
  /\ Told(c) = "open" /\ effects' = effects
  /\ \A d \in Orders :
       Told(d)' = IF d # c THEN Told(d) ELSE IF effects[c] = 0 THEN "rejected" ELSE "applied"

PromiseStep == Quiet \/ \E c \in Orders : Runs(c) \/ Settles(c)

\* What a write may do to a record: nothing to its state, claim or reject what
\* has no attempt, authorize an attempt, or settle one from the journal.
SameState(c) == rec'[c].state = rec[c].state /\ rec'[c].attempt = rec[c].attempt
BeforeAttempt(c) ==
  /\ rec[c].state \in {"pending", "claimed"} /\ rec'[c].state \in {"claimed", "rejected"}
  /\ rec'[c].attempt = rec[c].attempt
Authorized(c) ==
  rec[c].state = "claimed" /\ rec'[c].state = "applying" /\ rec'[c].attempt \in 1..opened
FromJournal(c) ==
  /\ rec[c].state = "applying" /\ evidence[c] # "none" /\ rec'[c].state = Verdict(c)
  /\ rec'[c].attempt = rec[c].attempt

RecordStep(c) ==
  /\ rec' \in [Orders -> Record] /\ \A d \in Orders \ {c} : rec'[d] = rec[d]
  /\ SameState(c) \/ BeforeAttempt(c) \/ Authorized(c) \/ FromJournal(c)

\* The command a processor is at is one of the accepted ones.
LEMMA AtCommand ==
  ASSUME TypeOK, CursorInv, PageInv, CallInv, NEW g \in Grants, call[g].pc # "none"
  PROVE  /\ call[g].order \in Orders /\ call[g].order <= accepted
         /\ \A c \in 1..(call[g].order - 1) : Terminal(c)
<1>1. /\ accepted \in 0..LastOrder /\ LastOrder \in Nat
      /\ work[g].consumed \in Nat /\ work[g].page \in Pages
  BY StreamAssumption DEF TypeOK, Consumer
<1>2. PageFollows(work[g].page, work[g].consumed) /\ call[g].order = work[g].consumed + 1
  BY DEF PageInv, CallInv
<1>3. work[g].consumed + 1 <= accepted
  BY <1>1, <1>2, RestFollows, Zenon
<1>. QED  BY <1>1, <1>2, <1>3 DEF Orders, CursorInv

\* A write of a record keeps what record and journal say of each other, what a
\* processor knows of its attempt, and is a step of the promise.
LEMMA RecordMoves ==
  ASSUME IndInv, NEW c \in Orders, RecordStep(c),
         UNCHANGED <<opened, effects, evidence, late>>
  PROVE  /\ \A d \in Orders : Terminal(d) => Terminal(d)'
         /\ RecordInv' /\ LateInv' /\ PromiseStep
         /\ \A g \in Grants : call'[g] = call[g] => DispatchOK(g)'
<1>1. /\ rec \in [Orders -> Record] /\ opened \in Nat /\ LastOrder \in Nat
      /\ effects \in [Orders -> {0, 1}] /\ late \subseteq Orders
  BY StreamAssumption DEF IndInv, TypeOK
<1>2. /\ rec' \in [Orders -> Record] /\ \A d \in Orders \ {c} : rec'[d] = rec[d]
      /\ \A d \in Orders : rec[d].attempt \in Nat /\ rec'[d].attempt \in Nat
  BY <1>1 DEF RecordStep, Record
<1>3. \A d \in Orders : Terminal(d) => Terminal(d)'
  BY <1>2 DEF Terminal, Final, RecordStep, SameState, BeforeAttempt, Authorized, FromJournal
<1>4. RecordInv'
  <2>1. /\ rec'[c].attempt <= opened
        /\ rec'[c].state \in {"pending", "claimed"} => rec'[c].attempt = 0
        /\ rec'[c].state = "applying" => rec'[c].attempt # 0
        /\ rec'[c].attempt = 0 => rec[c].attempt = 0
        /\ rec'[c].state = "applied" => effects[c] = 1
        /\ rec'[c].state = "rejected" => effects[c] = 0
    BY <1>1, <1>2 DEF IndInv, RecordInv, Untried, RecordStep, SameState, BeforeAttempt, Authorized,
       FromJournal, Verdict, TypeOK
  <2>. QED  BY <1>2, <2>1 DEF IndInv, RecordInv, Untried
<1>5. LateInv'
  <2>1. ASSUME c \in late
        PROVE  rec'[c].attempt # 0 /\ (opened = rec'[c].attempt => rec'[c].state = "applying"
                                                                    /\ evidence[c] = "none")
    BY <1>1, <1>2, <2>1 DEF IndInv, RecordInv, LateInv, OpenAttempt, RecordStep, SameState,
       BeforeAttempt, Authorized, FromJournal
  <2>2. ASSUME NEW d \in late
        PROVE  /\ rec'[d].attempt # 0
               /\ opened = rec'[d].attempt => rec'[d].state = "applying" /\ evidence[d] = "none"
    BY <1>1, <1>2, <2>1 DEF IndInv, LateInv, OpenAttempt
  <2>3. ASSUME NEW d \in late, NEW e \in 1..(d - 1)  PROVE Terminal(e)'
    <3>1. e \in Orders /\ Terminal(e)
      BY <1>1 DEF IndInv, LateInv, Orders
    <3>. QED  BY <3>1, <1>3
  <2>. QED  BY <2>2, <2>3 DEF LateInv, OpenAttempt
<1>6. PromiseStep
  <2>1. \A d \in Orders \ {c} : Told(d)' = Told(d)
    BY <1>2 DEF Told, Terminal
  <2>2. CASE Told(c)' = Told(c)
    BY <2>1, <2>2 DEF PromiseStep, Quiet
  <2>3. CASE Told(c)' # Told(c)
    <3>1. /\ Told(c) = "open"
          /\ Told(c)' = IF effects[c] = 0 THEN "rejected" ELSE "applied"
      BY <1>1, <1>2, <2>3 DEF IndInv, RecordInv, Untried, RecordStep, SameState, BeforeAttempt,
         Authorized, FromJournal, Verdict, Told, Terminal, Final, TypeOK
    <3>. QED  BY <2>1, <3>1 DEF PromiseStep, Settles
  <2>. QED  BY <2>2, <2>3
<1>7. ASSUME NEW g \in Grants, call'[g] = call[g]  PROVE DispatchOK(g)'
  <2>1. CASE call[g].pc \notin {"dispatch", "dispose", "settle", "close"}
    BY <1>7, <2>1 DEF DispatchOK
  <2>2. CASE call[g].pc \in {"dispatch", "dispose", "settle", "close"}
    <3>1. call[g].order \in Orders /\ g \in Nat /\ g # 0 /\ DispatchOK(g)
      BY <2>2, AtCommand, StreamAssumption DEF IndInv, Grants, DispatchInv
    <3>2. CASE call[g].order # c
      BY <1>2, <1>7, <3>1, <3>2 DEF DispatchOK, OpenAttempt
    <3>3. CASE call[g].order = c
      <4>1. rec[c].attempt # 0 /\ ~BeforeAttempt(c) /\ ~Authorized(c)
        BY <2>2, <3>1, <3>3 DEF DispatchOK, IndInv, RecordInv, BeforeAttempt, Authorized
      <4>2. rec'[c].attempt = rec[c].attempt /\ (OpenAttempt(c) => rec'[c].state = "applying")
        BY <4>1 DEF RecordStep, SameState, FromJournal, OpenAttempt
      <4>. QED  BY <1>7, <3>1, <3>3, <4>2 DEF DispatchOK, OpenAttempt
    <3>. QED  BY <3>2, <3>3
  <2>. QED  BY <2>1, <2>2
<1>. QED  BY <1>3, <1>4, <1>5, <1>6, <1>7

\* A residency whose fence closes.
LEMMA FenceCloses ==
  ASSUME TypeOK, NEW h \in Grants, NEW b \in BOOLEAN,
         host' = [host EXCEPT ![h].ended = @ \/ b]
  PROVE  host' \in [Grants -> Host] /\ \A g \in Grants : host'[g].life = host[g].life
<1>1. host \in [Grants -> Host] /\ (host[h].ended \/ b) \in BOOLEAN
  BY DEF TypeOK, Host
<1>2. host' \in [Grants -> Host]
  BY <1>1 DEF Host
<1>. QED  BY <1>1, <1>2 DEF Host

\* Where neither record nor effect changes, nothing of the promise does.
LEMMA QuietStep ==
  ASSUME rec' = rec, effects' = effects
  PROVE  PromiseStep
BY DEF PromiseStep, Quiet, Told, Terminal

-----------------------------------------------------------------------------
(* The steps of the stream.                                                    *)

\* A command is accepted.
LEMMA AcceptKeeps ==
  ASSUME IndInv, Accept, UNCHANGED journalVars
  PROVE  IndInv' /\ PromiseStep
<1>1. /\ UNCHANGED <<rec, saved, host, work, call, opened, effects, evidence, late>>
      /\ accepted' = accepted + 1 /\ accepted < LastOrder /\ TypeOK
      /\ accepted \in 0..LastOrder /\ LastOrder \in Nat
  BY StreamAssumption DEF Accept, journalVars, IndInv, TypeOK
<1>2. accepted' \in 0..LastOrder /\ accepted <= accepted'
  BY <1>1
<1>3. CursorInv' /\ PageInv'
  BY <1>1, <1>2, WorkStays DEF IndInv, Terminal
<1>4. TypeOK' /\ HostInv' /\ CallInv'
  BY <1>1, <1>2 DEF IndInv, TypeOK, HostInv, CallInv
<1>5. RecordInv' /\ LateInv'
  BY <1>1 DEF IndInv, RecordInv, Untried, LateInv, OpenAttempt, Terminal
<1>6. DispatchInv'
  BY <1>1, Zenon DEF IndInv, DispatchInv, DispatchOK, OpenAttempt
<1>. QED  BY <1>1, <1>3, <1>4, <1>5, <1>6, QuietStep DEF IndInv

\* A record is written outside a processor.
LEMMA OutsideKeeps ==
  ASSUME IndInv, NEW c \in Orders, RecordStep(c),
         UNCHANGED <<accepted, saved, host, work, call, opened, effects, evidence, late>>
  PROVE  IndInv' /\ PromiseStep
<1>1. /\ \A d \in Orders : Terminal(d) => Terminal(d)'
      /\ RecordInv' /\ LateInv' /\ PromiseStep
      /\ \A g \in Grants : DispatchOK(g)'
  BY RecordMoves
<1>2. CursorInv' /\ PageInv'
  BY <1>1, WorkStays, StreamAssumption DEF IndInv, TypeOK
<1>3. TypeOK' /\ HostInv' /\ CallInv'
  BY DEF IndInv, TypeOK, HostInv, CallInv, RecordStep
<1>. QED  BY <1>1, <1>2, <1>3 DEF IndInv, DispatchInv

\* A claim lapses, a deadline passes, or Factory rejects what expired.
LEMMA TimeKeeps ==
  ASSUME IndInv, NEW c \in Orders, Lapse(c) \/ Expire(c) \/ Sweep(c), UNCHANGED journalVars
  PROVE  IndInv' /\ PromiseStep
<1>1. /\ UNCHANGED <<accepted, saved, host, work, call, opened, effects, evidence, late>>
      /\ rec \in [Orders -> Record] /\ rec[c] \in Record /\ rec[c].rev \in Nat
  BY DEF Lapse, Expire, Sweep, journalVars, IndInv, TypeOK, Record
<1>2. CASE Lapse(c) \/ Expire(c)
  <2>1. CASE rec' = [rec EXCEPT ![c].live = FALSE]
    <3>1. rec' \in [Orders -> Record]
      BY <1>1, <2>1, Zenon DEF Record
    <3>2. rec'[c].state = rec[c].state /\ rec'[c].attempt = rec[c].attempt
      BY <1>1, <2>1 DEF Record
    <3>. QED  BY <1>1, <2>1, <3>1, <3>2, OutsideKeeps, Zenon DEF RecordStep, SameState
  <2>2. CASE rec' = [rec EXCEPT ![c].due = TRUE]
    <3>1. rec' \in [Orders -> Record]
      BY <1>1, <2>2, Zenon DEF Record
    <3>2. rec'[c].state = rec[c].state /\ rec'[c].attempt = rec[c].attempt
      BY <1>1, <2>2 DEF Record
    <3>. QED  BY <1>1, <2>2, <3>1, <3>2, OutsideKeeps, Zenon DEF RecordStep, SameState
  <2>. QED  BY <1>2, <2>1, <2>2 DEF Lapse, Expire
<1>3. CASE Sweep(c)
  <2>1. rec' = [rec EXCEPT ![c].state = "rejected", ![c].rev = @ + 1]
    BY <1>3 DEF Sweep
  <2>2. /\ \A d \in Orders \ {c} : rec'[d] = rec[d]
        /\ rec'[c].state = "rejected" /\ rec'[c].attempt = rec[c].attempt
    BY <1>1, <2>1 DEF Record
  <2>3. rec' \in [Orders -> Record]
    BY <1>1, <2>1 DEF Record, States
  <2>. QED  BY <1>1, <1>3, <2>2, <2>3, OutsideKeeps DEF RecordStep, BeforeAttempt, Sweep
<1>. QED  BY <1>2, <1>3

\* The next Host begins: no attempt is its own yet.
LEMMA BeginWorkKeeps ==
  ASSUME IndInv, NEW h \in Grants, beginWork(h), UNCHANGED journalVars
  PROVE  IndInv' /\ PromiseStep
<1>1. /\ UNCHANGED <<accepted, rec, saved, work, call, effects, evidence, late>>
      /\ opened' = h /\ host' = [host EXCEPT ![h].life = "up"] /\ TypeOK
      /\ opened \in 0..LastGrant /\ LastGrant \in Nat /\ h \in 1..LastGrant
      /\ host \in [Grants -> Host]
  BY StreamAssumption DEF beginWork, journalVars, IndInv, TypeOK, Grants
<1>2. h = opened + 1
  <2>1. h > opened
    BY <1>1 DEF beginWork, IndInv, HostInv
  <2>2. CASE h > 1
    <3>1. h - 1 \in Grants /\ host[h - 1].life # "none"
      BY <1>1, <2>2 DEF beginWork, Grants
    <3>2. ~(h - 1 > opened)
      BY <3>1 DEF IndInv, HostInv
    <3>. QED  BY <1>1, <2>1, <3>2
  <2>. QED  BY <1>1, <2>1, <2>2
<1>3. /\ host' \in [Grants -> Host] /\ host'[h].life = "up"
      /\ \A g \in Grants \ {h} : host'[g] = host[g]
  BY <1>1 DEF Host
<1>4. TypeOK'
  BY <1>1, <1>3 DEF TypeOK
<1>5. HostInv'
  BY <1>1, <1>2, <1>3 DEF IndInv, HostInv, Grants
<1>6. CursorInv' /\ PageInv' /\ CallInv'
  BY <1>1 DEF IndInv, CursorInv, PageInv, PageFollows, CallInv, Terminal
<1>7. \A c \in Orders : rec[c].attempt \in Nat /\ rec[c].attempt <= opened
  BY <1>1 DEF IndInv, RecordInv, TypeOK, Record
<1>8. RecordInv'
  BY <1>1, <1>2, <1>7 DEF IndInv, RecordInv, Untried
<1>9. LateInv'
  BY <1>1, <1>2, <1>7 DEF IndInv, LateInv, TypeOK, Terminal
<1>10. DispatchInv'
  <2>1. ASSUME NEW g \in Grants  PROVE DispatchOK(g)'
    <3>1. DispatchOK(g) /\ (call[g].pc \in {"dispatch", "dispose"} => call[g].order \in Orders)
      BY AtCommand DEF IndInv, DispatchInv
    <3>2. call[g].pc \in {"dispatch", "dispose"} => h # g
      BY <1>1, <1>2, <1>7, <3>1 DEF DispatchOK
    <3>. QED  BY <1>1, <3>1, <3>2 DEF DispatchOK
  <2>. QED  BY <2>1 DEF DispatchInv
<1>. QED  BY <1>1, <1>4, <1>5, <1>6, <1>8, <1>9, <1>10, QuietStep DEF IndInv

\* Nothing but a residency's life and fence, or the gates' mark, changes.
LEMMA HostKeeps ==
  ASSUME IndInv, NEW h \in Grants, LoseLease(h) \/ Leave(h) \/ MarkGates(h) \/ giveUp(h),
         UNCHANGED journalVars
  PROVE  IndInv' /\ PromiseStep
<1>1. /\ UNCHANGED <<accepted, rec, saved, work, call, opened, effects, evidence, late>>
      /\ host \in [Grants -> Host]
  BY DEF LoseLease, Leave, MarkGates, giveUp, journalVars, IndInv, TypeOK
<1>2. /\ host' \in [Grants -> Host]
      /\ \A g \in Grants : host'[g].life = "none" <=> host[g].life = "none"
  <2>1. CASE host' = host
    BY <1>1, <2>1
  <2>2. CASE host' = [host EXCEPT ![h].lost = TRUE]
    BY <1>1, <2>2, Zenon DEF Host
  <2>3. CASE host[h].life = "up" /\ host' = [host EXCEPT ![h].life = "gone"]
    BY <1>1, <2>3 DEF Host
  <2>. QED  BY <2>1, <2>2, <2>3 DEF LoseLease, Leave, MarkGates, giveUp, Up
<1>3. TypeOK' /\ HostInv'
  BY <1>1, <1>2 DEF IndInv, TypeOK, HostInv
<1>4. CursorInv' /\ PageInv' /\ CallInv'
  BY <1>1, Zenon DEF IndInv, CursorInv, PageInv, PageFollows, CallInv, Terminal
<1>5. RecordInv' /\ LateInv'
  BY <1>1, Zenon DEF IndInv, RecordInv, Untried, LateInv, OpenAttempt, Terminal
<1>6. DispatchInv'
  BY <1>1, Zenon DEF IndInv, DispatchInv, DispatchOK, OpenAttempt
<1>. QED  BY <1>1, <1>3, <1>4, <1>5, <1>6, QuietStep DEF IndInv

\* A pass moves, with its processor at no command before or, just begun, after.
LEMMA PassKeeps ==
  ASSUME IndInv, NEW h \in Grants, NEW w \in Consumer, PassStep(h, w),
         UNCHANGED <<effects, evidence, late>>,
         call[h].pc = "none", call' \in [Grants -> Call],
         \A g \in Grants \ {h} : call'[g] = call[g],
         call'[h].pc # "none" =>
           call'[h].pc = "load" /\ w.pass = "process" /\ call'[h].order = w.consumed + 1,
         host' \in [Grants -> Host], \A g \in Grants : host'[g].life = host[g].life,
         saved' \in [order : Nat, epoch : Nat],
         saved.order <= saved'.order, saved'.order <= accepted,
         \A c \in 1..saved'.order : Terminal(c),
         w.cursor <= saved'.order, w.consumed <= accepted,
         \A c \in 1..w.consumed : Terminal(c),
         w.pass \in {"records", "process"} => PageFollows(w.page, w.consumed)
  PROVE  IndInv' /\ PromiseStep
<1>1. /\ accepted' = accepted /\ rec' = rec /\ opened' = opened
      /\ work' = [work EXCEPT ![h] = w] /\ work \in [Grants -> Consumer]
  BY DEF PassStep, IndInv, TypeOK
<1>2. /\ \A c : Terminal(c) => Terminal(c)'
      /\ PageFollows(w.page, w.consumed) => PageFollows(w.page, w.consumed)'
  BY <1>1, Zenon DEF Terminal, PageFollows
<1>3. CursorInv' /\ PageInv'
  BY <1>1, <1>2, WorkMoves, Zenon DEF IndInv
<1>4. TypeOK' /\ HostInv'
  BY <1>1 DEF IndInv, TypeOK, HostInv
<1>5. CallInv'
  BY <1>1, Zenon DEF IndInv, CallInv
<1>6. RecordInv' /\ LateInv'
  BY <1>1, Zenon DEF IndInv, RecordInv, Untried, LateInv, OpenAttempt, Terminal
<1>7. DispatchInv'
  <2>1. DispatchOK(h)'
    BY DEF DispatchOK
  <2>2. ASSUME NEW g \in Grants \ {h}  PROVE DispatchOK(g)'
    <3>1. DispatchOK(g) /\ call'[g] = call[g]
      BY DEF IndInv, DispatchInv
    <3>. QED  BY <1>1, <3>1 DEF DispatchOK, OpenAttempt
  <2>. QED  BY <2>1, <2>2 DEF DispatchInv
<1>. QED  BY <1>1, <1>3, <1>4, <1>5, <1>6, <1>7, QuietStep DEF IndInv

\* A pass begins.
LEMMA RunKeeps ==
  ASSUME IndInv, NEW h \in Grants, Run(h), UNCHANGED journalVars
  PROVE  IndInv' /\ PromiseStep
<1>1. PICK w : w = [work[h] EXCEPT !.pass = "list"]
  BY Zenon
<1>2. /\ work[h] \in Consumer /\ work[h].pass = "idle" /\ call[h].pc = "none"
      /\ UNCHANGED <<saved, host, call, effects, evidence, late>> /\ PassStep(h, w)
  BY <1>1 DEF Run, journalVars, IndInv, TypeOK, CallInv
<1>3. /\ w \in Consumer /\ w.pass = "list" /\ w.consumed = work[h].consumed
      /\ w.cursor = work[h].cursor
  BY <1>1, <1>2 DEF Consumer, Passes
<1>4. /\ call \in [Grants -> Call] /\ host \in [Grants -> Host]
      /\ saved \in [order : Nat, epoch : Nat] /\ saved.order <= saved.order
  BY DEF IndInv, TypeOK
<1>5. /\ saved.order <= accepted /\ (\A c \in 1..saved.order : Terminal(c))
      /\ work[h].cursor <= saved.order /\ work[h].consumed <= accepted
      /\ \A c \in 1..work[h].consumed : Terminal(c)
  BY DEF IndInv, CursorInv
<1>. QED  BY <1>2, <1>3, <1>4, <1>5, PassKeeps, Zenon

\* A record of the page is consumed, handed to the processor, or ends the pass.
LEMMA ExamineKeeps ==
  ASSUME IndInv, NEW h \in Grants, Examine(h), UNCHANGED journalVars
  PROVE  IndInv' /\ PromiseStep
<1>1. /\ work[h] \in Consumer /\ work[h].pass = "records" /\ call[h].pc = "none" /\ TypeOK
      /\ UNCHANGED <<saved, host, effects, evidence, late>>
      /\ work[h].page \in Pages /\ work[h].consumed \in Nat
  BY DEF Examine, journalVars, IndInv, TypeOK, CallInv, Consumer
<1>2. /\ call \in [Grants -> Call] /\ host \in [Grants -> Host]
      /\ saved \in [order : Nat, epoch : Nat] /\ saved.order <= saved.order
      /\ saved.order <= accepted /\ (\A c \in 1..saved.order : Terminal(c))
      /\ work[h].cursor <= saved.order /\ work[h].consumed <= accepted
      /\ (\A c \in 1..work[h].consumed : Terminal(c)) /\ accepted \in Nat
      /\ PageFollows(work[h].page, work[h].consumed)
  BY <1>1, StreamAssumption DEF IndInv, TypeOK, CursorInv, PageInv
<1>3. PICK n : n = work[h].consumed + 1
  BY Zenon
<1>4. /\ n \in Nat /\ n <= accepted /\ Head(work[h].page).order = n
      /\ Head(work[h].page).final => Terminal(n)
      /\ Tail(work[h].page) \in Pages
      /\ Tail(work[h].page) # <<>> => PageFollows(Tail(work[h].page), n)
  <2>1. PICK page \in Pages : page = work[h].page
    BY <1>1
  <2>2. PICK m \in Nat : m = work[h].consumed
    BY <1>1
  <2>3. PageFollows(page, m)
    BY <1>2, <2>1, <2>2
  <2>4. /\ m + 1 <= accepted /\ Head(page) = page[1] /\ page[1].order = m + 1
        /\ (page[1].final => Terminal(m + 1))
        /\ Tail(page) \in Pages /\ (Tail(page) # <<>> => PageFollows(Tail(page), m + 1))
    BY <2>3, RestFollows
  <2>. QED  BY <1>3, <2>1, <2>2, <2>4
<1>5. CASE /\ Head(work[h].page).final /\ call' = call
           /\ PassStep(h, OnPage(h, n, Tail(work[h].page)))
  <2>1. PICK w : w = OnPage(h, n, Tail(work[h].page))
    BY Zenon
  <2>2. /\ w \in Consumer /\ w.cursor = work[h].cursor /\ w.consumed \in {n, 0}
        /\ w.pass # "process"
        /\ w.pass = "records" => PageFollows(w.page, w.consumed)
    <3>1. /\ w \in Consumer /\ w.cursor = work[h].cursor /\ w.consumed \in {n, 0}
          /\ w.pass # "process"
          /\ w.pass = "records" => /\ w.page = Tail(work[h].page) /\ w.page # <<>>
                                   /\ w.consumed = n
      <4>1. PICK page \in Pages : page = Tail(work[h].page)
        BY <1>4, Zenon
      <4>2. TypeOK /\ n \in Nat
        BY <1>1, <1>4
      <4>. QED  BY <2>1, <4>1, <4>2, OnPageIs
    <3>. QED  BY <1>4, <3>1, Zenon
  <2>3. w.consumed <= accepted /\ \A c \in 1..w.consumed : Terminal(c)
    <3>1. \A c \in 1..n : c \in 1..work[h].consumed \/ c = n
      BY <1>1, <1>3
    <3>2. w.consumed = n \/ w.consumed = 0
      BY <2>2
    <3>3. \A c \in 1..n : Terminal(c)
      BY <1>2, <1>4, <1>5, <3>1
    <3>. QED  BY <1>2, <1>4, <3>2, <3>3
  <2>. QED  BY <1>1, <1>2, <1>5, <2>1, <2>2, <2>3, PassKeeps, Zenon
<1>6. CASE /\ PassStep(h, [work[h] EXCEPT !.pass = "process"])
           /\ call' = [call EXCEPT ![h] = [NoCall EXCEPT !.order = n, !.pc = "load"]]
  <2>1. PICK w : w = [work[h] EXCEPT !.pass = "process"]
    BY Zenon
  <2>2. /\ w \in Consumer /\ w.cursor = work[h].cursor /\ w.consumed = work[h].consumed
        /\ w.pass = "process" /\ w.page = work[h].page
    BY <1>1, <2>1 DEF Consumer, Passes
  <2>3. [NoCall EXCEPT !.order = n, !.pc = "load"] \in Call
    <3>1. NoCall \in Call /\ "load" \in Steps
      BY Empties DEF Steps
    <3>. QED  BY <1>4, <3>1, Zenon DEF Call
  <2>4. /\ call' \in [Grants -> Call] /\ (\A g \in Grants \ {h} : call'[g] = call[g])
        /\ call'[h].pc = "load" /\ call'[h].order = w.consumed + 1
    BY <1>2, <1>3, <1>6, <2>2, <2>3, Empties DEF Call
  <2>. QED  BY <1>1, <1>2, <1>6, <2>1, <2>2, <2>4, PassKeeps, Zenon
<1>7. CASE PassStep(h, EndPass(h)) /\ call' = call
  <2>1. PICK w : w = EndPass(h)
    BY Zenon
  <2>2. /\ w \in Consumer /\ w.cursor = work[h].cursor /\ w.consumed = 0 /\ w.pass = "idle"
    BY <1>1, <2>1, EndPassIs
  <2>3. w.consumed <= accepted /\ \A c \in 1..w.consumed : Terminal(c)
    BY <1>2, <2>2
  <2>. QED  BY <1>1, <1>2, <1>7, <2>1, <2>2, <2>3, PassKeeps, Zenon
<1>. QED  BY <1>4, <1>5, <1>6, <1>7, Zenon DEF Examine

\* The save keeps the invariant: the cursor moves to the end of the settled
\* prefix.
LEMMA SaveCursorKeeps ==
  ASSUME IndInv, NEW h \in Grants, SaveCursor(h), UNCHANGED journalVars
  PROVE  IndInv' /\ PromiseStep
<1>1. /\ work[h] \in Consumer /\ work[h].pass = "save" /\ call[h].pc = "none" /\ TypeOK
      /\ UNCHANGED <<call, effects, evidence, late>>
      /\ work[h].cursor \in Nat /\ work[h].consumed \in Nat
  BY DEF SaveCursor, journalVars, IndInv, TypeOK, CallInv, Consumer
<1>2. /\ call \in [Grants -> Call] /\ host \in [Grants -> Host]
      /\ saved \in [order : Nat, epoch : Nat] /\ saved.order \in Nat /\ saved.epoch \in Nat
      /\ saved.order <= accepted /\ (\A c \in 1..saved.order : Terminal(c))
      /\ work[h].cursor <= saved.order /\ work[h].consumed <= accepted
      /\ (\A c \in 1..work[h].consumed : Terminal(c)) /\ accepted \in Nat /\ h \in Nat
  BY <1>1, StreamAssumption DEF IndInv, TypeOK, CursorInv, Grants
<1>3. /\ EndPass(h) \in Consumer /\ EndPass(h).cursor = work[h].cursor /\ EndPass(h).consumed = 0
      /\ EndPass(h).pass = "idle"
  BY <1>1, EndPassIs
<1>4. PICK w : /\ PassStep(h, w)
               /\ \/ w = EndPass(h)
                  \/ /\ w = [EndPass(h) EXCEPT !.cursor = work[h].consumed]
                     /\ saved' = [order |-> work[h].consumed, epoch |-> h]
  BY ZenonT(20) DEF SaveCursor
<1>5. /\ w \in Consumer /\ w.consumed = 0 /\ w.pass = "idle"
      /\ \/ w.cursor = work[h].cursor
         \/ w.cursor = work[h].consumed /\ saved' = [order |-> work[h].consumed, epoch |-> h]
  BY <1>1, <1>3, <1>4 DEF Consumer
<1>6. /\ saved' \in [order : Nat, epoch : Nat] /\ saved.order <= saved'.order
      /\ saved'.order <= accepted /\ \A c \in 1..saved'.order : Terminal(c)
  BY <1>1, <1>2 DEF SaveCursor, StoreKeeps
<1>7. /\ host' \in [Grants -> Host] /\ \A g \in Grants : host'[g].life = host[g].life
  <2>1. CASE host' = host
    BY <1>2, <2>1
  <2>2. CASE host' = [host EXCEPT ![h].ended = @ \/ h < saved.epoch]
    BY <1>1, <1>2, <2>2, FenceCloses, Zenon
  <2>. QED  BY <2>1, <2>2 DEF SaveCursor
<1>8. w.cursor <= saved'.order /\ w.consumed <= accepted /\ \A c \in 1..w.consumed : Terminal(c)
  <2>1. saved'.order \in Nat
    BY <1>6
  <2>2. w.cursor <= saved'.order
    BY <1>1, <1>2, <1>5, <1>6, <2>1
  <2>. QED  BY <1>2, <1>5, <2>2
<1>. QED  BY <1>1, <1>2, <1>4, <1>5, <1>6, <1>7, <1>8, PassKeeps

\* The accepted records after an order follow it.
LEMMA ListedFollows ==
  ASSUME NEW s \in Nat, NEW n \in Nat, accepted \in Nat, s + n <= accepted
  PROVE  /\ Listed(s, n) \in Pages /\ Len(Listed(s, n)) = n
         /\ \A i \in 1..n : Listed(s, n)[i] = [order |-> s + i, final |-> Terminal(s + i)]
         /\ Listed(s, n) # <<>> => PageFollows(Listed(s, n), s)
<1>1. \A i \in 1..n : [order |-> s + i, final |-> Terminal(s + i)] \in Entry
  BY DEF Entry, Terminal
<1>2. /\ Listed(s, n) \in Seq(Entry) /\ Len(Listed(s, n)) = n
      /\ \A i \in 1..n : Listed(s, n)[i] = [order |-> s + i, final |-> Terminal(s + i)]
  BY <1>1 DEF Listed
<1>3. ASSUME NEW i \in 1..Len(Listed(s, n))
      PROVE  /\ Listed(s, n)[i].order = s + i /\ s + i <= accepted
             /\ Listed(s, n)[i].final => Terminal(s + i)
  BY <1>2
<1>. QED  BY <1>2, <1>3 DEF Pages, PageFollows

\* A page that passes validatePage goes on where the durable cursor ends,
\* whatever page the store answered with.
LEMMA ValidPageFollows ==
  ASSUME NEW s \in Nat, accepted \in Nat, s <= accepted, NEW page,
         page = ListOrdered(s) \/ page \in BadPages(s),
         validatePage(page, s), page # <<>>
  PROVE  page \in Pages /\ PageFollows(page, s)
<1>1. Batch \in Nat /\ \A k \in Nat : Fewest(Batch, k) \in Nat /\ Fewest(Batch, k) <= k
  BY StreamAssumption DEF Fewest
<1>2. PICK n \in Nat : n = Fewest(Batch, accepted - s) /\ s + n <= accepted
  <2>1. accepted - s \in Nat
    OBVIOUS
  <2>. QED  BY <1>1, <2>1
<1>3. CASE page = ListOrdered(s)
  BY <1>2, <1>3, ListedFollows DEF ListOrdered
<1>4. CASE page = Listed(s, accepted - s)
  <2>1. accepted - s \in Nat /\ s + (accepted - s) <= accepted
    OBVIOUS
  <2>. QED  BY <1>4, <2>1, ListedFollows
<1>5. CASE page = ListOrdered(0)
  <2>1. PICK m \in Nat : m = Fewest(Batch, accepted - 0) /\ 0 + m <= accepted
    <3>1. accepted - 0 = accepted
      OBVIOUS
    <3>. QED  BY <1>1, <3>1
  <2>2. /\ page = Listed(0, m) /\ page \in Pages /\ Len(page) = m
        /\ \A i \in 1..m : page[i] = [order |-> 0 + i, final |-> Terminal(0 + i)]
        /\ PageFollows(page, 0)
    BY <1>5, <2>1, ListedFollows DEF ListOrdered
  <2>3. 1 \in 1..m
    <3>1. m # 0
      BY <2>2 DEF Pages
    <3>. QED  BY <3>1
  <2>4. page[1].order > s
    BY <2>2, <2>3 DEF validatePage
  <2>5. s = 0
    <3>1. page[1] = [order |-> 0 + 1, final |-> Terminal(0 + 1)]
      BY <2>2, <2>3
    <3>2. page[1].order = 1
      BY <3>1
    <3>. QED  BY <2>4, <3>2
  <2>. QED  BY <2>2, <2>5
<1>6. CASE page = Backwards(ListOrdered(s))
  <2>1. PICK p : p = Listed(s, n)
    BY Zenon
  <2>2. /\ p \in Pages /\ Len(p) = n
        /\ \A i \in 1..n : p[i] = [order |-> s + i, final |-> Terminal(s + i)]
        /\ p # <<>> => PageFollows(p, s)
    BY <1>2, <2>1, ListedFollows
  <2>3. page = [i \in 1..n |-> p[n + 1 - i]]
    BY <1>2, <1>6, <2>1, <2>2 DEF Backwards, ListOrdered
  <2>4. /\ Len(page) = n /\ \A i \in 1..n : n + 1 - i \in 1..n /\ page[i] = p[n + 1 - i]
    <3>1. \A i \in 1..n : n + 1 - i \in 1..n
      OBVIOUS
    <3>2. \A i \in 1..n : p[n + 1 - i] \in Entry
      BY <2>2, <3>1 DEF Pages
    <3>3. page \in Seq(Entry)
      BY <2>3, <3>2
    <3>. QED  BY <2>3, <3>1, <3>3
  <2>5. n # 0
    BY <2>3
  <2>6. ~(n >= 2)
    <3>1. SUFFICES ASSUME n >= 2 PROVE FALSE
      OBVIOUS
    <3>2. /\ 1 \in 1..n /\ 2 \in 1..n /\ n - 1 \in 1..n /\ n \in 1..n
          /\ n + 1 - 1 = n /\ n + 1 - 2 = n - 1
      BY <3>1
    <3>3. page[1].order = s + n /\ page[2].order = s + (n - 1)
      <4>1. page[1] = p[n + 1 - 1] /\ page[2] = p[n + 1 - 2]
        BY <2>4, <3>2
      <4>2. /\ p[n] = [order |-> s + n, final |-> Terminal(s + n)]
            /\ p[n - 1] = [order |-> s + (n - 1), final |-> Terminal(s + (n - 1))]
        BY <2>2, <3>2
      <4>3. p[n].order = s + n /\ p[n - 1].order = s + (n - 1)
        BY <4>2
      <4>. QED  BY <4>1, <4>3, <3>2
    <3>4. page[2].order > page[1].order
      BY <2>4, <3>2 DEF validatePage
    <3>. QED  BY <3>3, <3>4
  <2>7. n = 1
    BY <2>5, <2>6
  <2>8. page = p
    <3>1. p = [i \in 1..1 |-> p[i]]
      BY <2>2, <2>7 DEF Pages
    <3>2. page = [i \in 1..1 |-> p[i]]
      BY <2>3, <2>7
    <3>. QED  BY <3>1, <3>2
  <2>. QED  BY <2>2, <2>8
<1>. QED  BY <1>3, <1>4, <1>5, <1>6 DEF BadPages

\* Listing keeps the invariant: a page that is taken goes on after the durable
\* cursor.
LEMMA ListKeeps ==
  ASSUME IndInv, NEW h \in Grants, List(h), UNCHANGED journalVars
  PROVE  IndInv' /\ PromiseStep
<1>1. /\ work[h] \in Consumer /\ work[h].pass = "list" /\ call[h].pc = "none" /\ TypeOK
      /\ UNCHANGED <<saved, host, call, effects, evidence, late>>
  BY DEF List, journalVars, IndInv, TypeOK, CallInv
<1>2. /\ call \in [Grants -> Call] /\ host \in [Grants -> Host]
      /\ saved \in [order : Nat, epoch : Nat] /\ saved.order \in Nat /\ saved.order <= saved.order
      /\ saved.order <= accepted /\ (\A c \in 1..saved.order : Terminal(c))
      /\ work[h].cursor <= saved.order /\ accepted \in Nat
  BY <1>1, StreamAssumption DEF IndInv, TypeOK, CursorInv
<1>3. /\ EndPass(h) \in Consumer /\ EndPass(h).cursor = work[h].cursor /\ EndPass(h).consumed = 0
      /\ EndPass(h).pass = "idle"
  BY <1>1, EndPassIs
<1>4. ASSUME NEW w \in Consumer, PassStep(h, w), w.cursor <= saved.order,
             \/ w.consumed = 0 /\ w.pass = "idle"
             \/ w.consumed = saved.order /\ w.pass = "records" /\ PageFollows(w.page, saved.order)
      PROVE  IndInv' /\ PromiseStep
  <2>1. /\ w.consumed <= accepted /\ (\A c \in 1..w.consumed : Terminal(c))
        /\ w.pass \in {"records", "process"} => PageFollows(w.page, w.consumed)
    <3>1. CASE w.consumed = 0 /\ w.pass = "idle"
      BY <1>2, <3>1
    <3>2. CASE /\ w.consumed = saved.order /\ w.pass = "records"
               /\ PageFollows(w.page, saved.order)
      BY <1>2, <3>2
    <3>. QED  BY <1>4, <3>1, <3>2
  <2>2. call'[h].pc = "none"
    BY <1>1
  <2>. QED  BY <1>1, <1>2, <1>4, <2>1, <2>2, PassKeeps
<1>5. CASE PassStep(h, EndPass(h))
  BY <1>2, <1>3, <1>4, <1>5, Zenon
<1>6. ASSUME NEW page, page = ListOrdered(saved.order) \/ page \in BadPages(saved.order),
             PassStep(h, Takes(h, page))
      PROVE  IndInv' /\ PromiseStep
  <2>1. CASE validatePage(page, saved.order) /\ page # <<>>
    <3>1. page \in Pages /\ PageFollows(page, saved.order)
      BY <1>2, <1>6, <2>1, ValidPageFollows
    <3>2. PICK u : u = [work[h] EXCEPT !.pass = "records", !.page = page, !.consumed = saved.order]
      BY Zenon
    <3>3. "records" \in Passes
      BY DEF Passes
    <3>4. u \in Consumer
      BY <1>1, <1>2, <3>1, <3>2, <3>3, Zenon DEF Consumer
    <3>5. u.pass = "records" /\ u.page = page /\ u.consumed = saved.order
      BY <1>1, <3>2 DEF Consumer
    <3>6. PICK w : w = [u EXCEPT !.cursor = saved.order, !.loaded = TRUE]
      BY Zenon
    <3>7. w = Takes(h, page)
      BY <2>1, <3>2, <3>6 DEF Takes
    <3>8. TRUE \in BOOLEAN
      OBVIOUS
    <3>9. w \in Consumer
      BY <1>2, <3>4, <3>6, <3>8, Zenon DEF Consumer
    <3>10. /\ w.pass = "records" /\ w.page = page /\ w.consumed = saved.order
           /\ w.cursor = saved.order
      BY <3>4, <3>5, <3>6 DEF Consumer
    <3>. QED  BY <1>2, <1>4, <1>6, <3>1, <3>7, <3>9, <3>10
  <2>2. CASE ~(validatePage(page, saved.order) /\ page # <<>>)
    <3>1. PICK u : u = EndPass(h)
      BY Zenon
    <3>2. PICK w : w = [u EXCEPT !.cursor = saved.order, !.loaded = TRUE]
      BY Zenon
    <3>3. w = Takes(h, page)
      BY <2>2, <3>1, <3>2, Zenon DEF Takes
    <3>4. TRUE \in BOOLEAN
      OBVIOUS
    <3>5. w \in Consumer
      BY <1>2, <1>3, <3>1, <3>2, <3>4, Zenon DEF Consumer
    <3>6. w.pass = "idle" /\ w.consumed = 0 /\ w.cursor = saved.order
      BY <1>3, <3>1, <3>2 DEF Consumer
    <3>. QED  BY <1>2, <1>4, <1>6, <3>3, <3>5, <3>6
  <2>. QED  BY <2>1, <2>2
<1>. QED  BY <1>5, <1>6 DEF List
=============================================================================
