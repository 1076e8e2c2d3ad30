--------------------------- MODULE DispatchProofs ---------------------------
(* What the dispatch routes promise their clients, for any number of         *)
(* requests, any length of an answer, and whatever the services do.          *)
EXTENDS Dispatch, SequenceTheorems, TLAPS

(* What a client has, what the server holds back, and what is still to come. *)
Trail(r) == wire[r] \o held[r] \o todo[r]

(* The requests whose runs are in the session.                               *)
Stored == {runs[i].req : i \in 1..Len(runs)}

Clean(s)    == \A i \in 1..Len(s) : s[i] # "error"
Finished(s) == s # <<>> /\ s[Len(s)] = "done"
Told(s)     == \E i \in 1..Len(s) : s[i] = "error"

Run == [req : Requests, final : {"answer", "none", "prompt", "empty"}]

DispatchTyped ==
  /\ pc \in [Requests -> PC]
  /\ base \in [Requests -> Nat]
  /\ \A r \in Requests : base[r] <= Len(runs)
  /\ todo \in [Requests -> Seq(Event)]
  /\ \A r \in Requests : Len(todo[r]) <= MaxTokens + 4
  /\ held \in [Streams -> Seq(Event)]
  /\ wire \in [Streams -> Seq(Event)]
  /\ reply \in [Requests -> {"none", "ok"} \union Refused]
  /\ gone \subseteq Requests
  /\ broken \subseteq Streams
  /\ early \subseteq Requests
  /\ runs \in Seq(Run)
  /\ alerts \subseteq Requests
  /\ \A r \in Json : pc[r] \notin {"relay", "copy", "replay", "replay_error", "append_stream"}
  /\ \A r \in Streams : pc[r] \notin {"append_prompt", "append_empty"}

JsonInv(r) ==
  /\ pc[r] # "ended" => reply[r] = "none"
  /\ pc[r] = "reply" => r \in Stored
  /\ r \in Stored => pc[r] \in {"reply", "ended"}
  /\ reply[r] = "ok" => r \in Stored
  /\ pc[r] = "ended" /\ r \notin gone =>
       \/ reply[r] = "ok" /\ r \in Stored
       \/ reply[r] = "dropped" /\ r \notin Stored
       \/ reply[r] \in {"budget_exceeded", "unavailable"} /\ r \in alerts /\ r \notin Stored

StreamInv(r) ==
  /\ r \in Stored => pc[r] \in {"reply", "ended"}
  /\ pc[r] = "reply" => r \in Stored
  /\ pc[r] \in {"execute", "replay", "replay_error", "append"} => r \in alerts
  /\ r \notin gone =>
       /\ pc[r] \in {"unsent", "prompt", "gate", "relay"} => Trail(r) = <<>>
       /\ pc[r] \in {"copy", "replay"} => Clean(Trail(r)) /\ Finished(Trail(r))
       /\ pc[r] \in {"append_stream", "append", "reply"} =>
            todo[r] = <<>> /\ Clean(Trail(r)) /\ Finished(Trail(r))
       /\ pc[r] = "execute" => todo[r] = <<>> /\ Clean(Trail(r))
       /\ pc[r] = "replay_error" => Told(Trail(r)) /\ (todo[r] = <<>> => held[r] = <<>>)
       /\ pc[r] = "ended" =>
            \/ Clean(wire[r]) /\ Finished(wire[r]) /\ r \in Stored
            \/ Told(wire[r]) /\ r \in alerts /\ r \notin Stored
            \/ wire[r] = <<>> /\ reply[r] = "budget_exceeded" /\ r \in alerts /\ r \notin Stored

RequestInv(r) == /\ r \in Json => JsonInv(r)
                 /\ r \in Streams => StreamInv(r)

NoRunTwice == \A i, j \in 1..Len(runs) : runs[i].req = runs[j].req => i = j

DispatchInv == DispatchTyped /\ NoRunTwice /\ \A r \in Requests : RequestInv(r)

(* The requests whose runs are among the first n of the session.             *)
StoredBy(n) == {runs[i].req : i \in 1..n}

(* A turn sent in time is preceded by the runs it follows.                   *)
FollowInv ==
  \A r \in Requests \ early :
    /\ pc[r] = "prompt" => Before[r] \subseteq Stored
    /\ pc[r] \notin {"unsent", "prompt"} => Before[r] \subseteq StoredBy(base[r])

InOrder(s) == Contract!InOrder(s)

Allowed(s) == Contract!Allowed(s)

(* A stream is broken off once, before its answer is prepared; what it shows *)
(* then is the beginning of one answer and after it another.                 *)
OrderInv ==
  /\ \A r \in broken : pc[r] \notin {"unsent", "prompt", "gate", "relay", "copy"}
  /\ \A r \in Streams \ gone :
       /\ IF r \in broken THEN Allowed(Trail(r)) ELSE InOrder(Trail(r))
       /\ pc[r] = "execute" => IF r \in broken THEN InOrder(Trail(r)) ELSE Trail(r) = <<>>
------------------------------------------------------------------------------
(* What the lemmas below need of sequences of events.                        *)
LEMMA EventsConcat ==
  /\ \A s, t \in Seq(Event) :
       /\ s \o t \in Seq(Event)
       /\ Len(s \o t) = Len(s) + Len(t)
       /\ \A i \in 1..(Len(s) + Len(t)) :
            (s \o t)[i] = IF i <= Len(s) THEN s[i] ELSE t[i - Len(s)]
  /\ \A s, t, u \in Seq(Event) : (s \o t) \o u = s \o (t \o u)
<1>1. ASSUME NEW s \in Seq(Event), NEW t \in Seq(Event)
      PROVE  /\ s \o t \in Seq(Event)
             /\ Len(s \o t) = Len(s) + Len(t)
             /\ \A i \in 1..(Len(s) + Len(t)) :
                  (s \o t)[i] = IF i <= Len(s) THEN s[i] ELSE t[i - Len(s)]
  BY ConcatProperties
<1>2. ASSUME NEW s \in Seq(Event), NEW t \in Seq(Event), NEW u \in Seq(Event)
      PROVE  (s \o t) \o u = s \o (t \o u)
  BY ConcatAssociative
<1> QED
  BY <1>1, <1>2

(* The events of an answer, one by one.                                      *)
LEMMA FlatEvents ==
  ASSUME NEW n \in Nat
  PROVE  /\ Flat(n) \in Seq(Event)
         /\ Len(Flat(n)) = n + 4
         /\ Flat(n)[1] = "session"
         /\ \A i \in 2..(n + 1) : Flat(n)[i] = "token"
         /\ Flat(n)[n + 2] = "agent_done"
         /\ Flat(n)[n + 3] = "metrics"
         /\ Flat(n)[n + 4] = "done"
<1> DEFINE a == <<"session">>
           b == [i \in 1..n |-> "token"]
           c == <<"agent_done", "metrics", "done">>
<1>1. /\ a \in Seq(Event) /\ Len(a) = 1 /\ a[1] = "session"
  BY DEF Event
<1>2. /\ b \in Seq(Event) /\ Len(b) = n /\ \A i \in 1..n : b[i] = "token"
  BY DEF Event
<1>3. /\ c \in Seq(Event) /\ Len(c) = 3
      /\ c[1] = "agent_done" /\ c[2] = "metrics" /\ c[3] = "done"
  BY DEF Event
<1>4. Flat(n) = a \o b \o c
  BY DEF Flat
<1> HIDE DEF a, b, c
<1>5. /\ a \o b \in Seq(Event) /\ Len(a \o b) = n + 1
      /\ (a \o b)[1] = "session"
      /\ \A i \in 2..(n + 1) : (a \o b)[i] = "token"
  <2>1. /\ a \o b \in Seq(Event)
        /\ Len(a \o b) = Len(a) + Len(b)
        /\ \A i \in 1..(Len(a) + Len(b)) : (a \o b)[i] = IF i <= Len(a) THEN a[i] ELSE b[i - Len(a)]
    BY <1>1, <1>2, EventsConcat
  <2> QED
    BY <1>1, <1>2, <2>1
<1>6a. /\ a \o b \o c \in Seq(Event)
       /\ Len(a \o b \o c) = Len(a \o b) + Len(c)
       /\ \A i \in 1..(Len(a \o b) + Len(c)) :
            (a \o b \o c)[i] = IF i <= Len(a \o b) THEN (a \o b)[i] ELSE c[i - Len(a \o b)]
  BY <1>3, <1>5, EventsConcat
<1>6. /\ a \o b \o c \in Seq(Event)
      /\ Len(a \o b \o c) = n + 1 + 3
      /\ \A i \in 1..(n + 1 + 3) :
           (a \o b \o c)[i] = IF i <= n + 1 THEN (a \o b)[i] ELSE c[i - (n + 1)]
  BY <1>3, <1>5, <1>6a
<1>7. /\ (a \o b \o c)[n + 2] = c[1] /\ (a \o b \o c)[n + 3] = c[2] /\ (a \o b \o c)[n + 4] = c[3]
  <2>1. ASSUME NEW i \in Int, NEW j \in 1..3, i = n + 1 + j
        PROVE  (a \o b \o c)[i] = c[j]
    <3>1. i \in 1..(n + 1 + 3) /\ ~(i <= n + 1)
      BY <2>1
    <3>2. i - (n + 1) = j
      BY <2>1
    <3> QED
      BY <1>6, <3>1, <3>2
  <2>2. n + 2 = n + 1 + 1 /\ n + 3 = n + 1 + 2 /\ n + 4 = n + 1 + 3
    OBVIOUS
  <2>3. /\ n + 2 \in Int /\ n + 3 \in Int /\ n + 4 \in Int
        /\ 1 \in 1..3 /\ 2 \in 1..3 /\ 3 \in 1..3
    OBVIOUS
  <2> QED
    BY <2>1, <2>2, <2>3
<1>8. /\ (a \o b \o c)[1] = "session"
      /\ \A i \in 2..(n + 1) : (a \o b \o c)[i] = "token"
  BY <1>5, <1>6
<1>9. /\ Len(a \o b \o c) = n + 4
      /\ (a \o b \o c)[n + 2] = "agent_done"
      /\ (a \o b \o c)[n + 3] = "metrics"
      /\ (a \o b \o c)[n + 4] = "done"
  BY <1>3, <1>6, <1>7
<1> QED
  BY <1>4, <1>6, <1>8, <1>9

(* The events of a failure, one by one.                                      *)
LEMMA FailureEvents ==
  /\ Failure \in Seq(Event) /\ Len(Failure) = 3
  /\ Failure[1] = "session" /\ Failure[2] = "error" /\ Failure[3] = "done"
<1> QED
  BY DEF Failure, Event

(* Sending a part of what was written moves events, and loses none.          *)
LEMMA SplitAnywhere ==
  ASSUME NEW w \in Seq(Event), NEW h \in Seq(Event), NEW t \in Seq(Event), NEW k \in 0..Len(h)
  PROVE  /\ SubSeq(h, 1, k) \in Seq(Event)
         /\ SubSeq(h, k + 1, Len(h)) \in Seq(Event)
         /\ (w \o SubSeq(h, 1, k)) \o SubSeq(h, k + 1, Len(h)) \o t = w \o h \o t
<1> DEFINE x == SubSeq(h, 1, k)
           y == SubSeq(h, k + 1, Len(h))
<1>0. Len(h) \in Nat /\ k \in Int
  BY LenProperties
<1>1. x \in Seq(Event) /\ y \in Seq(Event)
  <2>1. \A i \in 1..k : h[i] \in Event
    BY <1>0, ElementOfSeq
  <2>2. \A i \in (k + 1)..Len(h) : h[i] \in Event
    BY <1>0, ElementOfSeq
  <2>3. x \in Seq(Event)
    BY <1>0, <2>1, SubSeqProperties
  <2>4. y \in Seq(Event)
    BY <1>0, <2>2, SubSeqProperties
  <2> QED
    BY <2>3, <2>4
<1>2. x \o y = h
  <2>1. 1 \in 1..(Len(h) + 1) /\ k \in 1 - 1 .. Len(h) /\ Len(h) \in k..Len(h)
    BY <1>0
  <2>2. x \o y = SubSeq(h, 1, Len(h))
    BY <2>1, ConcatAdjacentSubSeq
  <2> QED
    BY <2>2, SubSeqFull
<1> HIDE DEF x, y
<1>3. (w \o x) \o y = w \o (x \o y)
  BY <1>1, EventsConcat, Zenon
<1> QED
  BY <1>1, <1>2, <1>3 DEF x, y

(* Writing the next event moves it from what is to come to what was written. *)
LEMMA NextWritten ==
  ASSUME NEW h \in Seq(Event), NEW t \in Seq(Event), t # <<>>
  PROVE  /\ Append(h, Head(t)) \in Seq(Event)
         /\ Len(Append(h, Head(t))) = Len(h) + 1
         /\ Tail(t) \in Seq(Event)
         /\ Len(Tail(t)) = Len(t) - 1
         /\ Append(h, Head(t)) \o Tail(t) = h \o t
<1>1. Head(t) \in Event /\ Tail(t) \in Seq(Event) /\ Len(Tail(t)) = Len(t) - 1
  BY HeadTailProperties
<1>2. Append(h, Head(t)) \in Seq(Event) /\ Len(Append(h, Head(t))) = Len(h) + 1
  BY <1>1, AppendProperties
<1>3. Append(h, Head(t)) \o Tail(t) = h \o t
  <2>1. <<Head(t)>> \in Seq(Event)
    BY <1>1
  <2>2. Append(h, Head(t)) = h \o <<Head(t)>>
    BY <1>1, AppendIsConcat
  <2>3. <<Head(t)>> \o Tail(t) = t
    BY <1>1
  <2>4. (h \o <<Head(t)>>) \o Tail(t) = h \o (<<Head(t)>> \o Tail(t))
    BY <1>1, <2>1, EventsConcat, Zenon
  <2> QED
    BY <2>2, <2>3, <2>4
<1> QED
  BY <1>1, <1>2, <1>3
------------------------------------------------------------------------------
(* What is written and not delivered is held; for a client that is still     *)
(* there, nothing is lost and nothing changes its place.                     *)
LEMMA Delivered ==
  ASSUME DispatchTyped, NEW r \in Streams, NEW h \in Seq(Event), NEW k \in 0..Len(h),
         Deliver(r, h, k)
  PROVE  /\ held' \in [Streams -> Seq(Event)]
         /\ wire' \in [Streams -> Seq(Event)]
         /\ \A q \in Streams \ {r} : held'[q] = held[q] /\ wire'[q] = wire[q]
         /\ r \in gone => wire' = wire
         /\ r \notin gone =>
              /\ \E x \in Seq(Event) : wire'[r] = wire[r] \o x
              /\ \A t \in Seq(Event) : wire'[r] \o held'[r] \o t = wire[r] \o h \o t
         /\ k = Len(h) => held'[r] = <<>>
<1> DEFINE x == SubSeq(h, 1, k)
           y == SubSeq(h, k + 1, Len(h))
<1>1. held \in [Streams -> Seq(Event)] /\ wire \in [Streams -> Seq(Event)]
  BY DEF DispatchTyped
<1>2. x \in Seq(Event) /\ y \in Seq(Event)
  BY SplitAnywhere, EmptySeq
<1>3. \A t \in Seq(Event) : (wire[r] \o x) \o y \o t = wire[r] \o h \o t
  BY <1>1, SplitAnywhere
<1>4. k = Len(h) => y = <<>>
  <2>1. Len(h) \in Nat
    BY LenProperties
  <2> QED
    BY <2>1, SubSeqEmpty
<1>5. /\ held' = [held EXCEPT ![r] = y]
      /\ wire' = IF r \in gone THEN wire ELSE [wire EXCEPT ![r] = wire[r] \o x]
  BY DEF Deliver
<1> HIDE DEF x, y
<1>6. wire[r] \o x \in Seq(Event)
  BY <1>1, <1>2, EventsConcat
<1> QED
  BY <1>1, <1>2, <1>3, <1>4, <1>5, <1>6

(* An event on its way leaves the trail of a stream as it is.                *)
LEMMA EventSent ==
  ASSUME DispatchTyped, NEW r \in Streams, CopyEvent(r) \/ EmitEvent(r)
  PROVE  /\ held' \in [Streams -> Seq(Event)]
         /\ wire' \in [Streams -> Seq(Event)]
         /\ todo' \in [Requests -> Seq(Event)]
         /\ Len(todo'[r]) <= MaxTokens + 4
         /\ \A q \in Streams \ {r} : held'[q] = held[q] /\ wire'[q] = wire[q]
         /\ \A q \in Requests \ {r} : todo'[q] = todo[q]
         /\ r \in gone => wire' = wire
         /\ r \notin gone =>
              /\ \E x \in Seq(Event) : wire'[r] = wire[r] \o x
              /\ Trail(r)' = Trail(r)
         /\ EmitEvent(r) => held'[r] = <<>>
<1> DEFINE h == Append(held[r], Head(todo[r]))
<1>1. /\ held[r] \in Seq(Event) /\ wire[r] \in Seq(Event) /\ todo[r] \in Seq(Event)
      /\ todo \in [Requests -> Seq(Event)] /\ r \in Requests
      /\ Len(todo[r]) <= MaxTokens + 4
  BY DEF DispatchTyped, Requests
<1>2. todo[r] # <<>> /\ todo' = [todo EXCEPT ![r] = Tail(todo[r])]
  BY DEF CopyEvent, EmitEvent
<1>3. /\ h \in Seq(Event)
      /\ Len(h) = Len(held[r]) + 1
      /\ Tail(todo[r]) \in Seq(Event)
      /\ Len(Tail(todo[r])) = Len(todo[r]) - 1
      /\ wire[r] \o h \o Tail(todo[r]) = Trail(r)
  <2> DEFINE w == wire[r]
             g == held[r]
             t == todo[r]
  <2>1. w \in Seq(Event) /\ g \in Seq(Event) /\ t \in Seq(Event) /\ t # <<>>
    BY <1>1, <1>2
  <2> HIDE DEF w, g, t
  <2>2. /\ Append(g, Head(t)) \in Seq(Event)
        /\ Len(Append(g, Head(t))) = Len(g) + 1
        /\ Tail(t) \in Seq(Event)
        /\ Len(Tail(t)) = Len(t) - 1
        /\ w \o Append(g, Head(t)) \o Tail(t) = w \o g \o t
    <3>1. Append(g, Head(t)) \in Seq(Event)
      BY <2>1, NextWritten
    <3>2. Len(Append(g, Head(t))) = Len(g) + 1
      BY <2>1, NextWritten
    <3>3. Tail(t) \in Seq(Event)
      BY <2>1, NextWritten
    <3>4. Len(Tail(t)) = Len(t) - 1
      BY <2>1, NextWritten
    <3>5. Append(g, Head(t)) \o Tail(t) = g \o t
      BY <2>1, NextWritten
    <3>6. (w \o Append(g, Head(t))) \o Tail(t) = w \o (Append(g, Head(t)) \o Tail(t))
      BY <2>1, <3>1, <3>3, EventsConcat, Zenon
    <3>7. (w \o g) \o t = w \o (g \o t)
      BY <2>1, EventsConcat, Zenon
    <3> QED
      BY <3>1, <3>2, <3>3, <3>4, <3>5, <3>6, <3>7
  <2> QED
    BY <2>2 DEF Trail, w, g, t
<1>4. Len(h) \in Nat /\ Len(held[r]) \in Nat /\ Len(todo[r]) \in Nat /\ MaxTokens \in Nat
  BY <1>1, <1>3, LenProperties, TokensAssumption
<1>5. PICK k \in 0..Len(h) : Deliver(r, h, k) /\ (EmitEvent(r) => k = Len(h))
  <2>1. CASE CopyEvent(r)
    <3>1. ~EmitEvent(r)
      BY <2>1 DEF CopyEvent, EmitEvent
    <3>2. \E k \in 0..(Len(held[r]) + 1) : Deliver(r, h, k)
      BY <2>1 DEF CopyEvent
    <3> QED
      BY <1>3, <3>1, <3>2
  <2>2. CASE EmitEvent(r)
    <3>1. Deliver(r, h, Len(held[r]) + 1)
      BY <2>2 DEF EmitEvent
    <3> QED
      BY <1>3, <1>4, <3>1
  <2> QED
    BY <2>1, <2>2
<1> HIDE DEF h
<1>6. /\ held' \in [Streams -> Seq(Event)]
      /\ wire' \in [Streams -> Seq(Event)]
      /\ \A q \in Streams \ {r} : held'[q] = held[q] /\ wire'[q] = wire[q]
      /\ r \in gone => wire' = wire
      /\ r \notin gone =>
           /\ \E x \in Seq(Event) : wire'[r] = wire[r] \o x
           /\ \A t \in Seq(Event) : wire'[r] \o held'[r] \o t = wire[r] \o h \o t
      /\ EmitEvent(r) => held'[r] = <<>>
  BY <1>3, <1>5, Delivered
<1>7. /\ todo' \in [Requests -> Seq(Event)]
      /\ todo'[r] = Tail(todo[r])
      /\ \A q \in Requests \ {r} : todo'[q] = todo[q]
  BY <1>1, <1>2, <1>3
<1>8. Len(todo'[r]) <= MaxTokens + 4
  BY <1>1, <1>3, <1>4, <1>7
<1>9. r \notin gone => Trail(r)' = Trail(r)
  BY <1>3, <1>6, <1>7 DEF Trail
<1> QED
  BY <1>6, <1>7, <1>8, <1>9
------------------------------------------------------------------------------
(* The types, and which stations are only for one kind of request.           *)
LEMMA TypedInit == Init => DispatchTyped
<1> SUFFICES ASSUME Init PROVE DispatchTyped
  OBVIOUS
<1>1. <<>> \in Seq(Event) /\ Len(<<>>) = 0 /\ <<>> \in Seq(Run)
  BY EmptySeq
<1>2. MaxTokens \in Nat
  BY TokensAssumption
<1>3. /\ pc \in [Requests -> PC] /\ base \in [Requests -> Nat]
      /\ broken \subseteq Streams /\ early \subseteq Requests
      /\ \A r \in Requests : base[r] <= Len(runs)
      /\ todo \in [Requests -> Seq(Event)]
      /\ held \in [Streams -> Seq(Event)] /\ wire \in [Streams -> Seq(Event)]
      /\ reply \in [Requests -> {"none", "ok"} \union Refused]
      /\ gone \subseteq Requests /\ runs \in Seq(Run) /\ alerts \subseteq Requests
  BY <1>1 DEF Init, PC
<1>4. \A r \in Requests : Len(todo[r]) <= MaxTokens + 4
  BY <1>1, <1>2 DEF Init
<1> QED
  BY <1>3, <1>4 DEF DispatchTyped, Init, Requests

(* What a handler is to send is an answer or an error.                       *)
LEMMA Prepared ==
  ASSUME DispatchTyped, NEW r \in Requests,
         \/ \E n \in 0..MaxTokens : todo' = [todo EXCEPT ![r] = Flat(n)]
         \/ todo' = [todo EXCEPT ![r] = Failure]
         \/ todo' = [todo EXCEPT ![r] = <<>>]
         \/ todo' = todo
  PROVE  /\ todo' \in [Requests -> Seq(Event)]
         /\ \A q \in Requests : Len(todo'[q]) <= MaxTokens + 4
<1>1. /\ todo \in [Requests -> Seq(Event)]
      /\ \A q \in Requests : Len(todo[q]) <= MaxTokens + 4
      /\ MaxTokens \in Nat
  BY TokensAssumption DEF DispatchTyped
<1>2. CASE \E n \in 0..MaxTokens : todo' = [todo EXCEPT ![r] = Flat(n)]
  <2>1. PICK n \in 0..MaxTokens : todo' = [todo EXCEPT ![r] = Flat(n)]
    BY <1>2
  <2>2. n \in Nat /\ n + 4 <= MaxTokens + 4
    BY <1>1
  <2>3. Flat(n) \in Seq(Event) /\ Len(Flat(n)) = n + 4
    BY <2>2, FlatEvents
  <2> QED
    BY <1>1, <2>1, <2>2, <2>3
<1>3. CASE todo' = [todo EXCEPT ![r] = Failure]
  <2>1. Failure \in Seq(Event) /\ Len(Failure) <= MaxTokens + 4
    BY <1>1, FailureEvents
  <2> QED
    BY <1>1, <1>3, <2>1
<1>4. CASE todo' = [todo EXCEPT ![r] = <<>>]
  <2>1. <<>> \in Seq(Event) /\ Len(<<>>) = 0
    BY EmptySeq
  <2> QED
    BY <1>1, <1>4, <2>1
<1>5. CASE todo' = todo
  BY <1>1, <1>5
<1> QED
  BY <1>2, <1>3, <1>4, <1>5

(* A run is stored at the end of the document.                               *)
LEMMA RunAppended ==
  ASSUME DispatchTyped, NEW r \in Requests, pc[r] \in DOMAIN Final,
         runs' = Append(runs, [req |-> r, final |-> Final[pc[r]]])
  PROVE  /\ runs' \in Seq(Run)
         /\ Len(runs) \in Nat
         /\ Len(runs') = Len(runs) + 1
         /\ \A i \in 1..Len(runs) : runs'[i].req = runs[i].req
         /\ runs'[Len(runs) + 1].req = r
<1>1. DOMAIN Final = {"append", "append_stream", "append_prompt", "append_empty"}
  BY DEF Final
<1>2. Final[pc[r]] \in {"answer", "none", "prompt", "empty"}
  BY <1>1 DEF Final
<1>3. [req |-> r, final |-> Final[pc[r]]] \in Run
  BY <1>2 DEF Run
<1>4. runs \in Seq(Run)
  BY DEF DispatchTyped
<1> QED
  BY <1>3, <1>4, AppendProperties

(* With its handler the response of a stream ends, and what it held is sent. *)
LEMMA ResponseEnds ==
  ASSUME DispatchTyped, NEW r \in Streams, Respond(r)
  PROVE  /\ held' \in [Streams -> Seq(Event)]
         /\ wire' \in [Streams -> Seq(Event)]
         /\ \A q \in Streams \ {r} : held'[q] = held[q] /\ wire'[q] = wire[q]
         /\ r \in gone => wire' = wire
         /\ r \notin gone =>
              /\ \E x \in Seq(Event) : wire'[r] = wire[r] \o x
              /\ \A t \in Seq(Event) : wire'[r] \o held'[r] \o t = wire[r] \o held[r] \o t
         /\ held'[r] = <<>>
<1>1. held[r] \in Seq(Event)
  BY DEF DispatchTyped
<1>2. Deliver(r, held[r], Len(held[r]))
  BY KindAssumption DEF Respond
<1>3. Len(held[r]) \in 0..Len(held[r])
  BY <1>1, LenProperties
<1> QED
  BY <1>1, <1>2, <1>3, Delivered

(* Every step keeps the types.                                               *)
LEMMA TypedStep == DispatchTyped /\ [Next]_dvars => DispatchTyped'
<1> SUFFICES ASSUME DispatchTyped, [Next]_dvars PROVE DispatchTyped'
  OBVIOUS
<1> USE DEF Goto, Answer
<1>0. /\ pc \in [Requests -> PC]
      /\ base \in [Requests -> Nat]
      /\ \A r \in Requests : base[r] <= Len(runs)
      /\ todo \in [Requests -> Seq(Event)]
      /\ \A r \in Requests : Len(todo[r]) <= MaxTokens + 4
      /\ held \in [Streams -> Seq(Event)]
      /\ wire \in [Streams -> Seq(Event)]
      /\ reply \in [Requests -> {"none", "ok"} \union Refused]
      /\ gone \subseteq Requests
      /\ broken \subseteq Streams
      /\ early \subseteq Requests
      /\ runs \in Seq(Run)
      /\ alerts \subseteq Requests
      /\ \A r \in Json : pc[r] \notin {"relay", "copy", "replay", "replay_error", "append_stream"}
      /\ \A r \in Streams : pc[r] \notin {"append_prompt", "append_empty"}
  BY DEF DispatchTyped
<1>1. /\ pc' \in [Requests -> PC]
      /\ base' \in [Requests -> Nat]
      /\ \A r \in Requests : base'[r] <= Len(runs')
      /\ todo' \in [Requests -> Seq(Event)]
      /\ \A r \in Requests : Len(todo'[r]) <= MaxTokens + 4
      /\ held' \in [Streams -> Seq(Event)]
      /\ wire' \in [Streams -> Seq(Event)]
      /\ reply' \in [Requests -> {"none", "ok"} \union Refused]
      /\ gone' \subseteq Requests
      /\ broken' \subseteq Streams
      /\ early' \subseteq Requests
      /\ runs' \in Seq(Run)
      /\ alerts' \subseteq Requests
      /\ \A r \in Json : pc'[r] \notin {"relay", "copy", "replay", "replay_error", "append_stream"}
      /\ \A r \in Streams : pc'[r] \notin {"append_prompt", "append_empty"}
      => DispatchTyped'
  BY DEF DispatchTyped
<1> USE DEF Requests
<1>2. ASSUME NEW r \in Requests, Send(r) PROVE DispatchTyped'
  BY <1>0, <1>1, <1>2 DEF Send, PC
<1>3. ASSUME NEW r \in Requests, Leave(r) PROVE DispatchTyped'
  BY <1>0, <1>1, <1>3 DEF Leave
<1>4. ASSUME NEW r \in Requests, BuildPrompt(r) PROVE DispatchTyped'
  <2>1. Len(runs) \in Nat
    BY <1>0, LenProperties
  <2>2. base' \in [Requests -> Nat] /\ \A q \in Requests : base'[q] <= Len(runs)
    BY <1>0, <1>4, <2>1 DEF BuildPrompt
  <2> QED
    BY <1>0, <1>1, <1>4, <2>2 DEF BuildPrompt, PC
<1>5. ASSUME NEW r \in Requests, Admit(r) \/ Deny(r) PROVE DispatchTyped'
  BY <1>0, <1>1, <1>5, KindAssumption DEF Admit, Deny, PC, Refused
<1>6. ASSUME NEW r \in Requests, RelayBegins(r) PROVE DispatchTyped'
  <2>1. /\ todo' \in [Requests -> Seq(Event)]
        /\ \A q \in Requests : Len(todo'[q]) <= MaxTokens + 4
    BY <1>6, Prepared DEF RelayBegins
  <2> QED
    BY <1>0, <1>1, <1>6, <2>1, KindAssumption DEF RelayBegins, PC
<1>7. ASSUME NEW r \in Requests, RelayRefused(r) PROVE DispatchTyped'
  BY <1>0, <1>1, <1>7, KindAssumption DEF RelayRefused, PC
<1>8. ASSUME NEW r \in Requests, CopyEvent(r) \/ EmitEvent(r) PROVE DispatchTyped'
  <2>1. r \in Streams
    BY <1>0, <1>8 DEF CopyEvent, EmitEvent
  <2>2. /\ held' \in [Streams -> Seq(Event)]
        /\ wire' \in [Streams -> Seq(Event)]
        /\ todo' \in [Requests -> Seq(Event)]
        /\ Len(todo'[r]) <= MaxTokens + 4
        /\ \A q \in Requests \ {r} : todo'[q] = todo[q]
    BY <1>8, <2>1, EventSent
  <2>3. \A q \in Requests : Len(todo'[q]) <= MaxTokens + 4
    BY <1>0, <2>2
  <2>4. UNCHANGED <<pc, base, reply, gone, broken, early, runs, alerts>>
    BY <1>8 DEF CopyEvent, EmitEvent
  <2> QED
    BY <1>0, <1>1, <2>2, <2>3, <2>4
<1>9. ASSUME NEW r \in Requests, CopyEnds(r) \/ CopyFails(r) PROVE DispatchTyped'
  <2>1. /\ todo' \in [Requests -> Seq(Event)]
        /\ \A q \in Requests : Len(todo'[q]) <= MaxTokens + 4
    BY <1>9, Prepared DEF CopyEnds, CopyFails
  <2> QED
    BY <1>0, <1>1, <1>9, <2>1, KindAssumption DEF CopyEnds, CopyFails, PC
<1>10. ASSUME NEW r \in Requests,
              Executed(r) \/ ExecutedEmpty(r) \/ ExecuteFails(r) \/ ExecutedNull(r)
       PROVE  DispatchTyped'
  <2>1. \/ \E n \in 0..MaxTokens : todo' = [todo EXCEPT ![r] = Flat(n)]
        \/ todo' = [todo EXCEPT ![r] = Failure]
        \/ todo' = todo
    <3>1. \A n \in 1..MaxTokens : n \in 0..MaxTokens
      BY TokensAssumption
    <3>2. Executed(r) => \/ todo' = todo
                         \/ \E n \in 1..MaxTokens : todo' = [todo EXCEPT ![r] = Flat(n)]
      BY DEF Executed
    <3>3. ExecutedEmpty(r) \/ ExecuteFails(r) \/ ExecutedNull(r) =>
            todo' = todo \/ todo' = [todo EXCEPT ![r] = Failure]
      BY DEF ExecutedEmpty, ExecuteFails, ExecutedNull
    <3> QED
      BY <1>10, <3>1, <3>2, <3>3
  <2>2. /\ todo' \in [Requests -> Seq(Event)]
        /\ \A q \in Requests : Len(todo'[q]) <= MaxTokens + 4
    BY <2>1, Prepared
  <2>3. reply' \in [Requests -> {"none", "ok"} \union Refused]
    BY <1>0, <1>10 DEF Executed, ExecutedEmpty, ExecuteFails, ExecutedNull, Refused
  <2>4. UNCHANGED <<base, held, wire, gone, broken, early, runs>> /\ alerts' \subseteq Requests
    BY <1>0, <1>10 DEF Executed, ExecutedEmpty, ExecuteFails, ExecutedNull
  <2>5. \/ r \in Json /\ \E l \in {"append", "append_prompt", "append_empty", "ended"} : pc' = [pc EXCEPT ![r] = l]
        \/ r \notin Json /\ \E l \in {"replay", "replay_error"} : pc' = [pc EXCEPT ![r] = l]
    BY <1>10 DEF Executed, ExecutedEmpty, ExecuteFails, ExecutedNull
  <2>6. /\ pc' \in [Requests -> PC]
        /\ \A q \in Json : pc'[q] \notin {"relay", "copy", "replay", "replay_error", "append_stream"}
        /\ \A q \in Streams : pc'[q] \notin {"append_prompt", "append_empty"}
    BY <1>0, <2>5, KindAssumption DEF PC
  <2> QED
    BY <1>0, <1>1, <2>2, <2>3, <2>4, <2>6
<1>11. ASSUME NEW r \in Requests, EmitEnds(r) \/ EmitFails(r) PROVE DispatchTyped'
  <2>1. /\ todo' \in [Requests -> Seq(Event)]
        /\ \A q \in Requests : Len(todo'[q]) <= MaxTokens + 4
    BY <1>11, Prepared DEF EmitEnds, EmitFails
  <2> QED
    BY <1>0, <1>1, <1>11, <2>1 DEF EmitEnds, EmitFails, PC
<1>12. ASSUME NEW r \in Requests, Persist(r) PROVE DispatchTyped'
  <2>1. runs' \in Seq(Run) /\ Len(runs) \in Nat /\ Len(runs') = Len(runs) + 1
    BY <1>12, RunAppended DEF Persist
  <2>2. pc' = [pc EXCEPT ![r] = "reply"]
        /\ UNCHANGED <<base, todo, held, wire, reply, gone, broken, early, alerts>>
    BY <1>12 DEF Persist
  <2>3. \A q \in Requests : base[q] <= Len(runs')
    BY <1>0, <2>1
  <2> QED
    BY <1>0, <1>1, <2>1, <2>2, <2>3 DEF PC
<1>13. ASSUME NEW r \in Requests, Respond(r) PROVE DispatchTyped'
  <2>1. held' \in [Streams -> Seq(Event)] /\ wire' \in [Streams -> Seq(Event)]
    <3>1. CASE r \in Json
      BY <1>0, <1>13, <3>1 DEF Respond
    <3>2. CASE r \in Streams
      BY <1>13, <3>2, ResponseEnds
    <3> QED
      BY <3>1, <3>2
  <2>2. /\ pc' = [pc EXCEPT ![r] = "ended"]
        /\ reply' = reply \/ \E x \in {"ok", reply[r]} : reply' = [reply EXCEPT ![r] = x]
        /\ UNCHANGED <<base, todo, gone, broken, early, runs, alerts>>
    BY <1>13 DEF Respond
  <2> QED
    BY <1>0, <1>1, <2>1, <2>2 DEF PC
<1>14. CASE UNCHANGED dvars
  BY <1>0, <1>1, <1>14 DEF dvars
<1> QED
  BY <1>2, <1>3, <1>4, <1>5, <1>6, <1>7, <1>8, <1>9, <1>10, <1>11, <1>12, <1>13, <1>14
     DEF Next, Handle

(* Everything has its type, and no handler has more to send than an answer.  *)
THEOREM DispatchTypes == Spec => []TypeOK
<1>1. DispatchTyped => TypeOK
  <2> SUFFICES ASSUME DispatchTyped PROVE TypeOK
    OBVIOUS
  <2>1. Len(runs) \in Nat
    BY LenProperties DEF DispatchTyped
  <2>2. base \in [Requests -> 0..Len(runs)]
    BY <2>1 DEF DispatchTyped
  <2> QED
    BY <2>2 DEF DispatchTyped, TypeOK, Run
<1> QED
  BY <1>1, TypedInit, TypedStep, PTL DEF Spec
------------------------------------------------------------------------------
(* Errors and ends of a longer sequence.                                     *)
LEMMA Longer ==
  ASSUME NEW s \in Seq(Event), NEW t \in Seq(Event)
  PROVE  /\ Clean(s) /\ Clean(t) => Clean(s \o t)
         /\ Finished(t) => Finished(s \o t)
         /\ Told(t) => Told(s \o t)
<1>1. /\ s \o t \in Seq(Event)
      /\ Len(s \o t) = Len(s) + Len(t)
      /\ \A i \in 1..(Len(s) + Len(t)) :
           (s \o t)[i] = IF i <= Len(s) THEN s[i] ELSE t[i - Len(s)]
  BY EventsConcat
<1>2. Len(s) \in Nat /\ Len(t) \in Nat
  BY LenProperties
<1>3. \A i \in 1..Len(t) : /\ i + Len(s) \in 1..Len(s \o t)
                           /\ (s \o t)[i + Len(s)] = t[i]
  <2> SUFFICES ASSUME NEW i \in 1..Len(t)
               PROVE  /\ i + Len(s) \in 1..Len(s \o t)
                      /\ (s \o t)[i + Len(s)] = t[i]
    OBVIOUS
  <2>1. /\ i + Len(s) \in 1..(Len(s) + Len(t)) /\ ~(i + Len(s) <= Len(s))
        /\ i + Len(s) - Len(s) = i
    BY <1>2
  <2> QED
    BY <1>1, <2>1
<1>4. ASSUME Clean(s), Clean(t) PROVE Clean(s \o t)
  <2> SUFFICES ASSUME NEW i \in 1..(Len(s) + Len(t)) PROVE (s \o t)[i] # "error"
    BY <1>1 DEF Clean
  <2>1. CASE i <= Len(s)
    <3>1. i \in 1..Len(s)
      BY <1>2, <2>1
    <3> QED
      BY <1>1, <1>4, <2>1, <3>1 DEF Clean
  <2>2. CASE ~(i <= Len(s))
    <3>1. i - Len(s) \in 1..Len(t)
      BY <1>2, <2>2
    <3> QED
      BY <1>1, <1>4, <2>2, <3>1 DEF Clean
  <2> QED
    BY <2>1, <2>2
<1>5. ASSUME Finished(t) PROVE Finished(s \o t)
  <2>1. Len(t) \in Nat \ {0}
    BY <1>5, EmptySeq DEF Finished
  <2>2. Len(t) \in 1..Len(t) /\ Len(t) + Len(s) = Len(s \o t)
    BY <1>1, <1>2, <2>1
  <2>3. (s \o t)[Len(s \o t)] = "done"
    BY <1>3, <1>5, <2>2 DEF Finished
  <2>4. s \o t # <<>>
    BY <1>1, <1>2, <2>1, EmptySeq
  <2> QED
    BY <2>3, <2>4 DEF Finished
<1>6. ASSUME Told(t) PROVE Told(s \o t)
  BY <1>3, <1>6 DEF Told
<1> QED
  BY <1>4, <1>5, <1>6

(* No error in a part of what has none.                                      *)
LEMMA CleanPart ==
  ASSUME NEW s \in Seq(Event), NEW t \in Seq(Event), Clean(s \o t)
  PROVE  Clean(s)
<1>1. /\ Len(s \o t) = Len(s) + Len(t)
      /\ \A i \in 1..(Len(s) + Len(t)) :
           (s \o t)[i] = IF i <= Len(s) THEN s[i] ELSE t[i - Len(s)]
  BY EventsConcat
<1>2. Len(s) \in Nat /\ Len(t) \in Nat
  BY LenProperties
<1>3. \A i \in 1..Len(s) : i \in 1..(Len(s) + Len(t)) /\ i <= Len(s)
  BY <1>2
<1> QED
  BY <1>1, <1>3 DEF Clean

(* The answers have no error, and end.                                       *)
LEMMA AnswerWhole ==
  ASSUME NEW n \in Nat
  PROVE  Flat(n) \in Seq(Event) /\ Clean(Flat(n)) /\ Finished(Flat(n))
<1>1. /\ Flat(n) \in Seq(Event)
      /\ Len(Flat(n)) = n + 4
      /\ Flat(n)[1] = "session"
      /\ \A i \in 2..(n + 1) : Flat(n)[i] = "token"
      /\ Flat(n)[n + 2] = "agent_done"
      /\ Flat(n)[n + 3] = "metrics"
      /\ Flat(n)[n + 4] = "done"
  BY FlatEvents
<1>2. ASSUME NEW i \in 1..Len(Flat(n)) PROVE Flat(n)[i] # "error"
  <2>1. i = 1 \/ i \in 2..(n + 1) \/ i = n + 2 \/ i = n + 3 \/ i = n + 4
    BY <1>1
  <2> QED
    BY <1>1, <2>1
<1>3. Flat(n) # <<>>
  <2>1. n + 4 # 0
    OBVIOUS
  <2> QED
    BY <1>1, <2>1, EmptySeq
<1> QED
  BY <1>1, <1>2, <1>3 DEF Clean, Finished

(* A failure is told.                                                        *)
LEMMA ErrorTold == Failure \in Seq(Event) /\ Failure # <<>> /\ Told(Failure)
<1>1. /\ Failure \in Seq(Event) /\ Len(Failure) = 3 /\ Failure[2] = "error"
  BY FailureEvents
<1>2. 2 \in 1..3 /\ Failure # <<>>
  BY <1>1, EmptySeq
<1> QED
  BY <1>1, <1>2 DEF Told

(* The trail of a stream, and where there is none.                           *)
LEMMA TrailTyped ==
  ASSUME DispatchTyped, NEW r \in Streams
  PROVE  /\ wire[r] \o held[r] \in Seq(Event)
         /\ Trail(r) \in Seq(Event)
         /\ todo[r] = <<>> => Trail(r) = wire[r] \o held[r]
         /\ todo[r] = <<>> /\ held[r] = <<>> => Trail(r) = wire[r]
         /\ Trail(r) = <<>> => todo[r] = <<>> /\ held[r] = <<>> /\ wire[r] = <<>>
<1>1. wire[r] \in Seq(Event) /\ held[r] \in Seq(Event) /\ todo[r] \in Seq(Event) /\ r \in Requests
  BY DEF DispatchTyped, Requests
<1>2. wire[r] \o held[r] \in Seq(Event) /\ Trail(r) \in Seq(Event)
  BY <1>1, EventsConcat DEF Trail
<1>3. todo[r] = <<>> => Trail(r) = wire[r] \o held[r]
  BY <1>2, ConcatEmptySeq DEF Trail
<1>4. held[r] = <<>> => wire[r] \o held[r] = wire[r]
  BY <1>1, ConcatEmptySeq
<1>5. Trail(r) = <<>> => todo[r] = <<>> /\ wire[r] \o held[r] = <<>>
  BY <1>1, <1>2, ConcatEqualIffEmpty DEF Trail
<1>6. wire[r] \o held[r] = <<>> => held[r] = <<>> /\ wire[r] = <<>>
  BY <1>1, ConcatEqualIffEmpty
<1> QED
  BY <1>2, <1>3, <1>4, <1>5, <1>6
------------------------------------------------------------------------------
(* Only streams copy and emit.                                               *)
LEMMA StreamsOnly ==
  ASSUME DispatchTyped, NEW r \in Requests, CopyEvent(r) \/ EmitEvent(r)
  PROVE  r \in Streams
<1> QED
  BY DEF DispatchTyped, CopyEvent, EmitEvent, Requests

(* The runs of the session after one more.                                   *)
LEMMA StoredMore ==
  ASSUME DispatchTyped, NoRunTwice, NEW r \in Requests, r \notin Stored, Persist(r)
  PROVE  Stored' = Stored \union {r} /\ NoRunTwice'
<1>1. pc[r] \in DOMAIN Final /\ runs' = Append(runs, [req |-> r, final |-> Final[pc[r]]])
  BY DEF Persist
<1>2. /\ Len(runs) \in Nat
      /\ Len(runs') = Len(runs) + 1
      /\ \A i \in 1..Len(runs) : runs'[i].req = runs[i].req
      /\ runs'[Len(runs) + 1].req = r
  BY <1>1, RunAppended
<1>3. \A i : i \in 1..Len(runs') <=> i \in 1..Len(runs) \/ i = Len(runs) + 1
  BY <1>2
<1>4. Stored' = Stored \union {r}
  BY <1>2, <1>3 DEF Stored
<1>5. \A i \in 1..Len(runs) : runs[i].req # r
  BY DEF Stored
<1>6. NoRunTwice'
  BY <1>2, <1>3, <1>5 DEF NoRunTwice
<1> QED
  BY <1>4, <1>6

(* A step of one request leaves the others alone.                            *)
LEMMA OthersAlone ==
  ASSUME DispatchTyped, NEW r \in Requests, Send(r) \/ Leave(r) \/ Handle(r),
         Persist(r) => Stored' = Stored \union {r},
         NEW q \in Requests \ {r}, RequestInv(q)
  PROVE  RequestInv(q)'
<1> USE DEF Goto, Answer
<1>0. /\ pc \in [Requests -> PC]
      /\ todo \in [Requests -> Seq(Event)]
      /\ held \in [Streams -> Seq(Event)]
      /\ wire \in [Streams -> Seq(Event)]
      /\ reply \in [Requests -> {"none", "ok"} \union Refused]
  BY DEF DispatchTyped
<1>1. ASSUME pc'[q] = pc[q], reply'[q] = reply[q], q \in gone' <=> q \in gone,
             q \in alerts' <=> q \in alerts, q \in Stored' <=> q \in Stored,
             todo'[q] = todo[q],
             q \in Streams => held'[q] = held[q] /\ wire'[q] = wire[q]
      PROVE  RequestInv(q)'
  BY <1>1 DEF RequestInv, JsonInv, StreamInv, Trail
<1>2. CASE CopyEvent(r) \/ EmitEvent(r)
  <2>1. r \in Streams
    BY <1>2, StreamsOnly
  <2>2. /\ todo'[q] = todo[q]
        /\ q \in Streams => held'[q] = held[q] /\ wire'[q] = wire[q]
    BY <1>2, <2>1, EventSent
  <2>3. UNCHANGED <<pc, reply, gone, runs, alerts>>
    BY <1>2 DEF CopyEvent, EmitEvent
  <2> QED
    BY <1>1, <2>2, <2>3 DEF Stored
<1>3. CASE Persist(r)
  <2>1. pc'[q] = pc[q] /\ UNCHANGED <<todo, held, wire, reply, gone, alerts>>
    BY <1>0, <1>3 DEF Persist
  <2>2. q \in Stored' <=> q \in Stored
    BY <1>3
  <2> QED
    BY <1>1, <2>1, <2>2
<1>6. CASE Respond(r)
  <2>1. pc'[q] = pc[q] /\ reply'[q] = reply[q] /\ UNCHANGED <<todo, gone, runs, alerts>>
    BY <1>0, <1>6 DEF Respond
  <2>2. q \in Streams => held'[q] = held[q] /\ wire'[q] = wire[q]
    <3>1. CASE r \in Json
      BY <1>6, <3>1 DEF Respond
    <3>2. CASE r \in Streams
      BY <1>6, <3>2, ResponseEnds
    <3> QED
      BY <3>1, <3>2 DEF Requests
  <2> QED
    BY <1>1, <2>1, <2>2 DEF Stored
<1>4. CASE Send(r) \/ Leave(r) \/ BuildPrompt(r) \/ Admit(r) \/ Deny(r) \/ RelayBegins(r)
           \/ RelayRefused(r) \/ CopyEnds(r) \/ CopyFails(r)
  <2>1. pc'[q] = pc[q] /\ todo'[q] = todo[q] /\ reply'[q] = reply[q] /\ UNCHANGED <<held, wire, runs>>
    BY <1>0, <1>4 DEF Send, Leave, BuildPrompt, Admit, Deny, RelayBegins, RelayRefused, CopyEnds,
                CopyFails
  <2>2. (q \in gone' <=> q \in gone) /\ (q \in alerts' <=> q \in alerts)
    BY <1>4 DEF Send, Leave, BuildPrompt, Admit, Deny, RelayBegins, RelayRefused, CopyEnds,
                CopyFails
  <2> QED
    BY <1>1, <2>1, <2>2 DEF Stored
<1>5. CASE Executed(r) \/ ExecutedEmpty(r) \/ ExecuteFails(r) \/ ExecutedNull(r)
           \/ EmitEnds(r) \/ EmitFails(r)
  <2>1. pc'[q] = pc[q] /\ todo'[q] = todo[q] /\ reply'[q] = reply[q] /\ UNCHANGED <<held, wire, runs>>
    BY <1>0, <1>5 DEF Executed, ExecutedEmpty, ExecuteFails, ExecutedNull, EmitEnds, EmitFails
  <2>2. (q \in gone' <=> q \in gone) /\ (q \in alerts' <=> q \in alerts)
    BY <1>5 DEF Executed, ExecutedEmpty, ExecuteFails, ExecutedNull, EmitEnds, EmitFails
  <2> QED
    BY <1>1, <2>1, <2>2 DEF Stored
<1> QED
  BY <1>2, <1>3, <1>4, <1>5, <1>6 DEF Handle

(* The request of a JSON dispatch takes a step.                              *)
LEMMA JsonStep ==
  ASSUME DispatchTyped, NEW r \in Json, JsonInv(r), Send(r) \/ Leave(r) \/ Handle(r),
         Persist(r) => Stored' = Stored \union {r}
  PROVE  JsonInv(r)'
<1> USE DEF Goto, Answer
<1>0. /\ pc \in [Requests -> PC]
      /\ reply \in [Requests -> {"none", "ok"} \union Refused]
      /\ r \in Requests /\ r \notin Streams
      /\ pc[r] \notin {"relay", "copy", "replay", "replay_error", "append_stream"}
  BY KindAssumption DEF DispatchTyped, Requests
<1>1. ASSUME UNCHANGED runs PROVE Stored' = Stored
  BY <1>1 DEF Stored
<1>2. CASE Send(r) \/ Leave(r) \/ BuildPrompt(r) \/ Admit(r)
  <2>1. /\ Stored' = Stored /\ reply' = reply /\ alerts' = alerts
        /\ pc[r] # "ended" /\ pc'[r] # "ended" /\ (pc'[r] = "reply" <=> pc[r] = "reply")
        /\ r \in Stored => pc'[r] \in {"reply", "ended"}
    BY <1>0, <1>1, <1>2 DEF Send, Leave, BuildPrompt, Admit, JsonInv
  <2> QED
    BY <2>1 DEF JsonInv
<1>3. CASE Deny(r) \/ ExecuteFails(r)
  <2>1. /\ Stored' = Stored /\ gone' = gone /\ alerts' = alerts \union {r}
        /\ pc'[r] = "ended" /\ pc[r] \notin {"reply", "ended"}
        /\ reply'[r] = IF r \in gone THEN reply[r]
                       ELSE IF Deny(r) THEN "budget_exceeded" ELSE "unavailable"
    BY <1>0, <1>1, <1>3 DEF Deny, ExecuteFails
  <2> QED
    BY <2>1 DEF JsonInv
<1>4. CASE ExecutedNull(r)
  <2>1. /\ Stored' = Stored /\ gone' = gone /\ alerts' = alerts
        /\ pc'[r] = "ended" /\ pc[r] \notin {"reply", "ended"}
        /\ reply'[r] = IF r \in gone THEN reply[r] ELSE "dropped"
    BY <1>0, <1>1, <1>4 DEF ExecutedNull
  <2> QED
    BY <2>1 DEF JsonInv
<1>5. CASE Executed(r) \/ ExecutedEmpty(r)
  <2>1. /\ Stored' = Stored /\ gone' = gone /\ alerts' = alerts /\ reply' = reply
        /\ pc'[r] \in {"append", "append_prompt", "append_empty"} /\ pc[r] = "execute"
    BY <1>0, <1>1, <1>5 DEF Executed, ExecutedEmpty
  <2> QED
    BY <2>1 DEF JsonInv
<1>6. CASE Persist(r)
  <2>1. /\ Stored' = Stored \union {r} /\ gone' = gone /\ alerts' = alerts /\ reply' = reply
        /\ pc'[r] = "reply" /\ pc[r] \in {"append", "append_stream", "append_prompt", "append_empty"}
    BY <1>0, <1>6 DEF Persist, Final
  <2> QED
    BY <2>1 DEF JsonInv
<1>7. CASE Respond(r)
  <2>1. /\ Stored' = Stored /\ gone' = gone /\ alerts' = alerts
        /\ pc'[r] = "ended" /\ pc[r] = "reply"
        /\ reply'[r] = IF r \in gone THEN reply[r] ELSE "ok"
    BY <1>0, <1>1, <1>7 DEF Respond
  <2> QED
    BY <2>1 DEF JsonInv
<1>8. CASE \/ RelayBegins(r) \/ RelayRefused(r) \/ CopyEvent(r) \/ CopyEnds(r) \/ CopyFails(r)
           \/ EmitEvent(r) \/ EmitEnds(r) \/ EmitFails(r)
  BY <1>0, <1>8 DEF RelayBegins, RelayRefused, CopyEvent, CopyEnds, CopyFails, EmitEvent, EmitEnds,
                    EmitFails
<1> QED
  BY <1>2, <1>3, <1>4, <1>5, <1>6, <1>7, <1>8 DEF Handle

(* The request of a stream takes a step.                                     *)
LEMMA StreamStep ==
  ASSUME DispatchTyped, NEW r \in Streams, StreamInv(r), Send(r) \/ Leave(r) \/ Handle(r),
         Persist(r) => Stored' = Stored \union {r}
  PROVE  StreamInv(r)'
<1> USE DEF Goto, Answer
<1>0. /\ pc \in [Requests -> PC]
      /\ reply \in [Requests -> {"none", "ok"} \union Refused]
      /\ todo \in [Requests -> Seq(Event)]
      /\ r \in Requests /\ r \notin Json
      /\ pc[r] \notin {"append_prompt", "append_empty"}
  BY KindAssumption DEF DispatchTyped, Requests
<1>1. ASSUME UNCHANGED runs PROVE Stored' = Stored
  BY <1>1 DEF Stored
<1>2. /\ wire[r] \o held[r] \in Seq(Event)
      /\ Trail(r) \in Seq(Event)
      /\ todo[r] = <<>> => Trail(r) = wire[r] \o held[r]
      /\ todo[r] = <<>> /\ held[r] = <<>> => Trail(r) = wire[r]
      /\ Trail(r) = <<>> => todo[r] = <<>> /\ held[r] = <<>> /\ wire[r] = <<>>
  BY TrailTyped
<1>3. CASE Leave(r)
  <2>1. r \in gone' /\ UNCHANGED <<pc, runs, alerts>>
    BY <1>3 DEF Leave
  <2> QED
    BY <1>1, <2>1 DEF StreamInv
<1>4. CASE Send(r) \/ BuildPrompt(r) \/ Admit(r)
  <2>1. /\ UNCHANGED <<todo, held, wire, gone, runs, alerts>>
        /\ pc[r] \in {"unsent", "prompt", "gate"} /\ pc'[r] \in {"prompt", "gate", "relay"}
    BY <1>0, <1>4 DEF Send, BuildPrompt, Admit
  <2>2. Trail(r)' = Trail(r)
    BY <2>1 DEF Trail
  <2> QED
    BY <1>1, <2>1, <2>2 DEF StreamInv
<1>5. CASE Deny(r)
  <2>1. /\ UNCHANGED <<todo, held, wire, gone, runs>> /\ alerts' = alerts \union {r}
        /\ pc[r] = "gate" /\ pc'[r] = "ended"
        /\ reply'[r] = IF r \in gone THEN reply[r] ELSE "budget_exceeded"
    BY <1>0, <1>5 DEF Deny
  <2>2. r \notin gone => wire[r] = <<>>
    BY <1>2, <2>1 DEF StreamInv
  <2> QED
    BY <1>1, <2>1, <2>2 DEF StreamInv
<1>6. CASE RelayBegins(r)
  <2>1. /\ UNCHANGED <<held, wire, gone, runs, alerts>>
        /\ pc[r] = "relay" /\ pc'[r] = "copy"
    BY <1>0, <1>6 DEF RelayBegins
  <2>2. PICK n \in Nat : todo'[r] = Flat(n)
    BY <1>0, <1>6 DEF RelayBegins
  <2>3. Flat(n) \in Seq(Event) /\ Clean(Flat(n)) /\ Finished(Flat(n))
    BY AnswerWhole
  <2>4. r \notin gone => Trail(r)' = Flat(n)
    <3>1. r \notin gone => wire[r] = <<>> /\ held[r] = <<>>
      BY <1>2, <2>1 DEF StreamInv
    <3>2. <<>> \o <<>> \o Flat(n) = Flat(n)
      BY <2>3, ConcatEmptySeq, EmptySeq
    <3> QED
      BY <2>1, <2>2, <3>1, <3>2 DEF Trail
  <2> QED
    BY <1>1, <2>1, <2>3, <2>4 DEF StreamInv
<1>7. CASE RelayRefused(r)
  <2>1. /\ UNCHANGED <<todo, held, wire, gone, runs>> /\ alerts' = alerts \union {r}
        /\ pc[r] = "relay" /\ pc'[r] = "execute"
    BY <1>0, <1>7 DEF RelayRefused
  <2>2. Trail(r)' = Trail(r)
    BY <2>1 DEF Trail
  <2>3. Clean(<<>>)
    BY EmptySeq DEF Clean
  <2> QED
    BY <1>1, <1>2, <2>1, <2>2, <2>3 DEF StreamInv
<1>8. CASE CopyEvent(r) \/ EmitEvent(r)
  <2>1. /\ r \notin gone => Trail(r)' = Trail(r)
        /\ EmitEvent(r) => held'[r] = <<>>
    BY <1>8, EventSent
  <2>2. /\ UNCHANGED <<pc, reply, gone, runs, alerts>>
        /\ pc[r] \in {"copy", "replay"} \/ (pc[r] = "replay_error" /\ EmitEvent(r))
    BY <1>8 DEF CopyEvent, EmitEvent
  <2> QED
    BY <1>1, <2>1, <2>2 DEF StreamInv
<1>9. CASE CopyEnds(r)
  <2>1. /\ UNCHANGED <<todo, held, wire, gone, runs, alerts>> /\ todo[r] = <<>>
        /\ pc[r] = "copy" /\ pc'[r] = "append_stream"
    BY <1>0, <1>9 DEF CopyEnds
  <2>2. Trail(r)' = Trail(r)
    BY <2>1 DEF Trail
  <2> QED
    BY <1>1, <2>1, <2>2 DEF StreamInv
<1>10. CASE CopyFails(r)
  <2>1. /\ UNCHANGED <<held, wire, gone, runs>> /\ alerts' = alerts \union {r}
        /\ pc[r] = "copy" /\ pc'[r] = "execute" /\ todo'[r] = <<>>
    BY <1>0, <1>10 DEF CopyFails
  <2>2. r \notin gone => Clean(wire[r] \o held[r])
    <3>1. wire[r] \in Seq(Event) /\ held[r] \in Seq(Event) /\ todo[r] \in Seq(Event)
      BY <1>0 DEF DispatchTyped
    <3>2. ASSUME Clean(Trail(r)) PROVE Clean(wire[r] \o held[r])
      BY <1>2, <3>1, <3>2, CleanPart DEF Trail
    <3> QED
      BY <2>1, <3>2 DEF StreamInv
  <2>3. Trail(r)' = wire[r] \o held[r]
    BY <1>2, <2>1, ConcatEmptySeq DEF Trail
  <2> QED
    BY <1>1, <2>1, <2>2, <2>3 DEF StreamInv
<1>11. CASE Executed(r)
  <2>1. /\ UNCHANGED <<held, wire, gone, runs, alerts>>
        /\ pc[r] = "execute" /\ pc'[r] = "replay"
    BY <1>0, <1>11 DEF Executed
  <2>2. PICK n \in Nat : todo'[r] = Flat(n)
    BY <1>0, <1>11 DEF Executed
  <2>3. Flat(n) \in Seq(Event) /\ Clean(Flat(n)) /\ Finished(Flat(n))
    BY AnswerWhole
  <2>4. Trail(r)' = (wire[r] \o held[r]) \o Flat(n)
    BY <2>1, <2>2 DEF Trail
  <2>5. Finished(Trail(r)')
    BY <1>2, <2>3, <2>4, Longer
  <2>6. r \notin gone => Clean(Trail(r)')
    <3>1. r \notin gone => Clean(wire[r] \o held[r])
      BY <1>2, <2>1 DEF StreamInv
    <3> QED
      BY <1>2, <2>3, <2>4, <3>1, Longer
  <2> QED
    BY <1>1, <2>1, <2>5, <2>6 DEF StreamInv
<1>12. CASE ExecutedEmpty(r) \/ ExecuteFails(r) \/ ExecutedNull(r)
  <2>1. /\ UNCHANGED <<held, wire, gone, runs>> /\ (r \in alerts => r \in alerts')
        /\ pc[r] = "execute" /\ pc'[r] = "replay_error" /\ todo'[r] = Failure
    BY <1>0, <1>12 DEF ExecutedEmpty, ExecuteFails, ExecutedNull
  <2>2. Failure \in Seq(Event) /\ Failure # <<>> /\ Told(Failure)
    BY ErrorTold
  <2>3. Trail(r)' = (wire[r] \o held[r]) \o Failure
    BY <2>1 DEF Trail
  <2>4. Told(Trail(r)')
    BY <1>2, <2>2, <2>3, Longer
  <2> QED
    BY <1>1, <2>1, <2>2, <2>4 DEF StreamInv
<1>13. CASE EmitEnds(r)
  <2>1. /\ UNCHANGED <<todo, held, wire, gone, runs, alerts>> /\ todo[r] = <<>>
        /\ \/ pc[r] = "replay" /\ pc'[r] = "append"
           \/ pc[r] = "replay_error" /\ pc'[r] = "ended"
    BY <1>0, <1>13 DEF EmitEnds
  <2>2. Trail(r)' = Trail(r)
    BY <2>1 DEF Trail
  <2>3. r \notin gone /\ pc[r] = "replay_error" => Told(wire[r])
    BY <1>2, <2>1 DEF StreamInv
  <2> QED
    BY <1>1, <2>1, <2>2, <2>3 DEF StreamInv
<1>14. CASE EmitFails(r)
  <2>1. r \in gone' /\ pc'[r] = "ended" /\ UNCHANGED runs
    BY <1>0, <1>14 DEF EmitFails
  <2> QED
    BY <1>1, <2>1 DEF StreamInv
<1>15. CASE Persist(r)
  <2>1. /\ UNCHANGED <<todo, held, wire, gone, alerts>>
        /\ pc[r] \in {"append", "append_stream"} /\ pc'[r] = "reply"
    BY <1>0, <1>15 DEF Persist, Final
  <2>2. Trail(r)' = Trail(r)
    BY <2>1 DEF Trail
  <2> QED
    BY <1>15, <2>1, <2>2 DEF StreamInv
<1>16. CASE Respond(r)
  <2>1. /\ UNCHANGED <<todo, gone, runs, alerts>>
        /\ pc[r] = "reply" /\ pc'[r] = "ended"
    BY <1>0, <1>16 DEF Respond
  <2>2. /\ wire'[r] \in Seq(Event) /\ held'[r] = <<>>
        /\ r \notin gone =>
             \A t \in Seq(Event) : wire'[r] \o held'[r] \o t = wire[r] \o held[r] \o t
    BY <1>16, ResponseEnds
  <2>3. r \notin gone => wire'[r] = Trail(r)
    <3>1. r \notin gone => todo[r] = <<>>
      BY <2>1 DEF StreamInv
    <3>2. wire'[r] \o <<>> \o <<>> = wire'[r]
      BY <2>2, ConcatEmptySeq
    <3>3. <<>> \in Seq(Event)
      BY EmptySeq
    <3>4. r \notin gone => wire'[r] \o <<>> \o <<>> = Trail(r)
      BY <2>2, <3>1, <3>3 DEF Trail
    <3> QED
      BY <3>2, <3>4
  <2>4. r \notin gone => Clean(Trail(r)) /\ Finished(Trail(r))
    BY <2>1 DEF StreamInv
  <2> QED
    BY <1>1, <2>1, <2>3, <2>4 DEF StreamInv
<1> QED
  BY <1>3, <1>4, <1>5, <1>6, <1>7, <1>8, <1>9, <1>10, <1>11, <1>12, <1>13, <1>14, <1>15, <1>16
     DEF Handle
------------------------------------------------------------------------------
(* Before the first request there is nothing to agree about.                 *)
LEMMA DispatchInit == Init => DispatchInv
<1> SUFFICES ASSUME Init PROVE DispatchInv
  OBVIOUS
<1>1. runs = <<>> /\ Len(runs) = 0
  BY EmptySeq DEF Init
<1>2. Stored = {} /\ NoRunTwice
  BY <1>1 DEF Stored, NoRunTwice
<1>3. ASSUME NEW r \in Streams PROVE Trail(r) = <<>>
  <2>1. wire[r] = <<>> /\ held[r] = <<>> /\ todo[r] = <<>>
    BY DEF Init, Requests
  <2>2. <<>> \o <<>> \o <<>> = <<>>
    BY ConcatEmptySeq, EmptySeq
  <2> QED
    BY <2>1, <2>2 DEF Trail
<1>4. ASSUME NEW r \in Requests PROVE RequestInv(r)
  BY <1>2, <1>3 DEF RequestInv, JsonInv, StreamInv, Init
<1> QED
  BY <1>2, <1>4, TypedInit DEF DispatchInv

(* Every step keeps the answers, the runs and the alerts in agreement.       *)
LEMMA DispatchStep == DispatchInv /\ [Next]_dvars => DispatchInv'
<1> SUFFICES ASSUME DispatchInv, [Next]_dvars PROVE DispatchInv'
  OBVIOUS
<1>0. DispatchTyped /\ NoRunTwice /\ (\A r \in Requests : RequestInv(r)) /\ DispatchTyped'
  BY TypedStep DEF DispatchInv
<1>1. CASE UNCHANGED dvars
  <2>1. ASSUME NEW r \in Requests PROVE RequestInv(r)'
    <3>1. RequestInv(r)
      BY <1>0
    <3> QED
      BY <1>1, <3>1 DEF RequestInv, JsonInv, StreamInv, Trail, Stored, dvars
  <2>2. NoRunTwice'
    BY <1>0, <1>1 DEF NoRunTwice, dvars
  <2> QED
    BY <1>0, <2>1, <2>2 DEF DispatchInv
<1>2. CASE Next
  <2>1. PICK r \in Requests : Send(r) \/ Leave(r) \/ Handle(r)
    BY <1>2 DEF Next
  <2>2. Persist(r) => r \notin Stored
    <3> SUFFICES ASSUME Persist(r) PROVE r \notin Stored
      OBVIOUS
    <3>1. pc[r] \in {"append", "append_stream", "append_prompt", "append_empty"}
      BY DEF Persist, Final
    <3>2. RequestInv(r)
      BY <1>0
    <3> QED
      BY <3>1, <3>2 DEF RequestInv, JsonInv, StreamInv, Requests
  <2>3. Persist(r) => Stored' = Stored \union {r} /\ NoRunTwice'
    BY <1>0, <2>2, StoredMore
  <2>4. ASSUME ~Persist(r) PROVE UNCHANGED runs
    BY <2>1, <2>4 DEF Handle, Send, Leave, BuildPrompt, Admit, Deny, RelayBegins, RelayRefused,
       CopyEvent, CopyEnds, CopyFails, Executed, ExecutedEmpty, ExecuteFails, ExecutedNull,
       EmitEvent, EmitEnds, EmitFails, Respond
  <2>5. NoRunTwice'
    BY <1>0, <2>3, <2>4 DEF NoRunTwice
  <2>6. ASSUME NEW q \in Requests \ {r} PROVE RequestInv(q)'
    BY <1>0, <2>1, <2>3, <2>6, OthersAlone
  <2>7. RequestInv(r)'
    <3>1. RequestInv(r)
      BY <1>0
    <3>2. ASSUME r \in Json PROVE JsonInv(r)'
      BY <1>0, <2>1, <2>3, <3>1, <3>2, JsonStep DEF RequestInv
    <3>3. ASSUME r \in Streams PROVE StreamInv(r)'
      BY <1>0, <2>1, <2>3, <3>1, <3>3, StreamStep DEF RequestInv
    <3> QED
      BY <3>2, <3>3 DEF RequestInv
  <2> QED
    BY <1>0, <2>5, <2>6, <2>7 DEF DispatchInv
<1> QED
  BY <1>1, <1>2

(* So they agree in every state.                                             *)
LEMMA DispatchSafe == Spec => []DispatchInv
<1> QED
  BY DispatchInit, DispatchStep, PTL DEF Spec

(* A client that has stayed has its answer exactly when the run is stored,   *)
(* and no run is stored twice: whatever the services do, streams that break  *)
(* off included.                                                             *)
THEOREM RunsAndAnswersAgree == Spec => []RunsAreAnswers
<1>1. DispatchInv => RunsAreAnswers
  <2> SUFFICES ASSUME DispatchInv PROVE RunsAreAnswers
    OBVIOUS
  <2>1. \A r : r \in Stored <=> \E i \in 1..Len(runs) : runs[i].req = r
    BY DEF Stored
  <2>2. ASSUME NEW r \in Requests, pc[r] = "ended", r \notin gone
        PROVE  Answered(r) <=> r \in Stored
    <3>1. CASE r \in Json
      <4>1. JsonInv(r)
        BY <3>1 DEF DispatchInv, RequestInv
      <4> QED
        BY <2>2, <3>1, <4>1 DEF JsonInv, Answered
    <3>2. CASE r \in Streams
      <4>1. StreamInv(r) /\ r \notin Json
        BY <3>2, KindAssumption DEF DispatchInv, RequestInv
      <4> QED
        BY <2>2, <4>1 DEF StreamInv, Answered, Clean, Finished, Told
    <3> QED
      BY <3>1, <3>2 DEF Requests
  <2> QED
    BY <2>1, <2>2 DEF RunsAreAnswers, DispatchInv, NoRunTwice
<1> QED
  BY <1>1, DispatchSafe, PTL

(* Whichever service fails, and however, the client that has stayed is told, *)
(* and except for the dropped connection an alert is published.              *)
THEOREM FailuresAreLoud == Spec => []FailureIsLoud
<1>1. DispatchInv => FailureIsLoud
  <2> SUFFICES ASSUME DispatchInv,
                      NEW r \in Requests, pc[r] = "ended", r \notin gone, ~Answered(r)
               PROVE  /\ \/ reply[r] \in Refused
                         \/ \E i \in 1..Len(wire[r]) : wire[r][i] = "error"
                      /\ reply[r] = "dropped" \/ r \in alerts
    BY DEF FailureIsLoud
  <2>1. CASE r \in Json
    <3>1. JsonInv(r)
      BY <2>1 DEF DispatchInv, RequestInv
    <3> QED
      BY <2>1, <3>1 DEF JsonInv, Answered, Refused
  <2>2. CASE r \in Streams
    <3>1. StreamInv(r) /\ r \notin Json
      BY <2>2, KindAssumption DEF DispatchInv, RequestInv
    <3> QED
      BY <3>1 DEF StreamInv, Answered, Clean, Finished, Told, Refused
  <2> QED
    BY <2>1, <2>2 DEF Requests
<1> QED
  BY <1>1, DispatchSafe, PTL
------------------------------------------------------------------------------
(* A turn sent after the responses it follows have ended, of either route    *)
(* and however they were answered, is built on one of their runs or on a     *)
(* later one: both handlers store a run before they return.                  *)
THEOREM FollowupsSeeRuns == Spec => []FollowupSeesRun
<1>1. Init => FollowInv
  BY DEF Init, FollowInv
<1>2. ASSUME DispatchInv, FollowInv, [Next]_dvars PROVE FollowInv'
  <2>0. /\ pc \in [Requests -> PC] /\ base \in [Requests -> Nat]
        /\ \A r \in Requests : base[r] <= Len(runs)
        /\ DispatchTyped /\ NoRunTwice /\ Len(runs) \in Nat
    BY <1>2, LenProperties DEF DispatchInv, DispatchTyped
  <2>1. CASE UNCHANGED dvars
    BY <1>2, <2>1 DEF FollowInv, Stored, StoredBy, dvars
  <2>a. ASSUME UNCHANGED runs PROVE Stored' = Stored /\ \A n : StoredBy(n)' = StoredBy(n)
    BY <2>a DEF Stored, StoredBy
  <2>2. ASSUME NEW r \in Requests, Send(r) PROVE FollowInv'
    <3>1. ASSUME r \notin early', NEW p \in Before[r] PROVE p \in Stored
      <4>0. p \in Requests /\ RequestInv(p) /\ Answered(p)
        BY <1>2, <2>2, BeforeAssumption DEF DispatchInv, Send
      <4>1. CASE p \in Json
        BY <4>0, <4>1 DEF RequestInv, JsonInv, Answered
      <4>2. CASE p \notin Json
        <5>1. pc[p] = "ended" /\ p \notin gone
          BY <2>2, <3>1, <4>2 DEF Send
        <5>2. StreamInv(p)
          BY <4>0, <4>2 DEF RequestInv, Requests
        <5> QED
          BY <4>0, <4>2, <5>1, <5>2 DEF StreamInv, Answered, Clean, Finished, Told
      <4> QED
        BY <4>1, <4>2
    <3>2. /\ UNCHANGED <<base, runs>> /\ early \subseteq early'
          /\ pc' = [pc EXCEPT ![r] = "prompt"]
      BY <2>2 DEF Send, Goto
    <3> QED
      BY <1>2, <2>0, <2>a, <3>1, <3>2 DEF FollowInv
  <2>3. ASSUME NEW r \in Requests, BuildPrompt(r) PROVE FollowInv'
    <3>1. Stored = StoredBy(Len(runs))
      BY DEF Stored, StoredBy
    <3>2. /\ UNCHANGED <<early, runs>> /\ pc[r] = "prompt"
          /\ base' = [base EXCEPT ![r] = Len(runs)] /\ pc' = [pc EXCEPT ![r] = "gate"]
      BY <2>3 DEF BuildPrompt, Goto
    <3>3. \A q \in Requests \ {r} : base'[q] = base[q] /\ pc'[q] = pc[q]
      BY <2>0, <3>2
    <3>4. base'[r] = Len(runs) /\ pc'[r] = "gate"
      BY <2>0, <3>2
    <3>5. StoredBy(base[r])' = Stored
      BY <3>1, <3>2, <3>4 DEF StoredBy
    <3>6. \A q \in Requests \ {r} : StoredBy(base[q])' = StoredBy(base[q])
      BY <3>2, <3>3 DEF StoredBy
    <3> QED
      BY <1>2, <2>a, <3>2, <3>3, <3>4, <3>5, <3>6 DEF FollowInv
  <2>4. ASSUME NEW r \in Requests, pc[r] \notin {"unsent", "prompt"}, UNCHANGED <<base, early>>,
               \E l \in PC \ {"unsent", "prompt"} : pc' = [pc EXCEPT ![r] = l],
               Stored \subseteq Stored',
               \A q \in Requests : StoredBy(base[q])' = StoredBy(base[q])
        PROVE  FollowInv'
    BY <1>2, <2>0, <2>4 DEF FollowInv
  <2>5. ASSUME NEW r \in Requests, Leave(r) \/ CopyEvent(r) \/ EmitEvent(r) PROVE FollowInv'
    <3>1. UNCHANGED <<pc, base, early, runs>>
      BY <2>5 DEF Leave, CopyEvent, EmitEvent
    <3> QED
      BY <1>2, <3>1 DEF FollowInv, Stored, StoredBy
  <2>6. ASSUME NEW r \in Requests, Persist(r) PROVE FollowInv'
    <3>1. pc[r] \in DOMAIN Final /\ UNCHANGED <<base, early>> /\ pc' = [pc EXCEPT ![r] = "reply"]
          /\ runs' = Append(runs, [req |-> r, final |-> Final[pc[r]]])
      BY <2>6 DEF Persist, Goto
    <3>2. /\ Len(runs') = Len(runs) + 1
          /\ \A i \in 1..Len(runs) : runs'[i].req = runs[i].req
      BY <2>0, <3>1, RunAppended
    <3>3. Stored \subseteq Stored'
      BY <2>0, <3>2 DEF Stored
    <3>4. ASSUME NEW q \in Requests PROVE StoredBy(base[q])' = StoredBy(base[q])
      <4>1. \A i \in 1..base[q] : i \in 1..Len(runs)
        BY <2>0
      <4>2. base'[q] = base[q]
        BY <3>1
      <4> QED
        BY <3>2, <4>1, <4>2 DEF StoredBy
    <3>5. pc[r] \notin {"unsent", "prompt"}
      BY <3>1 DEF Final
    <3> QED
      BY <2>4, <3>1, <3>3, <3>4, <3>5 DEF PC
  <2>7. ASSUME NEW r \in Requests,
               \/ Admit(r) \/ Deny(r) \/ RelayBegins(r) \/ RelayRefused(r) \/ CopyEnds(r)
               \/ CopyFails(r) \/ Executed(r) \/ ExecutedEmpty(r) \/ ExecuteFails(r)
               \/ ExecutedNull(r) \/ EmitEnds(r) \/ EmitFails(r) \/ Respond(r)
        PROVE  FollowInv'
    <3>1. /\ pc[r] \notin {"unsent", "prompt"} /\ UNCHANGED <<base, early, runs>>
      BY <2>7 DEF Admit, Deny, RelayBegins, RelayRefused, CopyEnds, CopyFails, Executed,
         ExecutedEmpty, ExecuteFails, ExecutedNull, EmitEnds, EmitFails, Respond
    <3>2. \E l \in PC \ {"unsent", "prompt"} : pc' = [pc EXCEPT ![r] = l]
      BY <2>7 DEF Admit, Deny, RelayBegins, RelayRefused, CopyEnds, CopyFails, Executed,
         ExecutedEmpty, ExecuteFails, ExecutedNull, EmitEnds, EmitFails, Respond, Goto, PC
    <3>3. Stored' = Stored /\ \A q \in Requests : StoredBy(base[q])' = StoredBy(base[q])
      BY <3>1 DEF Stored, StoredBy
    <3> QED
      BY <2>4, <3>1, <3>2, <3>3
  <2> QED
    BY <1>2, <2>1, <2>2, <2>3, <2>5, <2>6, <2>7 DEF Next, Handle
<1>3. FollowInv => FollowupSeesRun
  BY DEF FollowInv, FollowupSeesRun, StoredBy
<1> QED
  BY <1>1, <1>2, <1>3, DispatchSafe, PTL DEF Spec
------------------------------------------------------------------------------
(* What may come next depends on the last event only.                        *)
After(e) == Contract!Following(<<e>>)

(* A stream is in order when each event may follow the one before it.        *)
LEMMA OrderLocal ==
  ASSUME NEW s \in Seq(Event)
  PROVE  InOrder(s) <=> \A i \in 1..Len(s) : s[i] \in IF i = 1 THEN {"session"} ELSE After(s[i - 1])
<1>0. Len(s) \in Nat
  BY LenProperties
<1> SUFFICES ASSUME NEW i \in 1..Len(s)
             PROVE  Contract!Following(SubSeq(s, 1, i - 1))
                      = IF i = 1 THEN {"session"} ELSE After(s[i - 1])
  BY DEF InOrder, Contract!InOrder
<1>1. CASE i = 1
  <2>1. SubSeq(s, 1, i - 1) = <<>>
    BY <1>1, SubSeqEmpty
  <2> QED
    BY <1>1, <2>1 DEF Contract!Following
<1>2. CASE i # 1
  <2> DEFINE w == SubSeq(s, 1, i - 1)
  <2>0. i - 1 \in 1..Len(s) /\ i \in Int
    BY <1>0, <1>2
  <2>1. \A j \in 1..(i - 1) : s[j] \in Event
    BY <1>0, <2>0, ElementOfSeq
  <2>2. /\ w \in Seq(Event)
        /\ Len(w) = i - 1
        /\ \A j \in 1..(i - 1 - 1 + 1) : w[j] = s[1 + j - 1]
    BY <2>0, <2>1, SubSeqProperties
  <2>3. w[Len(w)] = s[i - 1]
    <3>1. i - 1 \in 1..(i - 1 - 1 + 1) /\ 1 + (i - 1) - 1 = i - 1
      BY <2>0
    <3> QED
      BY <2>2, <3>1
  <2>4. w # <<>>
    BY <2>0, <2>2, EmptySeq
  <2>5. /\ <<s[i - 1]>> # <<>> /\ Len(<<s[i - 1]>>) = 1
        /\ <<s[i - 1]>>[Len(<<s[i - 1]>>)] = s[i - 1]
    OBVIOUS
  <2> HIDE DEF w
  <2>6. Contract!Following(w) = After(s[i - 1])
    <3>1. s[i - 1] \in Event
      BY <2>0, ElementOfSeq
    <3> QED
      BY <2>3, <2>4, <2>5, <3>1 DEF Contract!Following, After, Event
  <2> QED
    BY <1>2, <2>6 DEF w
<1> QED
  BY <1>1, <1>2

(* Which events may follow which.                                            *)
LEMMA NextEvents ==
  /\ After("session") = {"token", "agent_done", "metrics", "error"}
  /\ After("token") = {"token", "agent_done", "metrics"}
  /\ After("agent_done") = {"agent_done", "metrics"}
  /\ After("metrics") = {"done"}
  /\ After("error") = {"done"}
<1>1. ASSUME NEW e PROVE <<e>> # <<>> /\ <<e>>[Len(<<e>>)] = e
  OBVIOUS
<1> QED
  BY <1>1 DEF After, Contract!Following

(* A part of what is in order is in order.                                   *)
LEMMA OrderPart ==
  ASSUME NEW s \in Seq(Event), NEW t \in Seq(Event), InOrder(s \o t)
  PROVE  InOrder(s)
<1>1. /\ s \o t \in Seq(Event)
      /\ Len(s \o t) = Len(s) + Len(t)
      /\ \A i \in 1..(Len(s) + Len(t)) :
           (s \o t)[i] = IF i <= Len(s) THEN s[i] ELSE t[i - Len(s)]
  BY EventsConcat
<1>2. Len(s) \in Nat /\ Len(t) \in Nat
  BY LenProperties
<1>3. \A i \in 1..Len(s \o t) :
        (s \o t)[i] \in IF i = 1 THEN {"session"} ELSE After((s \o t)[i - 1])
  BY <1>1, OrderLocal
<1>4. ASSUME NEW i \in 1..Len(s)
      PROVE  s[i] \in IF i = 1 THEN {"session"} ELSE After(s[i - 1])
  <2>1. i \in 1..Len(s \o t) /\ (s \o t)[i] = s[i]
    BY <1>1, <1>2
  <2>2. CASE i = 1
    BY <1>3, <2>1, <2>2
  <2>3. CASE i # 1
    <3>1. i - 1 \in 1..(Len(s) + Len(t)) /\ i - 1 <= Len(s)
      BY <1>2, <2>3
    <3>2. (s \o t)[i - 1] = s[i - 1]
      BY <1>1, <3>1
    <3> QED
      BY <1>3, <2>1, <2>3, <3>2
  <2> QED
    BY <2>2, <2>3
<1> QED
  BY <1>4, OrderLocal

(* The events of an answer are in order.                                     *)
LEMMA AnswerInOrder == ASSUME NEW n \in Nat PROVE InOrder(Flat(n))
<1>1. /\ Flat(n) \in Seq(Event)
      /\ Len(Flat(n)) = n + 4
      /\ Flat(n)[1] = "session"
      /\ \A i \in 2..(n + 1) : Flat(n)[i] = "token"
      /\ Flat(n)[n + 2] = "agent_done"
      /\ Flat(n)[n + 3] = "metrics"
      /\ Flat(n)[n + 4] = "done"
  BY FlatEvents
<1>2. ASSUME NEW i \in 1..Len(Flat(n))
      PROVE  Flat(n)[i] \in IF i = 1 THEN {"session"} ELSE After(Flat(n)[i - 1])
  <2>1. CASE i = 1
    BY <1>1, <2>1
  <2>2. CASE i \in 2..(n + 1)
    <3>1. i - 1 = 1 \/ i - 1 \in 2..(n + 1)
      BY <2>2
    <3>2. Flat(n)[i - 1] \in {"session", "token"}
      BY <1>1, <3>1
    <3> QED
      BY <1>1, <2>2, <3>2, NextEvents
  <2>3. CASE i = n + 2
    <3>1. i - 1 = 1 \/ i - 1 \in 2..(n + 1)
      BY <2>3
    <3>2. Flat(n)[i - 1] \in {"session", "token"}
      BY <1>1, <3>1
    <3> QED
      BY <1>1, <2>3, <3>2, NextEvents
  <2>4. CASE i = n + 3
    <3>1. i - 1 = n + 2 /\ i # 1
      BY <2>4
    <3> QED
      BY <1>1, <2>4, <3>1, NextEvents
  <2>5. CASE i = n + 4
    <3>1. i - 1 = n + 3 /\ i # 1
      BY <2>5
    <3> QED
      BY <1>1, <2>5, <3>1, NextEvents
  <2>6. i = 1 \/ i \in 2..(n + 1) \/ i = n + 2 \/ i = n + 3 \/ i = n + 4
    BY <1>1
  <2> QED
    BY <2>1, <2>2, <2>3, <2>4, <2>5, <2>6
<1> QED
  BY <1>1, <1>2, OrderLocal

(* The events of a failure are in order, and so is an empty trail.           *)
LEMMA FailureInOrder == InOrder(Failure) /\ InOrder(<<>>)
<1>1. /\ Failure \in Seq(Event) /\ Len(Failure) = 3
      /\ Failure[1] = "session" /\ Failure[2] = "error" /\ Failure[3] = "done"
  BY FailureEvents
<1>2. ASSUME NEW i \in 1..3
      PROVE  Failure[i] \in IF i = 1 THEN {"session"} ELSE After(Failure[i - 1])
  <2>1. CASE i = 1
    BY <1>1, <2>1
  <2>2. CASE i = 2
    <3>1. i - 1 = 1
      BY <2>2
    <3> QED
      BY <1>1, <2>2, <3>1, NextEvents
  <2>3. CASE i = 3
    <3>1. i - 1 = 2
      BY <2>3
    <3> QED
      BY <1>1, <2>3, <3>1, NextEvents
  <2> QED
    BY <2>1, <2>2, <2>3
<1>3. InOrder(Failure)
  BY <1>1, <1>2, OrderLocal
<1>4. InOrder(<<>>)
  BY EmptySeq DEF InOrder, Contract!InOrder
<1> QED
  BY <1>3, <1>4

(* The two parts of a sequence.                                              *)
LEMMA Halves ==
  ASSUME NEW s \in Seq(Event), NEW k \in 0..Len(s)
  PROVE  /\ SubSeq(s, 1, k) \in Seq(Event)
         /\ SubSeq(s, k + 1, Len(s)) \in Seq(Event)
         /\ Len(SubSeq(s, 1, k)) = k
         /\ SubSeq(s, 1, k) \o SubSeq(s, k + 1, Len(s)) = s
<1>0. Len(s) \in Nat /\ k \in Int /\ k >= 0 /\ k <= Len(s)
  BY LenProperties
<1>1. \A i \in 1..k : s[i] \in Event
  BY <1>0, ElementOfSeq
<1>2. \A i \in (k + 1)..Len(s) : s[i] \in Event
  BY <1>0, ElementOfSeq
<1>3. SubSeq(s, 1, k) \in Seq(Event) /\ Len(SubSeq(s, 1, k)) = k
  BY <1>0, <1>1, SubSeqProperties
<1>4. SubSeq(s, k + 1, Len(s)) \in Seq(Event)
  BY <1>0, <1>2, SubSeqProperties
<1>5. 1 \in 1..(Len(s) + 1) /\ k \in 1 - 1 .. Len(s) /\ Len(s) \in k..Len(s)
  BY <1>0
<1>6. SubSeq(s, 1, k) \o SubSeq(s, k + 1, Len(s)) = SubSeq(s, 1, Len(s))
  BY <1>5, ConcatAdjacentSubSeq
<1> QED
  BY <1>3, <1>4, <1>6, SubSeqFull

(* Two streams in order, one after the other, are allowed after a break.     *)
LEMMA AllowedJoin ==
  ASSUME NEW s \in Seq(Event), NEW t \in Seq(Event), InOrder(s), InOrder(t)
  PROVE  Allowed(s \o t)
<1>1. /\ s \o t \in Seq(Event)
      /\ Len(s \o t) = Len(s) + Len(t)
      /\ \A i \in 1..(Len(s) + Len(t)) :
           (s \o t)[i] = IF i <= Len(s) THEN s[i] ELSE t[i - Len(s)]
  BY EventsConcat
<1>2. Len(s) \in Nat /\ Len(t) \in Nat
  BY LenProperties
<1>3. Len(s) \in 0..Len(s \o t)
  BY <1>1, <1>2
<1> DEFINE a == SubSeq(s \o t, 1, Len(s))
           b == SubSeq(s \o t, Len(s) + 1, Len(s \o t))
<1>4. a = s
  <2>1. a \in Seq(Event) /\ Len(a) = Len(s)
    BY <1>1, <1>3, Halves
  <2>2. \A i \in 1..Len(s) : a[i] = (s \o t)[i]
    BY <1>1, <1>2, SubSeqProperties
  <2>3. \A i \in 1..Len(s) : a[i] = s[i]
    BY <1>1, <1>2, <2>2
  <2> HIDE DEF a
  <2> QED
    BY <2>1, <2>3, SeqEqual
<1>5. b = t
  <2>1. a \in Seq(Event) /\ b \in Seq(Event) /\ a \o b = s \o t
    BY <1>1, <1>3, Halves
  <2> HIDE DEF a, b
  <2> QED
    BY <1>4, <2>1, ConcatSimplifications
<1> HIDE DEF a, b
<1> QED
  BY <1>3, <1>4, <1>5 DEF Allowed, Contract!Allowed, InOrder, a, b

(* One is allowed as well.                                                   *)
LEMMA AllowedOne == ASSUME NEW s \in Seq(Event), InOrder(s) PROVE Allowed(s)
<1>1. <<>> \in Seq(Event) /\ s \o <<>> = s
  BY EmptySeq, ConcatEmptySeq
<1> QED
  BY <1>1, AllowedJoin, FailureInOrder

(* Sequences that agree and whose beginnings are of one length begin alike.  *)
LEMMA SameHead ==
  ASSUME NEW s \in Seq(Event), NEW t \in Seq(Event), NEW u \in Seq(Event), NEW v \in Seq(Event),
         s \o t = u \o v, Len(s) = Len(u)
  PROVE  s = u /\ t = v
<1>1. /\ \A i \in 1..(Len(s) + Len(t)) : (s \o t)[i] = IF i <= Len(s) THEN s[i] ELSE t[i - Len(s)]
      /\ \A i \in 1..(Len(u) + Len(v)) : (u \o v)[i] = IF i <= Len(u) THEN u[i] ELSE v[i - Len(u)]
  BY EventsConcat
<1>2. Len(s) \in Nat /\ Len(t) \in Nat /\ Len(v) \in Nat
  BY LenProperties
<1>3. \A i \in 1..Len(s) : s[i] = u[i]
  BY <1>1, <1>2
<1>4. s = u
  BY <1>3, SeqEqual
<1> QED
  BY <1>4, ConcatSimplifications

(* A part of what is allowed is allowed.                                     *)
LEMMA AllowedPart ==
  ASSUME NEW s \in Seq(Event), NEW t \in Seq(Event), Allowed(s \o t)
  PROVE  Allowed(s)
<1> DEFINE w == s \o t
<1>0. w \in Seq(Event) /\ Len(w) = Len(s) + Len(t) /\ Len(s) \in Nat /\ Len(t) \in Nat
  BY EventsConcat, LenProperties
<1>1. PICK k \in 0..Len(w) : InOrder(SubSeq(w, 1, k)) /\ InOrder(SubSeq(w, k + 1, Len(w)))
  BY DEF Allowed, Contract!Allowed, InOrder
<1> HIDE DEF w
<1> DEFINE u == SubSeq(w, 1, k)
           v == SubSeq(w, k + 1, Len(w))
<1>2. u \in Seq(Event) /\ v \in Seq(Event) /\ Len(u) = k /\ u \o v = w
  BY <1>0, Halves
<1>3. CASE k <= Len(s)
  <2> DEFINE p == SubSeq(s, 1, k)
             q == SubSeq(s, k + 1, Len(s))
  <2>1. k \in 0..Len(s)
    BY <1>0, <1>3
  <2>2. p \in Seq(Event) /\ q \in Seq(Event) /\ Len(p) = k /\ p \o q = s
    BY <2>1, Halves
  <2> HIDE DEF p, q, u, v
  <2>3. u = p /\ v = q \o t
    <3>1. q \o t \in Seq(Event) /\ p \o (q \o t) = (p \o q) \o t
      BY <2>2, EventsConcat
    <3>2. u \o v = p \o (q \o t)
      BY <1>2, <2>2, <3>1 DEF w
    <3> QED
      BY <1>2, <2>2, <3>1, <3>2, SameHead
  <2>4. InOrder(q)
    BY <1>1, <2>2, <2>3, OrderPart DEF v
  <2>5. InOrder(p)
    BY <1>1, <2>3 DEF u
  <2> QED
    BY <2>2, <2>4, <2>5, AllowedJoin
<1>4. CASE ~(k <= Len(s))
  <2> DEFINE p == SubSeq(u, 1, Len(s))
             q == SubSeq(u, Len(s) + 1, Len(u))
  <2>1. Len(s) \in 0..Len(u)
    BY <1>0, <1>2, <1>4
  <2>2. p \in Seq(Event) /\ q \in Seq(Event) /\ Len(p) = Len(s) /\ p \o q = u
    BY <1>2, <2>1, Halves
  <2> HIDE DEF p, q, u, v
  <2>3. p = s
    <3>1. q \o v \in Seq(Event) /\ p \o (q \o v) = (p \o q) \o v
      BY <1>2, <2>2, EventsConcat
    <3>2. p \o (q \o v) = s \o t
      BY <1>2, <2>2, <3>1 DEF w
    <3> QED
      BY <2>2, <3>1, <3>2, SameHead
  <2>4. InOrder(s)
    BY <1>1, <2>2, <2>3, OrderPart DEF u
  <2> QED
    BY <2>4, AllowedOne
<1> QED
  BY <1>0, <1>3, <1>4

(* What a step does to the events of a stream: more may arrive while its     *)
(* client is there, and none of what has arrived or is to come is changed    *)
(* but where a handler starts to answer.                                     *)
LEMMA WireGrows ==
  ASSUME DispatchTyped, NEW r \in Requests, Send(r) \/ Leave(r) \/ Handle(r)
  PROVE  /\ \A q \in Streams \ {r} : wire'[q] = wire[q] /\ Trail(q)' = Trail(q) /\ pc'[q] = pc[q]
         /\ r \in Streams =>
              \/ wire' = wire
              \/ r \notin gone /\ \E x \in Seq(Event) : wire'[r] = wire[r] \o x
<1> USE DEF Goto
<1>0. /\ pc \in [Requests -> PC] /\ todo \in [Requests -> Seq(Event)] /\ Streams \subseteq Requests
      /\ wire \in [Streams -> Seq(Event)]
  BY DEF DispatchTyped, Requests
<1>1. CASE CopyEvent(r) \/ EmitEvent(r)
  <2>1. r \in Streams
    BY <1>1, StreamsOnly
  <2>2. UNCHANGED pc
    BY <1>1 DEF CopyEvent, EmitEvent
  <2> QED
    BY <1>0, <1>1, <2>1, <2>2, EventSent DEF Trail
<1>2. CASE Respond(r)
  <2>1. UNCHANGED todo /\ \A q \in Streams \ {r} : pc'[q] = pc[q]
    BY <1>0, <1>2 DEF Respond
  <2>2. CASE r \in Json
    <3>1. r \notin Streams /\ UNCHANGED <<held, wire>>
      BY <1>2, <2>2, KindAssumption DEF Respond
    <3> QED
      BY <2>1, <3>1 DEF Trail
  <2>3. CASE r \in Streams
    BY <1>2, <2>1, <2>3, ResponseEnds DEF Trail
  <2> QED
    BY <2>2, <2>3 DEF Requests
<1>3. ASSUME UNCHANGED <<held, wire>>, \A q \in Streams \ {r} : todo'[q] = todo[q] /\ pc'[q] = pc[q]
      PROVE  /\ \A q \in Streams \ {r} : wire'[q] = wire[q] /\ Trail(q)' = Trail(q) /\ pc'[q] = pc[q]
             /\ wire' = wire
  BY <1>3 DEF Trail
<1>4. CASE Send(r) \/ Leave(r) \/ BuildPrompt(r) \/ Admit(r) \/ Deny(r) \/ RelayBegins(r)
           \/ RelayRefused(r) \/ CopyEnds(r) \/ CopyFails(r) \/ Persist(r)
  <2>1. UNCHANGED <<held, wire>> /\ \A q \in Streams \ {r} : todo'[q] = todo[q] /\ pc'[q] = pc[q]
    BY <1>0, <1>4 DEF Send, Leave, BuildPrompt, Admit, Deny, RelayBegins, RelayRefused, CopyEnds,
                CopyFails, Persist
  <2> QED
    BY <1>3, <2>1
<1>5. CASE Executed(r) \/ ExecutedEmpty(r) \/ ExecuteFails(r) \/ ExecutedNull(r)
           \/ EmitEnds(r) \/ EmitFails(r)
  <2>1. UNCHANGED <<held, wire>> /\ \A q \in Streams \ {r} : todo'[q] = todo[q] /\ pc'[q] = pc[q]
    BY <1>0, <1>5 DEF Executed, ExecutedEmpty, ExecuteFails, ExecutedNull, EmitEnds, EmitFails
  <2> QED
    BY <1>3, <2>1
<1> QED
  BY <1>1, <1>2, <1>4, <1>5 DEF Handle

(* Only a relay that fails breaks a stream off.                              *)
LEMMA BreaksByRelay ==
  ASSUME NEW r \in Requests, Send(r) \/ Leave(r) \/ Handle(r)
  PROVE  /\ CopyFails(r) \/ UNCHANGED broken
         /\ CopyFails(r) => wire' = wire /\ broken' = broken \union {r}
<1>1. CopyFails(r) \/ UNCHANGED broken
  BY DEF Handle, Send, Leave, BuildPrompt, Admit, Deny, RelayBegins, RelayRefused, CopyEvent,
     CopyEnds, Executed, ExecutedEmpty, ExecuteFails, ExecutedNull, EmitEvent, EmitEnds, EmitFails,
     Persist, Respond
<1>2. CopyFails(r) => wire' = wire /\ broken' = broken \union {r}
  BY DEF CopyFails
<1> QED
  BY <1>1, <1>2

(* All a client has and will get is in order, as long as it stays: what is  *)
(* answered is answered on an empty stream, or after a stream in order that  *)
(* was broken off.                                                           *)
LEMMA OrderStep ==
  ASSUME DispatchInv, OrderInv, [Next]_dvars
  PROVE  OrderInv'
<1> USE DEF Goto
<1>0. /\ DispatchTyped /\ Streams \subseteq Requests /\ broken \subseteq Streams
      /\ pc \in [Requests -> PC] /\ todo \in [Requests -> Seq(Event)]
  BY DEF DispatchInv, DispatchTyped, Requests
<1> DEFINE Opening == {"unsent", "prompt", "gate", "relay", "copy"}
<1>1. CASE UNCHANGED dvars
  BY <1>1 DEF OrderInv, Trail, Allowed, InOrder, dvars
<1>2. ASSUME NEW r \in Requests, Send(r) \/ Leave(r) \/ Handle(r) PROVE OrderInv'
  <2>0. gone \subseteq gone'
    BY <1>2 DEF Handle, Send, Leave, BuildPrompt, Admit, Deny, RelayBegins, RelayRefused,
       CopyEvent, CopyEnds, CopyFails, Executed, ExecutedEmpty, ExecuteFails, ExecutedNull,
       EmitEvent, EmitEnds, EmitFails, Persist, Respond
  <2>a. /\ \A q \in Streams \ {r} : wire'[q] = wire[q] /\ Trail(q)' = Trail(q) /\ pc'[q] = pc[q]
        /\ \A q \in Streams \ {r} : q \in broken' <=> q \in broken
        /\ CopyFails(r) => broken' = broken \union {r}
        /\ ~CopyFails(r) => broken' = broken
    BY <1>0, <1>2, WireGrows, BreaksByRelay
  <2>b. r \in broken => pc[r] \notin Opening
    BY DEF OrderInv
  <2>3. \A q \in broken' : pc'[q] \notin Opening
    <3>1. ASSUME NEW q \in broken', q # r PROVE pc'[q] \notin Opening
      <4>1. q \in broken
        BY <2>a, <3>1
      <4> QED
        BY <1>0, <2>a, <3>1, <4>1 DEF OrderInv
    <3>2. ASSUME r \in broken' PROVE pc'[r] \notin Opening
      <4>1. CASE CopyFails(r)
        BY <1>0, <4>1 DEF CopyFails
      <4>2. CASE ~CopyFails(r)
        <5>1. pc[r] \notin Opening
          BY <2>a, <2>b, <3>2, <4>2
        <5> QED
          BY <1>0, <1>2, <4>2, <5>1 DEF Handle, Send, Leave, BuildPrompt, Admit, Deny, RelayBegins,
             RelayRefused, CopyEvent, CopyEnds, Executed, ExecutedEmpty, ExecuteFails, ExecutedNull,
             EmitEvent, EmitEnds, EmitFails, Persist, Respond
      <4> QED
        BY <4>1, <4>2
    <3> QED
      BY <3>1, <3>2
  <2>1. ASSUME NEW q \in Streams \ gone', q # r
        PROVE  /\ IF q \in broken' THEN Allowed(Trail(q)') ELSE InOrder(Trail(q)')
               /\ pc'[q] = "execute" => IF q \in broken' THEN InOrder(Trail(q)')
                                                        ELSE Trail(q)' = <<>>
    <3>1. Trail(q)' = Trail(q) /\ pc'[q] = pc[q] /\ (q \in broken' <=> q \in broken)
      BY <2>a, <2>1
    <3>2. q \in Streams \ gone
      BY <2>0, <2>1
    <3> QED
      BY <3>1, <3>2 DEF OrderInv
  <2>2. ASSUME r \in Streams \ gone'
        PROVE  /\ IF r \in broken' THEN Allowed(Trail(r)') ELSE InOrder(Trail(r)')
               /\ pc'[r] = "execute" => IF r \in broken' THEN InOrder(Trail(r)')
                                                        ELSE Trail(r)' = <<>>
    <3>0. /\ r \in Streams /\ r \notin gone /\ r \notin Json
          /\ StreamInv(r)
          /\ IF r \in broken THEN Allowed(Trail(r)) ELSE InOrder(Trail(r))
          /\ pc[r] = "execute" => IF r \in broken THEN InOrder(Trail(r)) ELSE Trail(r) = <<>>
      BY <1>0, <2>0, <2>2, KindAssumption DEF DispatchInv, RequestInv, OrderInv
    <3>1. ASSUME Trail(r)' = Trail(r), broken' = broken,
                 pc'[r] = "execute" => r \notin broken /\ Trail(r) = <<>>
          PROVE  /\ IF r \in broken' THEN Allowed(Trail(r)') ELSE InOrder(Trail(r)')
                 /\ pc'[r] = "execute" => IF r \in broken' THEN InOrder(Trail(r)')
                                                          ELSE Trail(r)' = <<>>
      BY <3>0, <3>1
    <3>2. CASE Send(r) \/ BuildPrompt(r) \/ Admit(r) \/ Deny(r) \/ RelayRefused(r) \/ CopyEnds(r)
               \/ EmitEnds(r) \/ Persist(r)
      <4>1. /\ UNCHANGED <<todo, held, wire, broken>>
            /\ pc'[r] = "execute" => pc[r] = "relay"
        BY <1>0, <3>0, <3>2 DEF Send, BuildPrompt, Admit, Deny, RelayRefused, CopyEnds, EmitEnds,
           Persist
      <4>2. Trail(r)' = Trail(r)
        BY <4>1 DEF Trail
      <4>3. pc[r] = "relay" => r \notin broken /\ Trail(r) = <<>>
        BY <2>b, <3>0 DEF StreamInv
      <4> QED
        BY <3>1, <4>1, <4>2, <4>3
    <3>3. CASE CopyEvent(r) \/ EmitEvent(r)
      <4>1. UNCHANGED <<pc, broken>> /\ pc[r] # "execute"
        BY <3>3 DEF CopyEvent, EmitEvent
      <4>2. Trail(r)' = Trail(r)
        BY <1>0, <3>0, <3>3, EventSent
      <4> QED
        BY <3>1, <4>1, <4>2
    <3>4. CASE \/ RelayBegins(r) \/ Executed(r)
               \/ ExecutedEmpty(r) \/ ExecuteFails(r) \/ ExecutedNull(r)
      <4>1. /\ UNCHANGED <<held, wire, broken>> /\ pc[r] \in {"relay", "execute"}
            /\ pc'[r] # "execute"
            /\ (\E n \in Nat : todo'[r] = Flat(n)) \/ todo'[r] = Failure
        BY <1>0, <3>0, <3>4 DEF RelayBegins, Executed, ExecutedEmpty, ExecuteFails, ExecutedNull
      <4>2. todo'[r] \in Seq(Event) /\ InOrder(todo'[r])
        BY <4>1, FlatEvents, FailureEvents, AnswerInOrder, FailureInOrder
      <4>3. todo[r] = <<>>
        <5>1. pc[r] = "relay" => Trail(r) = <<>>
          BY <3>0 DEF StreamInv
        <5> QED
          BY <1>0, <3>0, <4>1, <5>1, TrailTyped DEF StreamInv
      <4>4. Trail(r) \in Seq(Event) /\ Trail(r)' = Trail(r) \o todo'[r]
        BY <1>0, <3>0, <4>1, <4>3, TrailTyped DEF Trail
      <4>5. CASE r \in broken
        <5>1. InOrder(Trail(r))
          BY <2>b, <3>0, <4>1, <4>5
        <5> QED
          BY <4>1, <4>2, <4>4, <4>5, <5>1, AllowedJoin
      <4>6. CASE r \notin broken
        <5>1. Trail(r) = <<>>
          BY <3>0, <4>1, <4>6 DEF StreamInv
        <5>2. Trail(r)' = todo'[r]
          BY <4>2, <4>4, <5>1, ConcatEmptySeq
        <5> QED
          BY <4>1, <4>2, <4>6, <5>2
      <4> QED
        BY <4>5, <4>6
    <3>5. CASE Respond(r)
      <4>1. /\ \A t \in Seq(Event) : wire'[r] \o held'[r] \o t = wire[r] \o held[r] \o t
            /\ UNCHANGED <<todo, broken>>
        BY <1>0, <3>0, <3>5, ResponseEnds DEF Respond
      <4>2. Trail(r)' = Trail(r) /\ pc'[r] # "execute"
        BY <1>0, <3>0, <3>5, <4>1 DEF Trail, Respond
      <4> QED
        BY <3>1, <4>1, <4>2
    <3>6. CASE CopyFails(r)
      <4>1. /\ UNCHANGED <<held, wire>> /\ todo'[r] = <<>> /\ r \in broken' /\ r \notin broken
        BY <1>0, <2>a, <2>b, <3>0, <3>6 DEF CopyFails
      <4>2. wire[r] \o held[r] \in Seq(Event) /\ todo[r] \in Seq(Event)
        BY <1>0, <3>0, TrailTyped
      <4>3. InOrder((wire[r] \o held[r]) \o todo[r])
        BY <3>0, <4>1 DEF Trail
      <4>4. InOrder(wire[r] \o held[r])
        BY <4>2, <4>3, OrderPart
      <4>5. Trail(r)' = wire[r] \o held[r]
        BY <4>1, <4>2, ConcatEmptySeq DEF Trail
      <4> QED
        BY <4>1, <4>2, <4>4, <4>5, AllowedOne
    <3>7. CASE EmitFails(r) \/ Leave(r)
      BY <2>2, <3>0, <3>7 DEF EmitFails, Leave
    <3> QED
      BY <1>2, <3>2, <3>3, <3>4, <3>5, <3>6, <3>7 DEF Handle
  <2> QED
    BY <2>1, <2>2, <2>3 DEF OrderInv, Allowed, InOrder
<1> QED
  BY <1>1, <1>2 DEF Next

(* Nothing is out of order before the first request.                         *)
LEMMA OrderStart == Init => OrderInv
<1> SUFFICES ASSUME Init PROVE OrderInv
  OBVIOUS
<1>1. ASSUME NEW r \in Streams PROVE Trail(r) = <<>>
  <2>1. wire[r] = <<>> /\ held[r] = <<>> /\ todo[r] = <<>>
    BY DEF Init, Requests
  <2>2. <<>> \o <<>> \o <<>> = <<>>
    BY ConcatEmptySeq, EmptySeq
  <2> QED
    BY <2>1, <2>2 DEF Trail
<1>2. broken = {} /\ \A r \in Streams : pc[r] # "execute"
  BY DEF Init, Requests
<1> QED
  BY <1>1, <1>2, FailureInOrder DEF OrderInv

(* What arrives is a step of the contract, and so is the end of a relay.     *)
LEMMA ReceiveStep ==
  ASSUME DispatchInv, DispatchInv', OrderInv, OrderInv', [Next]_dvars
  PROVE  [\E r \in Streams : Contract!Receive(r) \/ Contract!Break(r)]_<<wire, broken>>
<1>0. /\ DispatchTyped /\ DispatchTyped' /\ wire \in [Streams -> Seq(Event)]
      /\ wire' \in [Streams -> Seq(Event)]
  BY DEF DispatchInv, DispatchTyped
<1>1. CASE UNCHANGED dvars
  BY <1>1 DEF dvars
<1>3. ASSUME NEW r \in Requests, CopyFails(r)
      PROVE  \E q \in Streams : Contract!Break(q)
  <2>1. r \in Streams /\ pc[r] = "copy"
    BY <1>0, <1>3 DEF CopyFails, DispatchTyped, Requests
  <2>2. r \notin broken
    BY <2>1 DEF OrderInv
  <2>3. UNCHANGED wire /\ broken' = broken \union {r}
    BY <1>3 DEF CopyFails
  <2> QED
    BY <2>1, <2>2, <2>3 DEF Contract!Break
<1>2. ASSUME NEW r \in Requests, Send(r) \/ Leave(r) \/ Handle(r), wire' # wire, ~CopyFails(r)
      PROVE  \E q \in Streams : Contract!Receive(q)
  <2>1. \A q \in Streams \ {r} : wire'[q] = wire[q]
    BY <1>0, <1>2, WireGrows
  <2>2. r \in Streams
    BY <1>0, <1>2, <2>1
  <2>3. r \notin gone
    BY <1>0, <1>2, <2>2, WireGrows
  <2>4. PICK x \in Seq(Event) : wire'[r] = wire[r] \o x
    BY <1>0, <1>2, <2>2, WireGrows
  <2>5. wire[r] \in Seq(Event) /\ wire'[r] # wire[r]
    BY <1>0, <1>2, <2>1
  <2>6. x # <<>>
    BY <2>4, <2>5, ConcatEmptySeq
  <2>7. Len(x) \in Nat \ {0} /\ Len(wire[r]) \in Nat
    BY <2>5, <2>6, EmptySeq, LenProperties
  <2>8. Len(wire'[r]) > Len(wire[r])
    BY <2>4, <2>5, <2>7, EventsConcat
  <2>9. SubSeq(wire'[r], 1, Len(wire[r])) = wire[r]
    <3>1. CASE wire[r] = <<>>
      BY <3>1, SubSeqEmpty
    <3>2. CASE wire[r] # <<>>
      <4>1. 1 \in 1..Len(wire[r]) /\ Len(wire[r]) \in 1..Len(wire[r])
        BY <2>5, <2>7, <3>2, EmptySeq
      <4>2. SubSeq(wire[r] \o x, 1, Len(wire[r])) = SubSeq(wire[r], 1, Len(wire[r]))
        BY <2>5, <4>1, SubSeqOfConcat1
      <4>3. SubSeq(wire[r], 1, Len(wire[r])) = wire[r]
        BY <2>5, SubSeqFull
      <4> QED
        BY <2>4, <4>2, <4>3
    <3> QED
      BY <3>1, <3>2
  <2>11. UNCHANGED broken
    BY <1>2, BreaksByRelay
  <2>10. IF r \in broken THEN Contract!Allowed(wire'[r]) ELSE Contract!InOrder(wire'[r])
    <3>1. r \notin gone'
      <4>1. CASE Leave(r)
        BY <1>2, <4>1 DEF Leave
      <4>2. CASE Send(r) \/ Handle(r)
        <5>1. gone' = gone
          BY <4>2 DEF Handle, Send, BuildPrompt, Admit, Deny, RelayBegins, RelayRefused,
             CopyEvent, CopyEnds, CopyFails, Executed, ExecutedEmpty, ExecuteFails, ExecutedNull,
             EmitEvent, EmitEnds, EmitFails, Persist, Respond
        <5> QED
          BY <2>3, <5>1
      <4> QED
        BY <1>2, <4>1, <4>2
    <3>2. /\ wire'[r] \in Seq(Event) /\ held'[r] \in Seq(Event) /\ todo'[r] \in Seq(Event)
          /\ wire'[r] \o held'[r] \in Seq(Event)
      BY <1>0, <2>2, EventsConcat DEF DispatchTyped, Requests
    <3>3. IF r \in broken' THEN Allowed((wire'[r] \o held'[r]) \o todo'[r])
                          ELSE InOrder((wire'[r] \o held'[r]) \o todo'[r])
      BY <2>2, <3>1 DEF OrderInv, Trail, InOrder, Allowed
    <3>4. CASE r \in broken
      <4>1. Allowed(wire'[r] \o held'[r])
        BY <2>11, <3>2, <3>3, <3>4, AllowedPart
      <4>2. Allowed(wire'[r])
        BY <3>2, <4>1, AllowedPart
      <4> QED
        BY <3>4, <4>2 DEF Allowed
    <3>5. CASE r \notin broken
      <4>1. InOrder(wire'[r] \o held'[r])
        BY <2>11, <3>2, <3>3, <3>5, OrderPart
      <4>2. InOrder(wire'[r])
        BY <3>2, <4>1, OrderPart
      <4> QED
        BY <3>5, <4>2 DEF InOrder
    <3> QED
      BY <3>4, <3>5
  <2> QED
    BY <2>1, <2>2, <2>8, <2>9, <2>10, <2>11 DEF Contract!Receive
<1>4. ASSUME NEW r \in Requests, Send(r) \/ Leave(r) \/ Handle(r), wire' = wire, ~CopyFails(r)
      PROVE  UNCHANGED <<wire, broken>>
  BY <1>4, BreaksByRelay
<1> QED
  BY <1>1, <1>2, <1>3, <1>4 DEF Next

(* Each client sees one of the streams the contract allows, whatever the     *)
(* services do: a stream in order, and after one that was broken off at most *)
(* one more.                                                                 *)
THEOREM RefinesContract == Spec => KeepsContract
<1>1. Init => Contract!Init
  BY DEF Init, Contract!Init
<1>2. DispatchInv /\ OrderInv /\ [Next]_dvars => OrderInv'
  BY OrderStep
<1>3. DispatchInv /\ DispatchInv' /\ OrderInv /\ OrderInv' /\ [Next]_dvars
        => [\E r \in Streams : Contract!Receive(r) \/ Contract!Break(r)]_<<wire, broken>>
  BY ReceiveStep
<1> QED
  BY <1>1, <1>2, <1>3, OrderStart, DispatchSafe, PTL DEF Spec, KeepsContract, Contract!Spec
=============================================================================
