-------------------- MODULE AgentRunConversation_proofs ---------------------
(* Theorems about the conversation of AgentRun, for every value of its        *)
(* constants: where the Host's messages are told and where never, the shape   *)
(* of the requests, and the agreement of the Session with the history.        *)
EXTENDS AgentRunDecisions_proofs

-----------------------------------------------------------------------------
(* What a log says *)

(* The user messages of a log are among these texts.                         *)
SaysOnly(log, texts) ==
    \A n \in DOMAIN log : log[n].role = "user" => log[n].text \in texts

(* A follow-up stands behind a call-less assistant message or a follow-up.   *)
AtBoundary(log) ==
    \A n \in DOMAIN log :
        log[n].role = "user" /\ log[n].text \in FollowUps =>
            /\ n > 1
            /\ \/ log[n - 1].role = "assistant" /\ log[n - 1].calls = <<>>
               \/ log[n - 1].role = "user" /\ log[n - 1].text \in FollowUps

SaysAll(log, told) == \A q \in Queues : \A m \in ToSet(told[q]) : Says(log, m)

(* The texts a log may hold once these messages were injected.               *)
Spoken(told) == {Prompt} \cup UNION {ToSet(told[q]) : q \in Queues}

Sound(log, told) ==
    log \in Seq(Entries) /\ SaysOnly(log, Spoken(told)) /\ AtBoundary(log)

(* Where the request that was sent last is of this turn.                     *)
Sending == {"opening", "reading", "closing", "retrying"}

(* The messages of a queue are taken once each.                              *)
TakenOnce ==
    \A q \in Queues :
        /\ accepted[q] \in Seq(Texts[q])
        /\ \A i, j \in DOMAIN accepted[q] : accepted[q][i] = accepted[q][j] => i = j

(* No log says more than was injected; history, and the Session if there is  *)
(* one, say all of it, and so does the request of the turn.                  *)
ConversationInv ==
    /\ TakenOnce
    /\ Sound(session, injected) /\ Sound(history, injected) /\ Sound(request, injected)
    /\ SaysAll(history, injected)
    /\ WithSession => SaysAll(session, injected)
    /\ pc \in Sending => SaysAll(request, injected)
    /\ SettledServed

-----------------------------------------------------------------------------
(* What the queues hold *)

(* The members of a concatenation. *)
LEMMA ConcatMembers ==
    ASSUME NEW S, NEW a \in Seq(S), NEW b \in Seq(S)
    PROVE  /\ ToSet(a \o b) = ToSet(a) \cup ToSet(b)
           /\ DOMAIN a = 1..Len(a) /\ DOMAIN (a \o b) = 1..(Len(a) + Len(b))
           /\ \A n \in 1..Len(a) : (a \o b)[n] = a[n]
           /\ \A n \in 1..Len(b) : (a \o b)[n + Len(a)] = b[n]
<1>1. /\ DOMAIN a = 1..Len(a) /\ DOMAIN b = 1..Len(b) /\ Len(a) \in Nat /\ Len(b) \in Nat
      /\ DOMAIN (a \o b) = 1..(Len(a) + Len(b))
      /\ \A n \in 1..(Len(a) + Len(b)) :
            (a \o b)[n] = IF n <= Len(a) THEN a[n] ELSE b[n - Len(a)]
  BY ConcatProperties
<1>2. \A n \in 1..Len(a) : n \in DOMAIN (a \o b) /\ (a \o b)[n] = a[n]
  BY <1>1
<1>3. \A n \in 1..Len(b) : n + Len(a) \in DOMAIN (a \o b) /\ (a \o b)[n + Len(a)] = b[n]
  BY <1>1
<1>4. \A n \in DOMAIN (a \o b) :
         \/ n \in 1..Len(a) /\ (a \o b)[n] = a[n]
         \/ n - Len(a) \in 1..Len(b) /\ (a \o b)[n] = b[n - Len(a)]
  BY <1>1
<1>5. ToSet(a \o b) = ToSet(a) \cup ToSet(b)
  BY <1>1, <1>2, <1>3, <1>4 DEF ToSet
<1> QED BY <1>1, <1>2, <1>3, <1>5

LEMMA ConcatSet ==
    ASSUME NEW S, NEW a \in Seq(S), NEW b \in Seq(S)
    PROVE  ToSet(a \o b) = ToSet(a) \cup ToSet(b)
BY ONLY ConcatMembers, a \in Seq(S), b \in Seq(S), SMT

(* What is injected, waits or was dropped was taken for that queue, and what *)
(* was dropped was not injected.                                             *)
LEMMA QueueTexts ==
    ASSUME QueueInv, TakenOnce, NEW q \in Queues
    PROVE  /\ ToSet(injected[q]) \subseteq Texts[q]
           /\ ToSet(queue[q]) \subseteq Texts[q]
           /\ ToSet(dropped[q]) \subseteq Texts[q]
           /\ ToSet(injected[q]) \cap ToSet(dropped[q]) = {}
<1> DEFINE S == Steering \cup FollowUps
           a == injected[q]
           b == queue[q]
           c == dropped[q]
<1>1. a \in Seq(S) /\ b \in Seq(S) /\ c \in Seq(S) /\ accepted[q] = (a \o b) \o c
  BY DEF QueueInv, Waiting, MessagesConserved
<1> HIDE DEF S, a, b, c
<1>2. a \o b \in Seq(S)
  BY <1>1, ConcatProperties
<1>3. /\ ToSet(a \o b) = ToSet(a) \cup ToSet(b)
      /\ DOMAIN a = 1..Len(a)
      /\ DOMAIN (a \o b) = 1..(Len(a) + Len(b))
      /\ \A n \in 1..Len(a) : (a \o b)[n] = a[n]
  BY <1>1, ConcatMembers
<1> DEFINE ab == a \o b
<1>4. /\ ToSet(accepted[q]) = ToSet(ab) \cup ToSet(c)
      /\ DOMAIN ab = 1..Len(ab)
      /\ DOMAIN accepted[q] = 1..(Len(ab) + Len(c))
      /\ \A n \in 1..Len(ab) : accepted[q][n] = ab[n]
      /\ \A n \in 1..Len(c) : accepted[q][n + Len(ab)] = c[n]
  <2> HIDE DEF ab
  <2>1. accepted[q] = ab \o c /\ ab \in Seq(S)
    BY <1>1, <1>2 DEF ab
  <2> QED BY <1>1, <2>1, ConcatMembers
<1>5. ToSet(accepted[q]) \subseteq Texts[q]
  BY DEF TakenOnce, ToSet
<1>6. ToSet(a) \cap ToSet(c) = {}
  <2> SUFFICES ASSUME NEW m \in DOMAIN a, NEW n \in DOMAIN c, a[m] = c[n] PROVE FALSE
    BY DEF ToSet
  <2>1. Len(a) \in Nat /\ Len(b) \in Nat /\ Len(c) \in Nat /\ DOMAIN c = 1..Len(c)
    BY <1>1
  <2>2. Len(a \o b) = Len(a) + Len(b)
    BY <1>1, ConcatProperties
  <2>3. m \in DOMAIN accepted[q] /\ accepted[q][m] = a[m]
    BY <1>3, <1>4, <2>1, <2>2
  <2>4. /\ n + Len(a \o b) \in DOMAIN accepted[q]
        /\ accepted[q][n + Len(a \o b)] = c[n]
    BY <1>4, <2>1, <2>2
  <2>5. m # n + Len(a \o b)
    BY <1>3, <2>1, <2>2
  <2> QED BY <2>3, <2>4, <2>5 DEF TakenOnce
<1> QED BY <1>3, <1>4, <1>5, <1>6 DEF a, b, c

-----------------------------------------------------------------------------
(* How a log grows *)

(* A longer log says all a shorter one says. *)
LEMMA SaysAllGrows ==
    ASSUME NEW log \in Seq(Entries), NEW more \in Seq(Entries), NEW told, SaysAll(log, told)
    PROVE  SaysAll(log \o more, told)
BY ConcatMembers DEF SaysAll, Says

(* Assistant messages and results do not speak for the Host. *)
LEMMA SoundGrows ==
    ASSUME NEW log, NEW more \in Seq(Entries), NEW told, Sound(log, told),
           \A n \in DOMAIN more : more[n].role # "user"
    PROVE  Sound(log \o more, told)
<1>1. log \in Seq(Entries)
  BY DEF Sound
<1>2. /\ log \o more \in Seq(Entries)
      /\ DOMAIN log = 1..Len(log) /\ DOMAIN more = 1..Len(more)
      /\ Len(log) \in Nat /\ Len(more) \in Nat
      /\ DOMAIN (log \o more) = 1..(Len(log) + Len(more))
      /\ \A n \in 1..(Len(log) + Len(more)) :
            (log \o more)[n] = IF n <= Len(log) THEN log[n] ELSE more[n - Len(log)]
  BY <1>1, ConcatProperties
<1> DEFINE both == log \o more
<1>3. \A n \in DOMAIN both : both[n].role = "user" => n \in DOMAIN log /\ both[n] = log[n]
  BY <1>2
<1>4. \A n \in DOMAIN log : n > 1 => both[n - 1] = log[n - 1]
  BY <1>2
<1>5. both \in Seq(Entries)
  BY <1>2
<1> HIDE DEF both
<1>6. SaysOnly(both, Spoken(told))
  BY <1>3 DEF Sound, SaysOnly
<1>7. AtBoundary(both)
  BY <1>3, <1>4 DEF Sound, AtBoundary
<1>8. Sound(both, told)
  BY <1>5, <1>6, <1>7 DEF Sound
<1> QED BY <1>8 DEF both

(* A user message that is no follow-up may stand anywhere. *)
LEMMA PromptSound ==
    ASSUME NEW log, NEW told, Sound(log, told)
    PROVE  Sound(Recorded(log, <<User(Prompt)>>), told)
<1>1. User(Prompt).role = "user" /\ User(Prompt).text = Prompt /\ User(Prompt) \in Entries
  BY EntryTypes DEF User
<1>2. log \in Seq(Entries) /\ <<User(Prompt)>> \in Seq(Entries)
  BY <1>1 DEF Sound
<1> DEFINE both == log \o <<User(Prompt)>>
<1>3. /\ both \in Seq(Entries)
      /\ \A n \in DOMAIN both : \/ n \in DOMAIN log /\ both[n] = log[n]
                                \/ both[n] = User(Prompt)
      /\ \A n \in DOMAIN log : n > 1 => both[n - 1] = log[n - 1]
  BY <1>2
<1> HIDE DEF both
<1>4. SaysOnly(both, Spoken(told))
  BY <1>1, <1>3 DEF Sound, SaysOnly, Spoken
<1>5. AtBoundary(both)
  BY <1>1, <1>3, RunAssumption DEF Sound, AtBoundary
<1>6. Sound(both, told)
  BY <1>3, <1>4, <1>5 DEF Sound
<1> QED BY <1>6 DEF both, Recorded

(* What a drain tells as injected. *)
LEMMA InjectedGrows ==
    ASSUME QueueInv, NEW q \in Queues, Drain(q)
    PROVE  /\ ToSet(injected'[q]) = ToSet(injected[q]) \cup ToSet(queue[q])
           /\ \A r \in Queues : r # q => injected'[r] = injected[r]
           /\ ToSet(queue[q]) \subseteq Spoken(injected')
           /\ Spoken(injected) \subseteq Spoken(injected')
<1>1. injected \in Waiting /\ injected' = [injected EXCEPT ![q] = @ \o queue[q]]
  BY DEF Drain, QueueInv
<1>2. injected'[q] = injected[q] \o queue[q] /\ \A r \in Queues : r # q => injected'[r] = injected[r]
  BY <1>1 DEF Waiting
<1>3. PICK X : injected[q] \in Seq(X) /\ queue[q] \in Seq(X)
  BY DEF QueueInv, Waiting
<1>4. ToSet(injected[q] \o queue[q]) = ToSet(injected[q]) \cup ToSet(queue[q])
  BY <1>3, ConcatSet, Zenon
<1>5. ToSet(injected'[q]) = ToSet(injected[q]) \cup ToSet(queue[q])
  BY <1>2, <1>4
<1> QED BY <1>2, <1>5 DEF Spoken

(* What may be followed by follow-ups. *)
EndsTurn(log) ==
    /\ log # <<>>
    /\ log[Len(log)].role = "assistant" /\ log[Len(log)].calls = <<>>

(* What a queue held is injected and told, at a boundary if it is that of    *)
(* the follow-ups.                                                           *)
LEMMA UsersSound ==
    ASSUME QueueInv, TakenOnce, NEW q \in Queues, Drain(q), NEW log, Sound(log, injected),
           q = "follow_up" => EndsTurn(log)
    PROVE  Sound(log \o Users(q), injected')
<1>1. log \in Seq(Entries) /\ Users(q) \in Seq(Entries) /\ queue[q] \in Seq(Steering \cup FollowUps)
  BY UsersType DEF Sound, QueueInv, Waiting
<1>2. Len(Users(q)) = Len(queue[q]) /\ DOMAIN queue[q] = 1..Len(queue[q])
  BY <1>1 DEF Users
<1>3. \A n \in 1..Len(Users(q)) :
         /\ Users(q)[n].role = "user" /\ Users(q)[n].text = queue[q][n]
         /\ Users(q)[n].text \in ToSet(queue[q])
  BY <1>2 DEF Users, User, ToSet
<1> DEFINE more == Users(q)
           both == log \o more
<1>4. /\ both \in Seq(Entries)
      /\ DOMAIN log = 1..Len(log) /\ DOMAIN more = 1..Len(more)
      /\ Len(log) \in Nat /\ Len(more) \in Nat
      /\ DOMAIN both = 1..(Len(log) + Len(more))
      /\ \A n \in 1..(Len(log) + Len(more)) :
            both[n] = IF n <= Len(log) THEN log[n] ELSE more[n - Len(log)]
  BY <1>1, ConcatProperties
<1>5. ToSet(queue[q]) \subseteq Spoken(injected') /\ Spoken(injected) \subseteq Spoken(injected')
  BY InjectedGrows
<1>6. ToSet(queue[q]) \subseteq Texts[q]
  BY QueueTexts
<1> HIDE DEF both, more
<1>7. SaysOnly(both, Spoken(injected'))
  <2> SUFFICES ASSUME NEW n \in DOMAIN both, both[n].role = "user"
               PROVE  both[n].text \in Spoken(injected')
    BY DEF SaysOnly
  <2>1. CASE n <= Len(log)
    <3>1. n \in DOMAIN log /\ both[n] = log[n]
      BY <1>4, <2>1
    <3> QED BY <1>5, <3>1 DEF Sound, SaysOnly
  <2>2. CASE n > Len(log)
    <3>1. n - Len(log) \in 1..Len(more) /\ both[n] = more[n - Len(log)]
      BY <1>4, <2>2
    <3> QED BY <1>3, <1>5, <3>1 DEF more
  <2> QED BY <1>4, <2>1, <2>2
<1>8. AtBoundary(both)
  <2> SUFFICES ASSUME NEW n \in DOMAIN both, both[n].role = "user", both[n].text \in FollowUps
               PROVE  /\ n > 1
                      /\ \/ both[n - 1].role = "assistant" /\ both[n - 1].calls = <<>>
                         \/ both[n - 1].role = "user" /\ both[n - 1].text \in FollowUps
    BY DEF AtBoundary
  <2>1. CASE n <= Len(log)
    <3>1. n \in DOMAIN log /\ both[n] = log[n]
      BY <1>4, <2>1
    <3>2. n > 1
      BY <3>1 DEF Sound, AtBoundary
    <3>3. both[n - 1] = log[n - 1]
      BY <1>4, <2>1, <3>2
    <3> QED BY <3>1, <3>2, <3>3 DEF Sound, AtBoundary
  <2>2. CASE n > Len(log)
    <3>1. n - Len(log) \in 1..Len(more) /\ both[n] = more[n - Len(log)]
      BY <1>4, <2>2
    <3>2. q = "follow_up"
      <4>1. both[n].text \in Texts[q]
        BY <1>3, <1>6, <3>1 DEF more
      <4> QED BY <4>1, RunAssumption DEF Texts, Queues
    <3>3. Len(log) >= 1 /\ EndsTurn(log)
      BY <1>1, <1>4, <3>2 DEF EndsTurn
    <3>4. CASE n = Len(log) + 1
      <4>1. n > 1 /\ both[n - 1] = log[Len(log)]
        BY <1>4, <3>3, <3>4
      <4> QED BY <3>3, <4>1 DEF EndsTurn
    <3>5. CASE n # Len(log) + 1
      <4>1. /\ n > 1 /\ n - 1 - Len(log) \in 1..Len(more)
            /\ both[n - 1] = more[n - 1 - Len(log)]
        BY <1>4, <2>2, <3>3, <3>5
      <4>2. both[n - 1].role = "user" /\ both[n - 1].text \in Texts[q]
        BY <1>3, <1>6, <4>1 DEF more
      <4> QED BY <3>2, <4>1, <4>2 DEF Texts
    <3> QED BY <3>4, <3>5
  <2> QED BY <1>4, <2>1, <2>2
<1>9. Sound(both, injected')
  BY <1>4, <1>7, <1>8 DEF Sound
<1> QED BY <1>9 DEF both, more

LEMMA UsersSaid ==
    ASSUME QueueInv, NEW q \in Queues, Drain(q), NEW log \in Seq(Entries), SaysAll(log, injected)
    PROVE  SaysAll(log \o Users(q), injected')
<1>1. Users(q) \in Seq(Entries) /\ queue[q] \in Seq(Steering \cup FollowUps)
  BY UsersType DEF QueueInv, Waiting
<1>2. ToSet(log \o Users(q)) = ToSet(log) \cup ToSet(Users(q))
  BY <1>1, ConcatSet, Zenon
<1>3. \A m \in ToSet(queue[q]) : User(m) \in ToSet(Users(q))
  <2>1. DOMAIN queue[q] = 1..Len(queue[q]) /\ DOMAIN Users(q) = 1..Len(queue[q])
    BY <1>1 DEF Users
  <2>2. \A n \in 1..Len(queue[q]) : Users(q)[n] = User(queue[q][n])
    BY DEF Users
  <2> QED BY <2>1, <2>2 DEF ToSet
<1> QED BY <1>2, <1>3, InjectedGrows DEF SaysAll, Says

(* More was injected since. *)
LEMMA SoundStays ==
    ASSUME QueueInv, NEW q \in Queues, Drain(q), NEW log, Sound(log, injected)
    PROVE  Sound(log, injected')
BY InjectedGrows DEF Sound, SaysOnly

-----------------------------------------------------------------------------
(* The steps *)

(* A step after which the messages told and the logs are as before.          *)
LEMMA ConversationKept ==
    ASSUME ConversationInv, UNCHANGED <<injected, accepted, session, history, request>>,
           pc' \in Sending => pc \in Sending, state' # "settled"
    PROVE  ConversationInv'
BY DEF ConversationInv, TakenOnce, Sound, SaysOnly, AtBoundary, SaysAll, Says, SettledServed

(* Making the request of a turn, or failing to. *)
LEMMA ContextSound ==
    ASSUME state = "active", TakenOnce', NEW log, NEW sent,
           Sound(log, injected'), Sound(sent, injected'),
           WithSession => SaysAll(log, injected') /\ SaysAll(sent, injected'),
           Sound(history', injected'), SaysAll(history', injected'),
           Sound(request, injected'), BuildContext(log, sent)
    PROVE  ConversationInv'
<1> USE DEF ConversationInv, SettledServed
<1>1. CASE Suspend("opening") /\ session' = sent /\ request' = IF WithSession THEN sent ELSE history'
  BY <1>1 DEF Suspend
<1>2. CASE (Suspend("compacting") \/ Finish("failed")) /\ session' = log /\ UNCHANGED request
  BY <1>2 DEF Suspend, Finish, Sending
<1> QED BY <1>1, <1>2 DEF BuildContext, ContextBuilt

LEMMA NextTurnSound ==
    ASSUME state = "active", TakenOnce', NEW log, NEW past,
           Sound(log, injected'), WithSession => SaysAll(log, injected'),
           Sound(past, injected'), SaysAll(past, injected'),
           Sound(request, injected'), NextTurn(log, past)
    PROVE  ConversationInv'
<1>1. CASE history' = past /\ BuildContext(log, log)
  BY <1>1, ContextSound
<1>2. CASE history' = past /\ Finish("failed") /\ session' = log /\ UNCHANGED <<loop, request>>
  <2>1. /\ pc' = "done" /\ state' = "failed" /\ history' = past /\ session' = log
        /\ UNCHANGED request
    BY <1>2 DEF Finish
  <2> QED BY <2>1 DEF ConversationInv, SettledServed, Sending
<1> QED BY <1>1, <1>2 DEF NextTurn

(* The next turn after a drain, which adds what was drained to every log.    *)
LEMMA DrainSound ==
    ASSUME QueueInv, ConversationInv, state = "active", NEW q \in Queues, Drain(q),
           NEW log, NEW past, Sound(log, injected), Sound(past, injected),
           WithSession => SaysAll(log, injected), SaysAll(past, injected),
           q = "follow_up" => EndsTurn(past) /\ (WithSession => EndsTurn(log)),
           NextTurn(Recorded(log, Users(q)), past \o Users(q))
    PROVE  ConversationInv'
<1>1. TakenOnce /\ TakenOnce'
  BY DEF ConversationInv, TakenOnce, Drain
<1>2. Sound(past \o Users(q), injected') /\ SaysAll(past \o Users(q), injected')
  <2>1. past \in Seq(Entries)
    BY DEF Sound
  <2> QED BY <1>1, <2>1, UsersSound, UsersSaid
<1>3. /\ Sound(Recorded(log, Users(q)), injected')
      /\ WithSession => SaysAll(Recorded(log, Users(q)), injected')
  <2>1. log \in Seq(Entries)
    BY DEF Sound
  <2>2. CASE WithSession
    BY <1>1, <2>1, <2>2, UsersSound, UsersSaid DEF Recorded
  <2>3. CASE ~WithSession
    BY <2>3, SoundStays DEF Recorded
  <2> QED BY <2>2, <2>3
<1>4. Sound(request, injected')
  BY SoundStays DEF ConversationInv
<1> QED BY <1>1, <1>2, <1>3, <1>4, NextTurnSound

(* The assistant message of a turn joins the logs.                           *)
LEMMA AssistantSound ==
    ASSUME ConversationInv, turn \in 1..MaxTurns, NEW cs \in Replies, NEW log,
           Sound(log, injected)
    PROVE  LET one == <<Assistant(turn, cs)>>
           IN  /\ Sound(log \o one, injected)
               /\ SaysAll(log, injected) => SaysAll(log \o one, injected)
               /\ (log \o one)[Len(log \o one)] = Assistant(turn, cs)
               /\ log \o one # <<>>
               /\ log \o one = Append(log, Assistant(turn, cs))
<1> DEFINE one == <<Assistant(turn, cs)>>
<1>1. one \in Seq(Entries) /\ log \in Seq(Entries) /\ Assistant(turn, cs) \in Entries
  BY EntryTypes DEF Sound
<1>2. \A n \in DOMAIN one : one[n].role # "user"
  BY DEF Assistant
<1>3. log \o one = Append(log, Assistant(turn, cs))
  BY <1>1
<1>4. Append(log, Assistant(turn, cs)) # <<>> /\ Len(Append(log, Assistant(turn, cs))) = Len(log) + 1
      /\ Append(log, Assistant(turn, cs))[Len(log) + 1] = Assistant(turn, cs)
  BY <1>1, AppendProperties
<1> HIDE DEF one
<1>5. Sound(log \o one, injected) /\ (SaysAll(log, injected) => SaysAll(log \o one, injected))
  BY <1>1, <1>2, SoundGrows, SaysAllGrows
<1> QED BY <1>3, <1>4, <1>5 DEF one

LEMMA ConcludeSound ==
    ASSUME QueueInv, ConversationInv, state = "active", pc = "closing", NEW log, NEW past,
           Sound(log, injected), Sound(past, injected),
           WithSession => SaysAll(log, injected) /\ EndsTurn(log), SaysAll(past, injected),
           past # <<>>, past[Len(past)] = Assistant(turn, <<>>), Conclude(log, past)
    PROVE  ConversationInv'
<1>1. EndsTurn(past)
  BY DEF EndsTurn, Assistant
<1>2. ASSUME NEW q \in Queues, Drain(q), NextTurn(Recorded(log, Users(q)), past \o Users(q))
      PROVE  ConversationInv'
  BY <1>1, <1>2, DrainSound
<1>3. CASE /\ queue = Empty /\ Finish("settled") /\ session' = log /\ history' = past
           /\ UNCHANGED <<messages, loop, request>>
  <2>1. SaysAll(request, injected) /\ Sound(request, injected) /\ TakenOnce
    BY DEF ConversationInv, Sending
  <2>2. SettledServed'
    BY <1>3, <2>1 DEF SettledServed, SaysAll, Last, messages, loop, Says
  <2>3. pc' \notin Sending
    BY <1>3 DEF Finish, Sending
  <2> QED BY <1>3, <2>1, <2>2, <2>3 DEF ConversationInv, TakenOnce, messages
<1> QED BY <1>2, <1>3 DEF Conclude, Queues

LEMMA RespondSound ==
    ASSUME QueueInv, ConversationInv, turn \in 1..MaxTurns, state = "active", pc = "closing",
           NEW cs \in Replies, Respond(cs)
    PROVE  ConversationInv'
<1> DEFINE log == Recorded(session, <<Assistant(turn, cs)>>)
           past == Append(history, Assistant(turn, cs))
<1>1. /\ Sound(past, injected) /\ SaysAll(past, injected)
      /\ past # <<>> /\ past[Len(past)] = Assistant(turn, cs)
  BY AssistantSound DEF ConversationInv
<1>2. /\ Sound(log, injected)
      /\ WithSession => /\ SaysAll(log, injected)
                        /\ log # <<>> /\ log[Len(log)] = Assistant(turn, cs)
  <2>1. CASE WithSession
    BY <2>1, AssistantSound DEF ConversationInv, Recorded
  <2>2. CASE ~WithSession
    BY <2>2 DEF ConversationInv, Recorded
  <2> QED BY <2>1, <2>2
<1>3. CASE cs = <<>> /\ Conclude(log, past)
  <2> HIDE DEF log, past
  <2>1. WithSession => EndsTurn(log)
    BY <1>2, <1>3 DEF EndsTurn, Assistant
  <2> QED BY <1>1, <1>2, <1>3, <2>1, ConcludeSound
<1>4. CASE /\ \E first, granted, told : Authorise(cs, first, granted, told)
           /\ session' = log /\ history' = past /\ UNCHANGED <<messages, loop, request>>
  <2>1. pc' \in {"permission", "batch"} /\ state' = "active"
    BY <1>4 DEF Authorise, Suspend
  <2> HIDE DEF log, past
  <2> QED
    BY <1>1, <1>2, <1>4, <2>1 DEF ConversationInv, TakenOnce, SettledServed, Sending, messages
<1> QED BY <1>3, <1>4 DEF Respond

(* Results join the logs in one order or another.                            *)
LEMMA ResultsSound ==
    ASSUME TypeInv, pc = "batch", \A k \in DOMAIN tool : tool[k] \notin {"waiting", "running"},
           NEW ks \in Seq(1..Len(calls)), NEW log, NEW told, Sound(log, told)
    PROVE  /\ Sound(log \o InOrderOf(ks), told)
           /\ SaysAll(log, told) => SaysAll(log \o InOrderOf(ks), told)
<1>1. turn \in 1..MaxTurns /\ Len(calls) \in 0..MaxCalls
  <2>1. calls \in Replies
    BY DEF TypeInv, TypeOK, BatchOK
  <2> QED BY <2>1, RepliesType DEF TypeInv, TypeOK, LoopOK, Placement
<1>2. \A k \in 1..Len(calls) : tool[k] \in Ended
  BY DEF TypeInv, Placement, Ended
<1>3. InOrderOf(ks) \in Seq(Entries) /\ log \in Seq(Entries)
  BY <1>1, <1>2, ResultsType DEF Sound
<1>4. \A n \in DOMAIN InOrderOf(ks) : InOrderOf(ks)[n].role # "user"
  BY DEF InOrderOf, Result
<1> QED BY <1>3, <1>4, SoundGrows, SaysAllGrows

LEMMA BatchDoneSound ==
    ASSUME QueueInv, TypeInv, ConversationInv, state = "active", BatchDone
    PROVE  ConversationInv'
<1>1. /\ pc = "batch" /\ Drain("steering") /\ "steering" \in Queues
      /\ \A k \in DOMAIN tool : tool[k] \notin {"waiting", "running"}
  BY DEF BatchDone, Queues
<1>2. PICK rejected \in Ascending({k \in DOMAIN calls : calls[k] = "rejected"}) :
        LET log == Recorded(session, InOrderOf(completion \o rejected))
            past == history \o InOrderOf([k \in 1..Len(calls) |-> k])
        IN  NextTurn(Recorded(log, Users("steering")), past \o Users("steering"))
  BY DEF BatchDone
<1>3. calls \in Replies /\ completion \in Seq(1..Len(calls))
  BY DEF TypeInv, TypeOK, BatchOK
<1>4. Len(calls) \in Nat /\ DOMAIN calls = 1..Len(calls)
  BY <1>3, RepliesType, RunAssumption
<1>5. completion \o rejected \in Seq(1..Len(calls))
  <2> DEFINE S == {k \in DOMAIN calls : calls[k] = "rejected"}
  <2>1. S \in SUBSET (1..Len(calls))
    BY <1>4
  <2> HIDE DEF S
  <2>2. rejected \in Ascending(S)
    BY <1>2 DEF S
  <2>3. rejected \in Seq(S)
    BY <1>4, <2>1, <2>2, AscendingType
  <2>4. rejected \in Seq(1..Len(calls))
    <3>1. rejected \in [1..Len(rejected) -> S] /\ Len(rejected) \in Nat
      BY <2>3
    <3>2. rejected \in [1..Len(rejected) -> 1..Len(calls)]
      BY <2>1, <3>1
    <3> QED BY <3>1, <3>2
  <2> QED BY <1>3, <2>4, ConcatProperties
<1>6. [k \in 1..Len(calls) |-> k] \in Seq(1..Len(calls))
  BY <1>4
<1> DEFINE log == Recorded(session, InOrderOf(completion \o rejected))
           past == history \o InOrderOf([k \in 1..Len(calls) |-> k])
<1>7. Sound(past, injected) /\ SaysAll(past, injected)
  BY <1>1, <1>6, ResultsSound DEF ConversationInv
<1>8. Sound(log, injected) /\ (WithSession => SaysAll(log, injected))
  BY <1>1, <1>5, ResultsSound DEF ConversationInv, Recorded
<1>9. NextTurn(Recorded(log, Users("steering")), past \o Users("steering"))
  BY <1>2
<1> HIDE DEF log, past
<1> QED BY <1>1, <1>7, <1>8, <1>9, DrainSound

LEMMA HostSound ==
    ASSUME ConversationInv, QueueInv, Host
    PROVE  ConversationInv'
<1>1. state = "active" /\ UNCHANGED <<state, pc>>
  BY DEF Host, Enqueue, Cancel, Resolve, lifecycle
<1>2. ASSUME NEW q \in Queues, NEW m \in Texts[q], Enqueue(q, m)
      PROVE  ConversationInv'
  <2>1. UNCHANGED <<injected, session, history, request>>
    BY <1>2 DEF Enqueue, transcript
  <2>2. accepted \in Waiting /\ accepted' = [accepted EXCEPT ![q] = Append(@, m)]
    BY <1>2 DEF Enqueue, QueueInv
  <2>3. TakenOnce'
    <3> SUFFICES ASSUME NEW r \in Queues
                 PROVE  /\ accepted'[r] \in Seq(Texts[r])
                        /\ \A i, j \in DOMAIN accepted'[r] :
                              accepted'[r][i] = accepted'[r][j] => i = j
      BY DEF TakenOnce
    <3>1. /\ accepted[r] \in Seq(Texts[r])
          /\ \A i, j \in DOMAIN accepted[r] : accepted[r][i] = accepted[r][j] => i = j
      BY DEF ConversationInv, TakenOnce
    <3>2. CASE r # q
      <4>1. accepted'[r] = accepted[r]
        BY <2>2, <3>2 DEF Waiting
      <4> QED BY <3>1, <4>1
    <3>3. CASE r = q
      <4>1. accepted'[r] = Append(accepted[r], m) /\ m \in Texts[r]
        BY <2>2, <3>3 DEF Waiting
      <4>2. \A i \in DOMAIN accepted[r] : accepted[r][i] # m
        BY <1>2, <3>3 DEF Enqueue, ToSet
      <4>3. /\ accepted'[r] \in Seq(Texts[r])
            /\ DOMAIN accepted[r] = 1..Len(accepted[r]) /\ Len(accepted[r]) \in Nat
            /\ DOMAIN accepted'[r] = 1..(Len(accepted[r]) + 1)
            /\ \A i \in 1..Len(accepted[r]) : accepted'[r][i] = accepted[r][i]
            /\ accepted'[r][Len(accepted[r]) + 1] = m
        <5>1. PICK s, X : s = accepted[r] /\ X = Texts[r]
          OBVIOUS
        <5>2. s \in Seq(X) /\ m \in X /\ accepted'[r] = Append(s, m)
          BY <3>1, <4>1, <5>1
        <5>3. /\ Append(s, m) \in Seq(X) /\ Len(Append(s, m)) = Len(s) + 1
              /\ DOMAIN s = 1..Len(s) /\ Len(s) \in Nat
              /\ \A i \in 1..Len(s) : Append(s, m)[i] = s[i]
              /\ Append(s, m)[Len(s) + 1] = m
          BY <5>2, AppendProperties
        <5>4. DOMAIN Append(s, m) = 1..(Len(s) + 1)
          BY <5>3
        <5> QED BY <5>1, <5>2, <5>3, <5>4
      <4> QED BY <3>1, <4>2, <4>3
    <3> QED BY <3>2, <3>3
  <2> QED
    BY <1>1, <2>1, <2>3
       DEF ConversationInv, Sound, SaysOnly, AtBoundary, SaysAll, Says, SettledServed
<1>3. CASE Cancel \/ \E approved \in BOOLEAN : Resolve(approved)
  <2>1. UNCHANGED <<injected, accepted, session, history, request>>
    BY <1>3 DEF Cancel, Resolve, messages
  <2> QED BY <1>1, <2>1, ConversationKept
<1> QED BY <1>2, <1>3 DEF Host

LEMMA ConversationInvInductive ==
    ASSUME ConversationInv, QueueInv, TypeInv, QuietInv, [Next]_vars
    PROVE  ConversationInv'
<1>1. CASE UNCHANGED vars
  BY <1>1 DEF vars, lifecycle, messages, loop, transcript, ConversationInv, TakenOnce, Sound,
              SaysOnly, AtBoundary, SaysAll, Says, SettledServed
<1>2. CASE Host
  BY <1>2, HostSound
<1> DEFINE Still == UNCHANGED <<injected, accepted, session, history, request>>
<1>3. CASE Tools
  <2>1. Still /\ UNCHANGED <<pc, state>> /\ pc \in {"batch", "joining"}
    BY <1>3 DEF Tools, ToolBegin, ToolEnd, lifecycle, messages, transcript
  <2> QED BY <2>1, ConversationKept DEF QuietInv
<1>4. pc # "done" => state = "active"
  BY DEF QuietInv
<1>5. CASE Start
  <2>1. /\ pc = "created" /\ state = "active"
        /\ UNCHANGED <<history, messages>>
        /\ BuildContext(session, Recorded(session, <<User(Prompt)>>))
    BY <1>4, <1>5 DEF Start
  <2>2. Sound(Recorded(session, <<User(Prompt)>>), injected)
    BY PromptSound DEF ConversationInv
  <2>3. WithSession => SaysAll(Recorded(session, <<User(Prompt)>>), injected)
    <3>1. <<User(Prompt)>> \in Seq(Entries)
      BY EntryTypes
    <3> QED BY <3>1, SaysAllGrows DEF Recorded, ConversationInv, Sound
  <2>4. injected' = injected /\ TakenOnce' /\ history' = history
    BY <2>1 DEF messages, ConversationInv, TakenOnce
  <2> QED BY <2>1, <2>2, <2>3, <2>4, ContextSound DEF ConversationInv
<1>6. CASE Compacted
  <2> DEFINE sent == IF turn = 1 THEN Recorded(session, <<User(Prompt)>>) ELSE session
  <2>1. /\ pc = "compacting" /\ state = "active"
        /\ UNCHANGED <<history, messages>>
        /\ BuildContext(session, sent)
    BY <1>4, <1>6 DEF Compacted, BuildContext
  <2>2. Sound(sent, injected)
    BY PromptSound DEF ConversationInv
  <2>3. WithSession => SaysAll(sent, injected)
    <3>1. <<User(Prompt)>> \in Seq(Entries)
      BY EntryTypes
    <3> QED BY <3>1, SaysAllGrows DEF Recorded, ConversationInv, Sound
  <2>4. injected' = injected /\ TakenOnce' /\ history' = history
    BY <2>1 DEF messages, ConversationInv, TakenOnce
  <2> HIDE DEF sent
  <2> QED BY <2>1, <2>2, <2>3, <2>4, ContextSound DEF ConversationInv
<1>7. Cancelled => Still /\ pc' = "done" /\ state' = "cancelled"
  BY DEF Cancelled, Finish, messages, transcript
<1>8. \A kind : pc \in {"opening", "closing"} /\ AttemptFailed(kind)
        => Still /\ state' # "settled" /\ (pc' \in Sending => pc \in Sending)
  BY <1>4 DEF AttemptFailed, Finish, messages, transcript, Sending
<1>9. CASE NeverStarted \/ Unwind \/ Opened \/ ReadDone \/ ReadLast \/ Retry
           \/ BatchInterrupted \/ Joined \/ CompactionFails \/ CompactionAbandoned
  <2>1. Still /\ state' # "settled" /\ (pc' \in Sending => pc \in Sending)
    <3>1. CASE NeverStarted
      BY <1>4, <3>1 DEF NeverStarted, messages, transcript, Sending
    <3>2. CASE Unwind \/ Joined
      BY <1>7, <3>2 DEF Unwind, Joined, Cancelled, Sending
    <3>3. CASE Opened
      BY <1>4, <1>7, <1>8, <3>3 DEF Opened, Suspend, messages, transcript, Sending
    <3>4. CASE ReadDone \/ ReadLast
      BY <1>4, <3>4 DEF ReadDone, ReadLast, CloseStream, lifecycle, messages, transcript, Sending
    <3>5. CASE Retry
      BY <1>4, <1>7, <3>5 DEF Retry, Suspend, messages, transcript, Sending
    <3>6. CASE BatchInterrupted
      BY <1>4, <3>6 DEF BatchInterrupted, messages, transcript, Sending
    <3>7. CASE CompactionFails \/ CompactionAbandoned
      BY <1>4, <3>7 DEF CompactionFails, CompactionAbandoned, Suspend, Finish, messages,
                        transcript, Sending
    <3> QED BY <1>9, <3>1, <3>2, <3>3, <3>4, <3>5, <3>6, <3>7
  <2> QED BY <2>1, ConversationKept
<1>10. CASE Closed
  <2>1. pc = "closing" /\ state = "active"
    BY <1>4, <1>10 DEF Closed
  <2>2. CASE Cancelled \/ \E kind \in Failures : AttemptFailed(kind)
    <3>1. Still /\ state' # "settled" /\ (pc' \in Sending => pc \in Sending)
      BY <1>7, <1>8, <2>1, <2>2 DEF Sending
    <3> QED BY <3>1, ConversationKept
  <2>3. CASE Finish("failed") /\ UNCHANGED <<messages, loop, batch, transcript>>
    <3>1. Still /\ state' # "settled" /\ (pc' \in Sending => pc \in Sending)
      BY <2>3 DEF Finish, messages, transcript, Sending
    <3> QED BY <3>1, ConversationKept
  <2>4. ASSUME NEW cs \in Replies, Respond(cs)
        PROVE  ConversationInv'
    <3>1. turn \in 1..MaxTurns
      BY <2>1 DEF TypeInv, TypeOK, LoopOK, Placement
    <3> QED BY <2>1, <2>4, <3>1, RespondSound
  <2> QED BY <1>10, <2>2, <2>3, <2>4 DEF Closed
<1>11. CASE Answered
  <2>1. Still /\ state' # "settled" /\ pc' \notin Sending
    BY <1>4, <1>11 DEF Answered, Authorise, Suspend, messages, Sending
  <2> QED BY <2>1, ConversationKept
<1>12. CASE BatchDone
  <2>1. state = "active"
    BY <1>4, <1>12 DEF BatchDone
  <2> QED BY <1>12, <2>1, BatchDoneSound
<1> QED
  BY <1>1, <1>2, <1>3, <1>5, <1>6, <1>9, <1>10, <1>11, <1>12 DEF Next, Worker

LEMMA ConversationInvHolds == Spec => []ConversationInv
<1>1. Init => ConversationInv
  <2> SUFFICES ASSUME Init PROVE ConversationInv
    OBVIOUS
  <2>1. /\ session = <<>> /\ request = <<>> /\ history = <<User(Prompt)>>
        /\ injected = Empty /\ accepted = Empty /\ pc = "created" /\ state = "active"
    BY DEF Init
  <2>2. \A q \in Queues : injected[q] = <<>> /\ accepted[q] = <<>>
    BY <2>1 DEF Empty
  <2>3. TakenOnce
    <3>1. DOMAIN <<>> = {} /\ \A S : <<>> \in Seq(S)
      OBVIOUS
    <3> QED BY <2>2, <3>1 DEF TakenOnce
  <2>4. Sound(<<>>, injected)
    BY DEF Sound, SaysOnly, AtBoundary
  <2>5. Sound(<<User(Prompt)>>, injected)
    <3>1. /\ User(Prompt) \in Entries /\ User(Prompt).role = "user" /\ User(Prompt).text = Prompt
      BY EntryTypes DEF User
    <3>2. <<User(Prompt)>> \in Seq(Entries) /\ \A n \in DOMAIN <<User(Prompt)>> :
             <<User(Prompt)>>[n] = User(Prompt)
      BY <3>1
    <3> QED BY <3>1, <3>2, RunAssumption DEF Sound, SaysOnly, AtBoundary, Spoken
  <2>6. \A log : SaysAll(log, injected)
    BY <2>2 DEF SaysAll, ToSet
  <2> QED BY <2>1, <2>3, <2>4, <2>5, <2>6 DEF ConversationInv, SettledServed, Sending
<1>2. ConversationInv /\ QueueInv /\ TypeInv /\ QuietInv /\ [Next]_vars => ConversationInv'
  BY ConversationInvInductive
<1> QED BY <1>1, <1>2, QueueInvHolds, TypeInvHolds, QuietInvHolds, PTL DEF Spec

-----------------------------------------------------------------------------
(* What follows from it *)

(* A run settles only when nothing waits, all it took was in the request the *)
(* last message answers, and that message asks for no tool.                  *)
THEOREM SettledRunsServedAll == Spec => []SettledServed
<1>1. ConversationInv => SettledServed
  BY DEF ConversationInv
<1> QED BY <1>1, ConversationInvHolds, PTL

(* What cancelling dropped is in no queue, Session, history or request, even *)
(* where a lost interrupt lets the worker go on.                             *)
THEOREM CancelDiscards == Spec => []CancelDiscardsMessages
<1>1. ConversationInv /\ QueueInv => CancelDiscardsMessages
  <2> SUFFICES ASSUME ConversationInv, QueueInv, cancelRequested
               PROVE  /\ queue = Empty
                      /\ \A q \in Queues : \A m \in ToSet(dropped[q]) :
                            ~Says(session, m) /\ ~Says(history, m) /\ ~Says(request, m)
    BY DEF CancelDiscardsMessages
  <2>1. queue = Empty
    BY DEF QueueInv
  <2>2. ASSUME NEW q \in Queues, NEW m \in ToSet(dropped[q])
        PROVE  m \notin Spoken(injected)
    <3>1. m \in Texts[q] /\ m \notin ToSet(injected[q])
      BY <2>2, QueueTexts DEF ConversationInv
    <3>2. \A r \in Queues : ToSet(injected[r]) \subseteq Texts[r]
      BY QueueTexts DEF ConversationInv
    <3>3. \A r \in Queues : r # q => m \notin Texts[r]
      BY <3>1, RunAssumption DEF Texts, Queues
    <3>4. m # Prompt
      BY <3>1, RunAssumption DEF Texts, Queues
    <3> QED BY <3>1, <3>2, <3>3, <3>4 DEF Spoken
  <2>3. ASSUME NEW log, Sound(log, injected), NEW m, m \notin Spoken(injected)
        PROVE  ~Says(log, m)
    <3>1. User(m).role = "user" /\ User(m).text = m
      BY DEF User
    <3> QED BY <2>3, <3>1 DEF Says, ToSet, Sound, SaysOnly
  <2> QED BY <2>1, <2>2, <2>3 DEF ConversationInv
<1> QED BY <1>1, ConversationInvHolds, QueueInvHolds, PTL

(* In any request a follow-up stands where the run would have settled.       *)
THEOREM FollowUpsWait == Spec => []FollowUpsAtBoundary
<1>1. ConversationInv => FollowUpsAtBoundary
  BY DEF ConversationInv, Sound, AtBoundary, FollowUpsAtBoundary
<1> QED BY <1>1, ConversationInvHolds, PTL

(* No turn but the first begins while a steering message waits.              *)
THEOREM SteeringIsPrompt == Spec => SteeringReachesNextTurn
<1>1. ASSUME TypeInv, QueueInv, [Next]_vars, turn > 0, turn' = turn + 1
      PROVE  queue'["steering"] = <<>>
  <2>1. turn \in Nat /\ turn # 0 /\ pc # "created" /\ queue \in Waiting
    BY <1>1 DEF TypeInv, TypeOK, LoopOK, Placement, QueueInv
  <2>2. turn' # turn
    BY <1>1, <2>1
  <2>3. \/ Drain("steering")
        \/ queue["steering"] = <<>> /\ Drain("follow_up")
    <3>1. ~Host /\ ~Tools /\ ~UNCHANGED vars
      BY <2>2 DEF Host, Tools, Enqueue, Cancel, Resolve, ToolBegin, ToolEnd, vars, loop
    <3>2. ~Start /\ ~NeverStarted /\ ~Compacted /\ ~Unwind /\ ~Opened /\ ~ReadDone /\ ~ReadLast
          /\ ~Retry /\ ~Answered /\ ~BatchInterrupted /\ ~Joined
          /\ ~CompactionFails /\ ~CompactionAbandoned
      BY <2>1, <2>2 DEF CompactionFails, CompactionAbandoned, Start, NeverStarted, Compacted, Unwind, Opened, ReadDone, ReadLast, Retry,
           Answered, BatchInterrupted, Joined, Cancelled, AttemptFailed, CloseStream, loop
    <3>3. CASE BatchDone
      BY <3>3 DEF BatchDone
    <3>4. CASE Closed
      <4>1. \E cs \in Replies : Respond(cs)
        BY <2>2, <3>4 DEF Closed, Cancelled, AttemptFailed, loop
      <4> QED BY <2>2, <4>1 DEF Respond, Conclude, loop
    <3> QED BY <1>1, <3>1, <3>2, <3>3, <3>4 DEF Next, Worker
  <2> QED BY <2>1, <2>3 DEF Drain, Waiting, Queues
<1> QED BY <1>1, TypeInvHolds, QueueInvHolds, PTL DEF Spec, SteeringReachesNextTurn

-----------------------------------------------------------------------------
(* The shape of a log *)

(* The calls of the assistant message at n are all answered, right behind it.*)
AnsweredAt(log, n) ==
    LET size == Len(log[n].calls)
    IN  /\ n + size <= Len(log)
        /\ \A m \in (n + 1)..(n + size) :
              log[m].role = "tool" /\ log[m].turn = log[n].turn /\ log[m].call \in 1..size
        /\ \A k \in 1..size : \E m \in (n + 1)..(n + size) : log[m].call = k

(* The result at n stands behind the message that asks for it.               *)
AsksFor(log, n) ==
    \E m \in 1..(n - 1) : /\ log[m].role = "assistant" /\ log[m].turn = log[n].turn
                          /\ n - m <= Len(log[m].calls)

WellFormed(log) ==
    /\ log \in Seq(Entries)
    /\ \A n \in DOMAIN log : /\ log[n].role = "assistant" => AnsweredAt(log, n)
                             /\ log[n].role = "tool" => AsksFor(log, n)

(* ... but for a last message whose calls are under way.                     *)
AwaitsResults(log) ==
    \E before : WellFormed(before) /\ log = Append(before, Assistant(turn, calls))

(* One conversation, but for the order of one batch's results.               *)
Follows(log, past) ==
    /\ Len(log) = Len(past) /\ ToSet(log) = ToSet(past)
    /\ \A n \in DOMAIN log :
          \/ log[n] = past[n]
          \/ log[n].role = "tool" /\ past[n].role = "tool" /\ log[n].turn = past[n].turn

(* Each call that has ended is in the completion order, once, but for those  *)
(* that never entered the batch.                                             *)
CompletionInv ==
    pc = "batch" =>
        /\ \A i, j \in DOMAIN completion : completion[i] = completion[j] => i = j
        /\ \A k \in 1..Len(calls) :
              /\ calls[k] = "rejected" => tool[k] \in Ended
              /\ (\E i \in DOMAIN completion : completion[i] = k)
                    <=> tool[k] \in Ended /\ calls[k] # "rejected"

Between == {"compacting", "opening", "reading", "closing", "retrying"}

(* Before the first request the Session does not have the prompt yet.        *)
Unasked == pc = "created" \/ (pc = "compacting" /\ turn = 1)

(* Between turns the logs are well formed, and within one they await its     *)
(* results; the Session follows the history all the time.                    *)
TranscriptInv ==
    /\ CompletionInv
    /\ WellFormed(request)
    /\ pc \in {"created"} \cup Between => WellFormed(session) /\ WellFormed(history)
    /\ pc \in {"permission", "batch"} =>
          AwaitsResults(history) /\ (WithSession => AwaitsResults(session))
    /\ Unasked => session = <<>> /\ history = <<User(Prompt)>>
    /\ WithSession /\ ~Unasked /\ pc \in Between \cup {"permission", "batch"} =>
          Follows(session, history)
    /\ ~WithSession => session = <<>>

-----------------------------------------------------------------------------
(* The order of completion *)

Injects(ks) == \A i, j \in DOMAIN ks : ks[i] = ks[j] => i = j
Permutes(ks, n) == ks \in Seq(1..n) /\ Injects(ks) /\ Covers(ks, 1..n)

LEMMA PermutesLen ==
    ASSUME NEW n \in Nat, NEW ks, Permutes(ks, n)
    PROVE  Len(ks) = n
<1>1. /\ Len(ks) \in Nat /\ DOMAIN ks = 1..Len(ks) /\ ks \in [1..Len(ks) -> 1..n]
  BY DEF Permutes
<1>2. ks \in Injection(1..Len(ks), 1..n)
  BY <1>1 DEF Permutes, Injects, Injection, IsInjective
<1>3. ks \in Surjection(1..Len(ks), 1..n)
  BY <1>1 DEF Permutes, Covers, Surjection
<1>4. IsFiniteSet(1..n)
  BY FS_Interval
<1>5. \A size \in Nat : Cardinality(1..size) = size
  BY FS_Interval
<1>6. Cardinality(1..Len(ks)) = Cardinality(1..n)
  BY <1>2, <1>3, <1>4, FS_Injection
<1> QED BY <1>1, <1>5, <1>6

LEMMA AscendingInjects ==
    ASSUME NEW n \in Nat, NEW S \in SUBSET (1..n), NEW list \in Ascending(S)
    PROVE  Injects(list)
<1>1. IsFiniteSet(S)
  <2>1. IsFiniteSet(1..n)
    BY FS_Interval
  <2> QED BY <2>1, FS_Subset
<1> DEFINE size == Cardinality(S)
<1>2. size \in Nat
  BY <1>1, FS_CardinalityType
<1> HIDE DEF size
<1>3. list \in [1..size -> S] /\ \A i, j \in 1..size : i < j => list[i] < list[j]
  BY DEF Ascending, size
<1>4. \A i \in 1..size : list[i] \in Int
  <2>1. \A i \in 1..size : list[i] \in S
    BY <1>3
  <2>2. \A x \in S : x \in Int
    OBVIOUS
  <2> QED BY <2>1, <2>2
<1> SUFFICES ASSUME NEW i \in 1..size, NEW j \in 1..size, list[i] = list[j] PROVE i = j
  BY <1>3 DEF Injects
<1>5. ~(i < j) /\ ~(j < i)
  BY <1>3, <1>4
<1> QED BY <1>2, <1>5

(* When a batch is over, its completion order and the calls that were        *)
(* rejected before it are all its calls, each once.                          *)
LEMMA BatchPermutes ==
    ASSUME TypeInv, CompletionInv, pc = "batch",
           \A k \in DOMAIN tool : tool[k] \notin {"waiting", "running"},
           NEW rejected \in Ascending({k \in DOMAIN calls : calls[k] = "rejected"})
    PROVE  Permutes(completion \o rejected, Len(calls))
<1> DEFINE size == Len(calls)
           S == {k \in DOMAIN calls : calls[k] = "rejected"}
<1>1. /\ size \in Nat /\ DOMAIN calls = 1..size /\ completion \in Seq(1..size)
      /\ tool \in [1..size -> {"waiting", "running", "success", "error", "cancelled"}]
  <2>1. calls \in Replies /\ completion \in Seq(1..size)
    BY DEF TypeInv, TypeOK, BatchOK
  <2> QED BY <2>1, RepliesType, RunAssumption DEF TypeInv, Placement
<1>2. S \in SUBSET (1..size)
  BY <1>1
<1>3. rejected \in Ascending(S)
  OBVIOUS
<1>4. \A k \in 1..size : tool[k] \in Ended
  BY <1>1 DEF Ended
<1>5. /\ Injects(completion)
      /\ \A k \in 1..size : (\E i \in DOMAIN completion : completion[i] = k) <=> k \notin S
  BY <1>1, <1>4 DEF CompletionInv, Injects
<1> HIDE DEF size, S
<1>6. rejected \in Seq(S) /\ Injects(rejected) /\ Covers(rejected, S)
  BY <1>1, <1>2, <1>3, AscendingType, AscendingInjects, AscendingCovers
<1>7. rejected \in Seq(1..size)
  <2>1. rejected \in [1..Len(rejected) -> S] /\ Len(rejected) \in Nat
    BY <1>6
  <2> DEFINE T == 1..size
  <2>2. \A k \in S : k \in T
    BY <1>2
  <2> HIDE DEF T
  <2>3. rejected \in [1..Len(rejected) -> T]
    BY <2>1, <2>2
  <2>4. rejected \in Seq(T)
    BY <2>1, <2>3
  <2> QED BY <2>4 DEF T
<1> DEFINE ks == completion \o rejected
           front == Len(completion)
           back == Len(rejected)
<1>8. /\ ks \in Seq(1..size) /\ front \in Nat /\ back \in Nat
      /\ DOMAIN completion = 1..front /\ DOMAIN rejected = 1..back /\ DOMAIN ks = 1..(front + back)
      /\ \A n \in 1..front : ks[n] = completion[n]
      /\ \A n \in 1..back : ks[n + front] = rejected[n]
      /\ \A n \in DOMAIN ks : \/ n \in 1..front /\ ks[n] = completion[n]
                              \/ n - front \in 1..back /\ ks[n] = rejected[n - front]
  BY <1>1, <1>7, ConcatProperties
<1> HIDE DEF ks, front, back
<1>9. /\ \A n \in 1..front : completion[n] \notin S
      /\ \A n \in 1..back : rejected[n] \in S
  <2>1. \A n \in 1..front : completion[n] \in 1..size
    BY <1>1, <1>8
  <2>2. \A n \in 1..front : completion[n] \notin S
    BY <1>5, <1>8, <2>1
  <2>3. \A n \in 1..back : rejected[n] \in S
    BY <1>6, <1>8
  <2> QED BY <2>2, <2>3
<1>10. Injects(ks)
  <2> SUFFICES ASSUME NEW i \in DOMAIN ks, NEW j \in DOMAIN ks, ks[i] = ks[j] PROVE i = j
    BY DEF Injects
  <2>1. CASE i \in 1..front /\ ks[i] = completion[i] /\ j \in 1..front /\ ks[j] = completion[j]
    BY <1>5, <1>8, <2>1 DEF Injects
  <2>2. CASE /\ i - front \in 1..back /\ ks[i] = rejected[i - front]
             /\ j - front \in 1..back /\ ks[j] = rejected[j - front]
    <3>1. i - front = j - front
      BY <1>6, <1>8, <2>2 DEF Injects
    <3> QED BY <1>8, <3>1
  <2> QED BY <1>8, <1>9, <2>1, <2>2
<1>11. Covers(ks, 1..size)
  <2> SUFFICES ASSUME NEW k \in 1..size PROVE \E i \in DOMAIN ks : ks[i] = k
    BY DEF Covers
  <2>1. CASE k \in S
    <3>1. PICK n \in 1..back : rejected[n] = k
      BY <1>6, <1>8, <2>1 DEF Covers
    <3>2. n + front \in DOMAIN ks
      BY <1>8
    <3> QED BY <1>8, <3>1, <3>2
  <2>2. CASE k \notin S
    <3>1. PICK n \in 1..front : completion[n] = k
      BY <1>5, <1>8, <2>2
    <3>2. n \in DOMAIN ks
      BY <1>8
    <3> QED BY <1>8, <3>1, <3>2
  <2> QED BY <2>1, <2>2
<1> QED BY <1>8, <1>10, <1>11 DEF Permutes, ks, size

-----------------------------------------------------------------------------
(* How a log grows *)

LEMMA EntryCalls ==
    ASSUME NEW e \in Entries, e.role = "assistant"
    PROVE  Len(e.calls) \in 0..MaxCalls /\ Len(e.calls) \in Nat
<1>1. e.calls \in Replies
  BY DEF Entries, User, Assistant, Result
<1> QED BY <1>1, RepliesType, RunAssumption

(* What a log says of its messages, a longer one says too.                   *)
LEMMA ShapeKept ==
    ASSUME NEW log, WellFormed(log), NEW both \in Seq(Entries), Len(log) <= Len(both),
           \A n \in 1..Len(log) : both[n] = log[n], NEW n \in 1..Len(log)
    PROVE  /\ both[n].role = "assistant" => AnsweredAt(both, n)
           /\ both[n].role = "tool" => AsksFor(both, n)
<1>1. /\ Len(log) \in Nat /\ Len(both) \in Nat /\ DOMAIN log = 1..Len(log) /\ n \in Nat
      /\ log[n] \in Entries /\ both[n] = log[n]
  BY DEF WellFormed
<1>2. ASSUME log[n].role = "assistant"
      PROVE  AnsweredAt(both, n)
  <2>1. Len(log[n].calls) \in Nat
    BY <1>1, <1>2, EntryCalls
  <2>2. AnsweredAt(log, n)
    BY <1>1, <1>2 DEF WellFormed
  <2>3. \A m \in (n + 1)..(n + Len(log[n].calls)) : m \in 1..Len(log)
    BY <1>1, <2>1, <2>2 DEF AnsweredAt
  <2>4. \A m \in (n + 1)..(n + Len(log[n].calls)) : both[m] = log[m]
    BY <2>3
  <2> QED BY <1>1, <2>1, <2>2, <2>4 DEF AnsweredAt
<1>3. ASSUME log[n].role = "tool"
      PROVE  AsksFor(both, n)
  <2>1. AsksFor(log, n)
    BY <1>1, <1>3 DEF WellFormed
  <2>2. \A m \in 1..(n - 1) : both[m] = log[m]
    BY <1>1
  <2> QED BY <1>1, <2>1, <2>2 DEF AsksFor
<1> QED BY <1>1, <1>2, <1>3

(* User messages may come between turns. *)
LEMMA WellFormedUsers ==
    ASSUME NEW log, WellFormed(log), NEW more \in Seq(Entries),
           \A n \in DOMAIN more : more[n].role = "user"
    PROVE  WellFormed(log \o more)
<1>1. log \in Seq(Entries)
  BY DEF WellFormed
<1> DEFINE both == log \o more
<1>2. /\ both \in Seq(Entries) /\ Len(both) = Len(log) + Len(more)
      /\ Len(log) \in Nat /\ Len(more) \in Nat /\ DOMAIN more = 1..Len(more)
      /\ DOMAIN both = 1..(Len(log) + Len(more))
      /\ \A n \in 1..Len(log) : both[n] = log[n]
      /\ \A n \in DOMAIN both : n \in 1..Len(log) \/ (n - Len(log) \in 1..Len(more)
                                                      /\ both[n] = more[n - Len(log)])
  BY <1>1, ConcatProperties
<1> HIDE DEF both
<1>3. \A n \in 1..Len(log) : /\ both[n].role = "assistant" => AnsweredAt(both, n)
                             /\ both[n].role = "tool" => AsksFor(both, n)
  BY <1>2, ShapeKept
<1>4. \A n \in DOMAIN both : n \in 1..Len(log) \/ both[n].role = "user"
  BY <1>2
<1>5. WellFormed(both)
  BY <1>2, <1>3, <1>4 DEF WellFormed
<1> QED BY <1>5 DEF both

(* An assistant message and the results of all its calls, in any order.      *)
LEMMA WellFormedTurn ==
    ASSUME NEW log, WellFormed(log), NEW t \in 1..MaxTurns, NEW cs \in Replies,
           NEW results \in Seq(Entries), Len(results) = Len(cs),
           \A i \in 1..Len(cs) : /\ results[i].role = "tool" /\ results[i].turn = t
                                 /\ results[i].call \in 1..Len(cs),
           \A k \in 1..Len(cs) : \E i \in 1..Len(cs) : results[i].call = k
    PROVE  WellFormed(Append(log, Assistant(t, cs)) \o results)
<1> DEFINE size == Len(cs)
           L == Len(log)
           asked == Append(log, Assistant(t, cs))
           both == asked \o results
<1>1. /\ size \in Nat /\ L \in Nat /\ log \in Seq(Entries)
      /\ Assistant(t, cs) \in Entries
      /\ Assistant(t, cs).role = "assistant" /\ Assistant(t, cs).turn = t
      /\ Assistant(t, cs).calls = cs
  BY RepliesType, EntryTypes, RunAssumption DEF WellFormed, Assistant
<1>2. /\ asked \in Seq(Entries) /\ Len(asked) = L + 1
      /\ \A n \in 1..L : asked[n] = log[n]
      /\ asked[L + 1] = Assistant(t, cs)
  BY <1>1, AppendProperties
<1>0. /\ Len(results) = size
      /\ \A i \in 1..size : /\ results[i].role = "tool" /\ results[i].turn = t
                            /\ results[i].call \in 1..size
      /\ \A k \in 1..size : \E i \in 1..size : results[i].call = k
  OBVIOUS
<1> HIDE DEF size, L, asked
<1>3. /\ both \in Seq(Entries) /\ Len(both) = L + 1 + size
      /\ DOMAIN both = 1..(L + 1 + size)
      /\ \A n \in 1..(L + 1) : both[n] = asked[n]
      /\ \A i \in 1..size : both[L + 1 + i] = results[i]
  <2> HIDE DEF both
  <2>1. /\ both \in Seq(Entries) /\ Len(both) = Len(asked) + Len(results)
        /\ DOMAIN both = 1..(Len(asked) + Len(results))
        /\ \A n \in 1..Len(asked) : both[n] = asked[n]
        /\ \A n \in 1..Len(results) : both[n + Len(asked)] = results[n]
    <3>1. \A a, b \in Seq(Entries) :
            /\ a \o b \in Seq(Entries) /\ Len(a \o b) = Len(a) + Len(b)
            /\ DOMAIN (a \o b) = 1..(Len(a) + Len(b))
            /\ \A n \in 1..Len(a) : (a \o b)[n] = a[n]
            /\ \A n \in 1..Len(b) : (a \o b)[n + Len(a)] = b[n]
      BY ConcatMembers
    <3> QED BY <1>2, <3>1 DEF both
  <2>2. \A i \in 1..size : both[i + (L + 1)] = results[i] /\ i + (L + 1) = L + 1 + i
    BY <1>0, <1>1, <1>2, <2>1
  <2> QED BY <1>0, <1>1, <1>2, <2>1, <2>2
<1> HIDE DEF both
<1>4. /\ \A n \in 1..L : both[n] = log[n]
      /\ both[L + 1] = Assistant(t, cs)
  BY <1>1, <1>2, <1>3
<1>5. \A n \in 1..L : /\ both[n].role = "assistant" => AnsweredAt(both, n)
                      /\ both[n].role = "tool" => AsksFor(both, n)
  <2>1. Len(log) <= Len(both) /\ \A n \in 1..Len(log) : both[n] = log[n]
    BY <1>1, <1>3, <1>4 DEF L
  <2>2. \A n \in 1..Len(log) : /\ both[n].role = "assistant" => AnsweredAt(both, n)
                               /\ both[n].role = "tool" => AsksFor(both, n)
    BY <1>3, <2>1, ShapeKept
  <2> QED BY <2>2 DEF L
<1>6. \A i \in 1..size : /\ both[L + 1 + i].role = "tool" /\ both[L + 1 + i].turn = t
                         /\ both[L + 1 + i].call \in 1..size
  <2> SUFFICES ASSUME NEW i \in 1..size
               PROVE  /\ both[L + 1 + i].role = "tool" /\ both[L + 1 + i].turn = t
                      /\ both[L + 1 + i].call \in 1..size
    OBVIOUS
  <2>1. both[L + 1 + i] = results[i]
    BY <1>3
  <2>2. results[i].role = "tool" /\ results[i].turn = t /\ results[i].call \in 1..size
    BY <1>0
  <2> QED BY <2>1, <2>2, Zenon
<1>7. AnsweredAt(both, L + 1)
  <2>1. both[L + 1].calls = cs /\ both[L + 1].turn = t
    BY <1>1, <1>4
  <2>2. ASSUME NEW m \in (L + 2)..(L + 1 + size)
        PROVE  both[m].role = "tool" /\ both[m].turn = t /\ both[m].call \in 1..size
    <3>1. m - (L + 1) \in 1..size /\ m = L + 1 + (m - (L + 1))
      BY <1>1
    <3> QED BY <1>6, <3>1
  <2>3. ASSUME NEW k \in 1..size
        PROVE  \E m \in (L + 2)..(L + 1 + size) : both[m].call = k
    <3>1. PICK i \in 1..size : results[i].call = k
      BY <1>0
    <3>2. L + 1 + i \in (L + 2)..(L + 1 + size)
      BY <1>1
    <3> QED BY <1>3, <3>1, <3>2
  <2> QED BY <1>1, <1>3, <2>1, <2>2, <2>3 DEF AnsweredAt, size
<1>8. ASSUME NEW i \in 1..size
      PROVE  AsksFor(both, L + 1 + i)
  <2>1. PICK n : n = L + 1 + i
    OBVIOUS
  <2>2. L + 1 \in 1..(n - 1) /\ n - (L + 1) <= size
    BY <1>1, <2>1
  <2>3. both[L + 1].role = "assistant" /\ both[L + 1].turn = both[n].turn /\ both[L + 1].calls = cs
    BY <1>1, <1>4, <1>6, <2>1
  <2>4. AsksFor(both, n)
    BY <2>2, <2>3 DEF AsksFor, size
  <2> QED BY <2>1, <2>4
<1>9. ASSUME NEW n \in DOMAIN both
      PROVE  /\ both[n].role = "assistant" => AnsweredAt(both, n)
             /\ both[n].role = "tool" => AsksFor(both, n)
  <2>1. CASE n \in 1..L
    BY <1>5, <2>1
  <2>2. CASE n = L + 1
    BY <1>1, <1>4, <1>7, <2>2
  <2>3. CASE n > L + 1
    <3>1. n - (L + 1) \in 1..size /\ n = L + 1 + (n - (L + 1))
      BY <1>1, <1>3, <2>3
    <3> QED BY <1>6, <1>8, <3>1
  <2> QED BY <1>1, <1>3, <2>1, <2>2, <2>3
<1>10. WellFormed(both)
  BY <1>3, <1>9 DEF WellFormed
<1> QED BY <1>10 DEF both, asked

(* Logs that agree grow in agreement. *)
LEMMA FollowsGrows ==
    ASSUME NEW log \in Seq(Entries), NEW past \in Seq(Entries), Follows(log, past),
           NEW more \in Seq(Entries), NEW also \in Seq(Entries), Follows(more, also)
    PROVE  Follows(log \o more, past \o also)
<1>1. Len(log) = Len(past) /\ Len(more) = Len(also)
  BY DEF Follows
<1> DEFINE left == log \o more
           right == past \o also
<1>2. /\ left \in Seq(Entries) /\ Len(left) = Len(log) + Len(more)
      /\ DOMAIN left = 1..(Len(log) + Len(more))
      /\ \A n \in 1..(Len(log) + Len(more)) :
            left[n] = IF n <= Len(log) THEN log[n] ELSE more[n - Len(log)]
      /\ ToSet(left) = ToSet(log) \cup ToSet(more)
  <2>1. ToSet(left) = ToSet(log) \cup ToSet(more)
    BY ConcatSet, Zenon
  <2> QED BY <2>1, ConcatProperties
<1>3. /\ right \in Seq(Entries) /\ Len(right) = Len(past) + Len(also)
      /\ DOMAIN right = 1..(Len(past) + Len(also))
      /\ \A n \in 1..(Len(past) + Len(also)) :
            right[n] = IF n <= Len(past) THEN past[n] ELSE also[n - Len(past)]
      /\ ToSet(right) = ToSet(past) \cup ToSet(also)
  <2>1. ToSet(right) = ToSet(past) \cup ToSet(also)
    BY ConcatSet, Zenon
  <2> QED BY <2>1, ConcatProperties
<1> HIDE DEF left, right
<1>4. ToSet(left) = ToSet(right)
  BY <1>2, <1>3 DEF Follows
<1>5. /\ Len(log) \in Nat /\ Len(more) \in Nat
      /\ DOMAIN log = 1..Len(log) /\ DOMAIN more = 1..Len(more)
  OBVIOUS
<1>6. \A n \in DOMAIN left :
        \/ n \in DOMAIN log /\ left[n] = log[n] /\ right[n] = past[n]
        \/ /\ n - Len(log) \in DOMAIN more
           /\ left[n] = more[n - Len(log)] /\ right[n] = also[n - Len(log)]
  BY <1>1, <1>2, <1>3, <1>5
<1>7. Follows(left, right)
  BY <1>1, <1>2, <1>3, <1>4, <1>5, <1>6 DEF Follows
<1> QED BY <1>7 DEF left, right

LEMMA FollowsItself ==
    ASSUME NEW log \in Seq(Entries)
    PROVE  Follows(log, log)
BY DEF Follows

(* The results of a batch, in an order of all its calls.                     *)
LEMMA ResultsShape ==
    ASSUME TypeInv, pc = "batch", \A k \in DOMAIN tool : tool[k] \notin {"waiting", "running"},
           NEW ks, Permutes(ks, Len(calls))
    PROVE  /\ InOrderOf(ks) \in Seq(Entries) /\ Len(InOrderOf(ks)) = Len(calls)
           /\ DOMAIN InOrderOf(ks) = 1..Len(calls)
           /\ \A i \in 1..Len(calls) :
                 /\ InOrderOf(ks)[i].role = "tool" /\ InOrderOf(ks)[i].turn = turn
                 /\ InOrderOf(ks)[i].call \in 1..Len(calls)
           /\ \A k \in 1..Len(calls) : \E i \in 1..Len(calls) : InOrderOf(ks)[i].call = k
           /\ ToSet(InOrderOf(ks)) = {Result(turn, k, tool[k]) : k \in 1..Len(calls)}
<1> DEFINE size == Len(calls)
           list == InOrderOf(ks)
<1>1. turn \in 1..MaxTurns /\ size \in 0..MaxCalls /\ size \in Nat
  <2>1. calls \in Replies
    BY DEF TypeInv, TypeOK, BatchOK
  <2> QED BY <2>1, RepliesType, RunAssumption DEF TypeInv, TypeOK, LoopOK, Placement
<1>2. \A k \in 1..size : tool[k] \in Ended
  BY DEF TypeInv, Placement, Ended
<1>3. Len(ks) = size
  BY <1>1, PermutesLen
<1> HIDE DEF size
<1>4. ks \in Seq(1..size) /\ DOMAIN ks = 1..size /\ \A i \in 1..size : ks[i] \in 1..size
  <2>1. ks \in Seq(1..size)
    BY DEF Permutes, size
  <2> QED BY <1>3, <2>1
<1>5. list \in Seq(Entries)
  BY <1>1, <1>2, <1>4, ResultsType
<1>6. /\ list = [n \in 1..size |-> Result(turn, ks[n], tool[ks[n]])]
      /\ DOMAIN list = 1..size
      /\ \A i \in 1..size : list[i] = Result(turn, ks[i], tool[ks[i]])
  BY <1>3 DEF InOrderOf
<1>7. Len(list) = size
  BY <1>1, <1>5, <1>6
<1> HIDE DEF list
<1>8. \A k \in 1..size : \E i \in 1..size : ks[i] = k
  BY <1>4 DEF Permutes, Covers, size
<1>9. \A i \in 1..size : /\ list[i].role = "tool" /\ list[i].turn = turn
                         /\ list[i].call = ks[i]
  BY <1>6 DEF Result
<1>10. ToSet(list) = {Result(turn, k, tool[k]) : k \in 1..size}
  <2> DEFINE res(k) == Result(turn, k, tool[k])
  <2>1. \A k \in 1..size : \E i \in 1..size : list[i] = res(k)
    BY <1>6, <1>8
  <2>2. \A i \in 1..size : \E k \in 1..size : list[i] = res(k)
    BY <1>4, <1>6
  <2> HIDE DEF res
  <2>3. ToSet(list) = {list[i] : i \in 1..size}
    BY <1>6 DEF ToSet
  <2>4. ToSet(list) = {res(k) : k \in 1..size}
    BY <2>1, <2>2, <2>3
  <2> QED BY <2>4 DEF res
<1>11. \A i \in 1..size : list[i].call \in 1..size
  BY <1>4, <1>9
<1>12. \A k \in 1..size : \E i \in 1..size : list[i].call = k
  BY <1>8, <1>9
<1>13. DOMAIN list = 1..size
  BY <1>6
<1>14. \A i \in 1..size : list[i].role = "tool" /\ list[i].turn = turn
  BY <1>9
<1> QED BY ONLY <1>5, <1>7, <1>10, <1>11, <1>12, <1>13, <1>14, Zenon DEF list, size

-----------------------------------------------------------------------------
(* The steps *)

(* A step that changes no log and stays between turns or ends the run.       *)
LEMMA TranscriptKept ==
    ASSUME TranscriptInv, UNCHANGED <<session, history, request>>,
           \/ pc' \in {"done", "dead", "joining", "abandoning"}
           \/ /\ pc \in Between \ {"compacting"} /\ pc' \in Between \ {"compacting"}
           \/ UNCHANGED <<pc, turn, calls, tool, completion>>
    PROVE  TranscriptInv'
<1> USE DEF TranscriptInv
<1>1. CASE pc' \in {"done", "dead", "joining", "abandoning"}
  BY <1>1 DEF CompletionInv, Between, Unasked, WellFormed, AnsweredAt, AsksFor
<1>2. CASE pc \in Between \ {"compacting"} /\ pc' \in Between \ {"compacting"}
  BY <1>2 DEF CompletionInv, Between, Unasked
<1>3. CASE UNCHANGED <<pc, turn, calls, tool, completion>>
  <2>1. CompletionInv'
    BY <1>3 DEF CompletionInv
  <2>2. /\ AwaitsResults(history) => AwaitsResults(history)'
        /\ AwaitsResults(session) => AwaitsResults(session)'
    BY <1>3 DEF AwaitsResults
  <2> QED BY <1>3, <2>1, <2>2 DEF Unasked
<1> QED BY <1>1, <1>2, <1>3

(* Making the request of a turn, or failing to. *)
LEMMA ContextShape ==
    ASSUME TranscriptInv, NEW log, NEW sent, turn' \in Nat \ {0},
           WellFormed(log), WellFormed(sent), WellFormed(history'),
           WithSession => Follows(sent, history'),
           ~WithSession => log = <<>> /\ sent = <<>>,
           turn' = 1 => log = <<>> /\ history' = <<User(Prompt)>>,
           turn' # 1 /\ WithSession => Follows(log, history'),
           BuildContext(log, sent)
    PROVE  TranscriptInv'
<1> USE DEF TranscriptInv
<1>1. CASE Suspend("opening") /\ session' = sent /\ request' = IF WithSession THEN sent ELSE history'
  BY <1>1 DEF Suspend, CompletionInv, Between, Unasked
<1>2. CASE Finish("failed") /\ session' = log /\ UNCHANGED request
  BY <1>2 DEF Finish, CompletionInv, Between, Unasked
<1>3. CASE WithSession /\ Suspend("compacting") /\ session' = log /\ UNCHANGED request
  BY <1>3 DEF Suspend, CompletionInv, Between, Unasked
<1> QED BY <1>1, <1>2, <1>3 DEF BuildContext, ContextBuilt

LEMMA NextTurnShape ==
    ASSUME TranscriptInv, turn \in 1..MaxTurns, NEW log, NEW past,
           WellFormed(log), WellFormed(past),
           WithSession => Follows(log, past), ~WithSession => log = <<>>,
           NextTurn(log, past)
    PROVE  TranscriptInv'
<1>1. CASE turn < MaxTurns
  <2>1. turn' = turn + 1 /\ history' = past /\ BuildContext(log, log)
    BY <1>1 DEF NextTurn
  <2>2. turn' \in Nat \ {0} /\ turn' # 1
    BY <2>1
  <2> QED BY <2>1, <2>2, ContextShape
<1>2. CASE ~(turn < MaxTurns)
  <2>1. pc' = "done" /\ session' = log /\ UNCHANGED request
    BY <1>2 DEF NextTurn, Finish
  <2> QED BY <2>1 DEF TranscriptInv, CompletionInv, Between, Unasked
<1> QED BY <1>1, <1>2

(* What was drained joins every log. *)
LEMMA DrainShape ==
    ASSUME TypeInv, TranscriptInv, turn \in 1..MaxTurns, NEW q \in Queues, NEW log, NEW past,
           WellFormed(log), WellFormed(past),
           WithSession => Follows(log, past), ~WithSession => log = <<>>,
           NextTurn(Recorded(log, Users(q)), past \o Users(q))
    PROVE  TranscriptInv'
<1>1. Users(q) \in Seq(Entries) /\ \A n \in DOMAIN Users(q) : Users(q)[n].role = "user"
  BY UsersType DEF TypeInv, TypeOK, MessagesOK, Users, User
<1>2. log \in Seq(Entries) /\ past \in Seq(Entries)
  BY DEF WellFormed
<1>3. WellFormed(past \o Users(q)) /\ WellFormed(Recorded(log, Users(q)))
  BY <1>1, WellFormedUsers DEF Recorded
<1>4. WithSession => Follows(Recorded(log, Users(q)), past \o Users(q))
  <2>1. Follows(Users(q), Users(q))
    BY <1>1, FollowsItself
  <2>2. WithSession => Follows(log \o Users(q), past \o Users(q))
    BY <1>1, <1>2, <2>1, FollowsGrows
  <2> QED BY <2>2 DEF Recorded
<1>5. ~WithSession => Recorded(log, Users(q)) = <<>>
  BY DEF Recorded
<1> QED BY <1>3, <1>4, <1>5, NextTurnShape

LEMMA ConcludeShape ==
    ASSUME TypeInv, TranscriptInv, turn \in 1..MaxTurns, NEW log, NEW past,
           WellFormed(log), WellFormed(past),
           WithSession => Follows(log, past), ~WithSession => log = <<>>,
           Conclude(log, past)
    PROVE  TranscriptInv'
<1>1. ASSUME NEW q \in Queues, NextTurn(Recorded(log, Users(q)), past \o Users(q))
      PROVE  TranscriptInv'
  BY <1>1, DrainShape
<1>2. CASE Finish("settled") /\ session' = log /\ UNCHANGED request
  BY <1>2 DEF Finish, TranscriptInv, CompletionInv, Between, Unasked
<1> QED BY <1>1, <1>2 DEF Conclude, Queues

(* The next question, or the batch: its message is the last of the logs.     *)
LEMMA AuthoriseShape ==
    ASSUME TranscriptInv, NEW cs \in Replies, NEW first, NEW granted, NEW marks,
           Authorise(cs, first, granted, marks), UNCHANGED <<turn, request>>,
           NEW before, WellFormed(before), history' = Append(before, Assistant(turn, cs)),
           WithSession => \E log : WellFormed(log) /\ session' = Append(log, Assistant(turn, cs)),
           WithSession => Follows(session', history'), ~WithSession => session' = <<>>
    PROVE  TranscriptInv'
<1>1. /\ calls' = cs /\ completion' = <<>> /\ pc' \in {"permission", "batch"}
      /\ pc' = "batch" => tool' = [k \in 1..Len(cs) |->
                                     IF cs[k] = "rejected" THEN "error" ELSE "waiting"]
  BY DEF Authorise, Suspend
<1>2. CompletionInv'
  BY <1>1 DEF CompletionInv, Ended
<1>3. AwaitsResults(history)' /\ (WithSession => AwaitsResults(session)')
  BY <1>1 DEF AwaitsResults
<1> QED BY <1>1, <1>2, <1>3 DEF TranscriptInv, Between, Unasked

LEMMA RespondShape ==
    ASSUME TypeInv, TranscriptInv, turn \in 1..MaxTurns, pc = "closing",
           NEW cs \in Replies, Respond(cs)
    PROVE  TranscriptInv'
<1> DEFINE log == Recorded(session, <<Assistant(turn, cs)>>)
           past == Append(history, Assistant(turn, cs))
<1>1. /\ WellFormed(session) /\ WellFormed(history)
      /\ WithSession => Follows(session, history)
      /\ ~WithSession => session = <<>>
  BY DEF TranscriptInv, Between, Unasked
<1>2. session \in Seq(Entries) /\ history \in Seq(Entries) /\ Assistant(turn, cs) \in Entries
  BY <1>1, EntryTypes DEF WellFormed
<1>3. /\ past = history \o <<Assistant(turn, cs)>>
      /\ WithSession => log = Append(session, Assistant(turn, cs))
      /\ ~WithSession => log = session
  BY <1>2 DEF Recorded
<1>4. WithSession => Follows(log, past)
  <2>1. <<Assistant(turn, cs)>> \in Seq(Entries)
    BY <1>2
  <2>2. WithSession => Follows(session \o <<Assistant(turn, cs)>>, history \o <<Assistant(turn, cs)>>)
    BY <1>1, <1>2, <2>1, FollowsGrows, FollowsItself
  <2> QED BY <1>3, <2>2 DEF Recorded
<1>5. ~WithSession => log = <<>>
  BY <1>1, <1>3
<1> HIDE DEF log, past
<1>6. CASE cs = <<>> /\ Conclude(log, past)
  <2>1. ASSUME NEW l, WellFormed(l)
        PROVE  WellFormed(Append(l, Assistant(turn, cs)))
    <3>1. <<>> \in Seq(Entries) /\ Len(<<>>) = Len(cs) /\ 1..Len(cs) = {}
      BY <1>6
    <3>2. WellFormed(Append(l, Assistant(turn, cs)) \o <<>>)
      BY <2>1, <3>1, WellFormedTurn
    <3>3. Append(l, Assistant(turn, cs)) \in Seq(Entries)
      BY <1>2, <2>1, AppendProperties DEF WellFormed
    <3>4. Append(l, Assistant(turn, cs)) \o <<>> = Append(l, Assistant(turn, cs))
      BY <3>3, ConcatEmpty
    <3> QED BY <3>2, <3>4
  <2>2. WellFormed(past) /\ WellFormed(log)
    BY <1>1, <1>3, <2>1 DEF past
  <2> QED BY <1>4, <1>5, <1>6, <2>2, ConcludeShape
<1>7. CASE /\ Authorise(cs, 1, [k \in 1..Len(cs) |-> "none"], audit)
           /\ session' = log /\ history' = past /\ UNCHANGED <<messages, loop, request>>
  BY <1>1, <1>3, <1>4, <1>5, <1>7, AuthoriseShape DEF past, loop
<1> QED BY <1>6, <1>7 DEF Respond, log, past

LEMMA AnsweredShape ==
    ASSUME TypeInv, TranscriptInv, Answered
    PROVE  TranscriptInv'
<1>1. /\ pc = "permission" /\ UNCHANGED <<turn, session, history, request>>
      /\ \E granted : Authorise(calls, pending.call + 1, granted, audit)
  BY DEF Answered, loop
<1>2. calls \in Replies
  BY DEF TypeInv, TypeOK, BatchOK
<1>3. /\ AwaitsResults(history) /\ (WithSession => AwaitsResults(session) /\ Follows(session, history))
      /\ ~WithSession => session = <<>>
  BY <1>1 DEF TranscriptInv, Unasked
<1>4. PICK before : WellFormed(before) /\ history = Append(before, Assistant(turn, calls))
  BY <1>3 DEF AwaitsResults
<1> QED BY <1>1, <1>2, <1>3, <1>4, AuthoriseShape DEF AwaitsResults

LEMMA BatchDoneShape ==
    ASSUME TypeInv, TranscriptInv, BatchDone
    PROVE  TranscriptInv'
<1>1. /\ pc = "batch" /\ turn \in 1..MaxTurns /\ calls \in Replies /\ "steering" \in Queues
      /\ \A k \in DOMAIN tool : tool[k] \notin {"waiting", "running"}
  BY DEF BatchDone, TypeInv, TypeOK, LoopOK, BatchOK, Placement, Queues
<1>2. PICK rejected \in Ascending({k \in DOMAIN calls : calls[k] = "rejected"}) :
        LET log == Recorded(session, InOrderOf(completion \o rejected))
            past == history \o InOrderOf([k \in 1..Len(calls) |-> k])
        IN  NextTurn(Recorded(log, Users("steering")), past \o Users("steering"))
  BY DEF BatchDone
<1> DEFINE ks == completion \o rejected
           ids == [k \in 1..Len(calls) |-> k]
           log == Recorded(session, InOrderOf(ks))
           past == history \o InOrderOf(ids)
<1>3. Permutes(ks, Len(calls))
  BY <1>1, BatchPermutes DEF TranscriptInv
<1>4. Permutes(ids, Len(calls))
  <2>1. Len(calls) \in Nat
    BY <1>1, RepliesType, RunAssumption
  <2> QED BY <2>1 DEF Permutes, Injects, Covers
<1> HIDE DEF ks, ids
<1>5. /\ AwaitsResults(history) /\ (WithSession => AwaitsResults(session) /\ Follows(session, history))
      /\ ~WithSession => session = <<>>
  BY <1>1 DEF TranscriptInv, Unasked
<1>6. ASSUME NEW l, AwaitsResults(l), NEW order, Permutes(order, Len(calls))
      PROVE  WellFormed(l \o InOrderOf(order)) /\ l \in Seq(Entries)
  <2>1. PICK before : WellFormed(before) /\ l = Append(before, Assistant(turn, calls))
    BY <1>6 DEF AwaitsResults
  <2> DEFINE results == InOrderOf(order)
  <2>2. /\ results \in Seq(Entries) /\ Len(results) = Len(calls)
        /\ \A i \in 1..Len(calls) : /\ results[i].role = "tool" /\ results[i].turn = turn
                                    /\ results[i].call \in 1..Len(calls)
        /\ \A k \in 1..Len(calls) : \E i \in 1..Len(calls) : results[i].call = k
    BY <1>1, <1>6, ResultsShape
  <2> HIDE DEF results
  <2>3. WellFormed(Append(before, Assistant(turn, calls)) \o results)
    BY <1>1, <2>1, <2>2, WellFormedTurn
  <2>4. Append(before, Assistant(turn, calls)) \in Seq(Entries)
    BY <1>1, <2>1, EntryTypes, AppendProperties DEF WellFormed
  <2> QED BY <2>1, <2>3, <2>4 DEF results
<1>7. WellFormed(past) /\ history \in Seq(Entries)
  BY <1>4, <1>5, <1>6
<1>8. WellFormed(log)
  <2>1. CASE WithSession
    BY <1>3, <1>5, <1>6, <2>1 DEF Recorded
  <2>2. CASE ~WithSession
    <3>1. log = <<>>
      BY <1>5, <2>2 DEF Recorded
    <3>2. WellFormed(<<>>)
      BY DEF WellFormed
    <3> QED BY <3>1, <3>2
  <2> QED BY <2>1, <2>2
<1>9. WithSession => Follows(log, past)
  <2> SUFFICES ASSUME WithSession PROVE Follows(log, past)
    OBVIOUS
  <2> DEFINE a == InOrderOf(ks)
             b == InOrderOf(ids)
  <2>1. /\ a \in Seq(Entries) /\ b \in Seq(Entries) /\ Len(a) = Len(calls) /\ Len(b) = Len(calls)
        /\ DOMAIN a = 1..Len(calls)
        /\ \A i \in 1..Len(calls) : a[i].role = "tool" /\ a[i].turn = turn
        /\ \A i \in 1..Len(calls) : b[i].role = "tool" /\ b[i].turn = turn
        /\ ToSet(a) = ToSet(b)
    BY <1>1, <1>3, <1>4, ResultsShape
  <2> HIDE DEF a, b
  <2>2. Follows(a, b)
    BY <2>1 DEF Follows
  <2>3. session \in Seq(Entries) /\ history \in Seq(Entries)
    BY <1>3, <1>5, <1>6, <1>7
  <2>4. Follows(session \o a, history \o b)
    BY <1>5, <2>1, <2>2, <2>3, FollowsGrows
  <2> QED BY <2>4 DEF Recorded, a, b
<1>10. ~WithSession => log = <<>>
  BY <1>5 DEF Recorded
<1>11. NextTurn(Recorded(log, Users("steering")), past \o Users("steering"))
  BY <1>2 DEF ks, ids
<1> HIDE DEF log, past
<1> QED BY <1>1, <1>7, <1>8, <1>9, <1>10, <1>11, DrainShape

(* A call that begins leaves the ranks of the waiting; one that ends joins   *)
(* the completion order as its progress becomes final.                       *)
LEMMA ToolsShape ==
    ASSUME TypeInv, TranscriptInv, Tools
    PROVE  TranscriptInv'
<1>1. UNCHANGED <<pc, turn, calls, session, history, request>> /\ pc \in {"batch", "joining"}
  BY DEF Tools, ToolBegin, ToolEnd, lifecycle, loop, transcript
<1>2. CompletionInv'
  <2> SUFFICES ASSUME pc = "batch" PROVE CompletionInv'
    BY <1>1 DEF CompletionInv
  <2> DEFINE size == Len(calls)
  <2>1. /\ size \in Nat /\ completion \in Seq(1..size)
        /\ tool \in [1..size -> {"waiting", "running", "success", "error", "cancelled"}]
    <3>1. calls \in Replies /\ completion \in Seq(1..size)
      BY DEF TypeInv, TypeOK, BatchOK
    <3> QED BY <3>1, RepliesType, RunAssumption DEF TypeInv, Placement
  <2>2. PICK k \in 1..size :
          /\ tool[k] \in {"waiting", "running"}
          /\ \/ /\ tool' = [tool EXCEPT ![k] = "running"] /\ UNCHANGED completion
             \/ /\ \E s \in Ended : tool' = [tool EXCEPT ![k] = s]
                /\ completion' = Append(completion, k)
    BY <2>1 DEF Tools, ToolBegin, ToolEnd, Ended
  <2> HIDE DEF size
  <2>3. /\ \A i, j \in DOMAIN completion : completion[i] = completion[j] => i = j
        /\ \A c \in 1..size :
              /\ calls[c] = "rejected" => tool[c] \in Ended
              /\ (\E i \in DOMAIN completion : completion[i] = c)
                    <=> tool[c] \in Ended /\ calls[c] # "rejected"
    BY DEF TranscriptInv, CompletionInv, size
  <2>4. /\ calls[k] # "rejected" /\ \A i \in DOMAIN completion : completion[i] # k
        /\ \A c \in 1..size : c # k => tool'[c] = tool[c]
    BY <2>1, <2>2, <2>3 DEF Ended
  <2>5. CASE tool' = [tool EXCEPT ![k] = "running"] /\ UNCHANGED completion
    <3>1. tool'[k] = "running"
      BY <2>1, <2>5
    <3>2. \A c \in 1..size :
              /\ calls[c] = "rejected" => tool'[c] \in Ended
              /\ (\E i \in DOMAIN completion : completion[i] = c)
                    <=> tool'[c] \in Ended /\ calls[c] # "rejected"
      BY <2>2, <2>3, <2>4, <3>1 DEF Ended
    <3> QED BY <1>1, <2>3, <2>5, <3>2 DEF CompletionInv, size
  <2>6. ASSUME NEW s \in Ended, tool' = [tool EXCEPT ![k] = s], completion' = Append(completion, k)
        PROVE  CompletionInv'
    <3>1. tool'[k] \in Ended
      BY <2>1, <2>6
    <3> DEFINE L == Len(completion)
    <3>2. /\ L \in Nat /\ DOMAIN completion = 1..L /\ DOMAIN completion' = 1..(L + 1)
          /\ \A i \in 1..L : completion'[i] = completion[i]
          /\ completion'[L + 1] = k
      <4>1. PICK X : X = 1..size
        OBVIOUS
      <4>2. completion \in Seq(X) /\ k \in X
        BY <2>1, <4>1
      <4>3. /\ Append(completion, k) \in Seq(X) /\ Len(Append(completion, k)) = L + 1
            /\ \A i \in 1..L : Append(completion, k)[i] = completion[i]
            /\ Append(completion, k)[L + 1] = k
        BY <4>2, AppendProperties
      <4>4. L \in Nat /\ DOMAIN completion = 1..L /\ DOMAIN Append(completion, k) = 1..(L + 1)
        BY <4>2, <4>3
      <4> QED BY <2>6, <4>3, <4>4
    <3> HIDE DEF L
    <3>3. \A i, j \in DOMAIN completion' : completion'[i] = completion'[j] => i = j
      BY <2>3, <2>4, <3>2
    <3>4. \A c \in 1..size : c # k =>
            ((\E i \in DOMAIN completion' : completion'[i] = c)
               <=> (\E i \in DOMAIN completion : completion[i] = c))
      BY <3>2
    <3>5. \E i \in DOMAIN completion' : completion'[i] = k
      BY <3>2
    <3>6. \A c \in 1..size :
              /\ calls[c] = "rejected" => tool'[c] \in Ended
              /\ (\E i \in DOMAIN completion' : completion'[i] = c)
                    <=> tool'[c] \in Ended /\ calls[c] # "rejected"
      BY <2>3, <2>4, <3>1, <3>4, <3>5
    <3> QED BY <1>1, <3>3, <3>6 DEF CompletionInv, size
  <2> QED BY <2>2, <2>5, <2>6
<1>3. /\ AwaitsResults(history) => AwaitsResults(history)'
      /\ AwaitsResults(session) => AwaitsResults(session)'
  BY <1>1 DEF AwaitsResults
<1> QED BY <1>1, <1>2, <1>3 DEF TranscriptInv, Unasked, Between

(* The first request, and one after a compaction. *)
LEMMA ContextStepShape ==
    ASSUME TypeInv, TranscriptInv, Start \/ Compacted
    PROVE  TranscriptInv'
<1> DEFINE prompt == <<User(Prompt)>>
<1>1. prompt \in Seq(Entries) /\ <<>> \o prompt = prompt
  BY EntryTypes
<1>2. WellFormed(<<>>) /\ WellFormed(prompt) /\ Follows(prompt, prompt)
  <2>1. WellFormed(<<>>)
    BY DEF WellFormed
  <2>2. prompt[1].role = "user" /\ DOMAIN prompt = {1}
    BY DEF User
  <2>3. WellFormed(prompt)
    BY <1>1, <2>2 DEF WellFormed
  <2> QED BY <1>1, <2>1, <2>3, FollowsItself
<1> DEFINE first == Recorded(<<>>, prompt)
<1>3. WellFormed(first) /\ (WithSession => first = prompt) /\ (~WithSession => first = <<>>)
  BY <1>1, <1>2 DEF Recorded
<1> HIDE DEF prompt, first
<1>4. CASE Start
  <2>1. /\ pc = "created" /\ turn' = 1 /\ history' = history
        /\ BuildContext(session, Recorded(session, prompt))
    BY <1>4 DEF Start, prompt
  <2>2. session = <<>> /\ history = prompt
    BY <2>1 DEF TranscriptInv, Unasked, prompt
  <2>3. BuildContext(<<>>, first)
    BY <2>1, <2>2 DEF first
  <2>4. history' = prompt /\ turn' \in Nat \ {0}
    BY <2>1, <2>2
  <2>5. WellFormed(history')
    BY <1>2, <2>4
  <2>6. WithSession => Follows(first, history')
    BY <1>2, <1>3, <2>4
  <2> QED BY <1>2, <1>3, <2>1, <2>3, <2>4, <2>5, <2>6, ContextShape DEF prompt
<1>5. CASE Compacted /\ turn = 1
  <2>1. /\ pc = "compacting" /\ turn' = 1 /\ history' = history
        /\ BuildContext(session, Recorded(session, prompt))
    BY <1>5 DEF Compacted, prompt, BuildContext
  <2>2. session = <<>> /\ history = prompt
    BY <1>5, <2>1 DEF TranscriptInv, Unasked, prompt
  <2>3. BuildContext(<<>>, first)
    BY <2>1, <2>2 DEF first
  <2>4. history' = prompt /\ turn' \in Nat \ {0}
    BY <2>1, <2>2
  <2>5. WellFormed(history')
    BY <1>2, <2>4
  <2>6. WithSession => Follows(first, history')
    BY <1>2, <1>3, <2>4
  <2> QED BY <1>2, <1>3, <2>1, <2>3, <2>4, <2>5, <2>6, ContextShape DEF prompt
<1>6. CASE Compacted /\ turn # 1
  <2>1. /\ pc = "compacting" /\ turn' = turn /\ history' = history
        /\ BuildContext(session, session)
    BY <1>6 DEF Compacted, BuildContext
  <2>2. turn' \in Nat \ {0} /\ turn' # 1
    BY <1>6, <2>1 DEF TypeInv, TypeOK, LoopOK, Placement
  <2>3. /\ WellFormed(session) /\ WellFormed(history)
        /\ WithSession => Follows(session, history)
        /\ ~WithSession => session = <<>>
    BY <1>6, <2>1 DEF TranscriptInv, Unasked, Between
  <2>4. WellFormed(history') /\ (WithSession => Follows(session, history'))
    BY <2>1, <2>3
  <2> QED BY <2>1, <2>2, <2>3, <2>4, ContextShape
<1> QED BY <1>4, <1>5, <1>6

LEMMA TranscriptInvInductive ==
    ASSUME TypeInv, TranscriptInv, [Next]_vars
    PROVE  TranscriptInv'
<1> DEFINE Still == UNCHANGED <<session, history, request>>
<1>1. CASE UNCHANGED vars \/ Host
  <2>1. Still /\ UNCHANGED <<pc, turn, calls, tool, completion>>
    BY <1>1 DEF vars, Host, Enqueue, Cancel, Resolve, lifecycle, loop, batch, transcript
  <2> QED BY <2>1, TranscriptKept
<1>2. CASE Tools
  BY <1>2, ToolsShape
<1>3. CASE Start \/ Compacted
  BY <1>3, ContextStepShape
<1>4. Cancelled => Still /\ pc' = "done"
  BY DEF Cancelled, Finish, transcript
<1>5. \A kind : AttemptFailed(kind) => Still /\ pc' \in {"done", "retrying"}
  BY DEF AttemptFailed, Finish, transcript
<1>6. CASE NeverStarted \/ Unwind \/ Opened \/ ReadDone \/ ReadLast \/ Retry
           \/ BatchInterrupted \/ Joined \/ CompactionFails \/ CompactionAbandoned
  <2>1. /\ Still
        /\ \/ pc' \in {"done", "dead", "joining", "abandoning"}
           \/ pc \in Between \ {"compacting"} /\ pc' \in Between \ {"compacting"}
    <3>1. CASE NeverStarted \/ BatchInterrupted
      BY <3>1 DEF NeverStarted, BatchInterrupted, transcript
    <3>2. CASE Unwind \/ Joined
      BY <1>4, <3>2 DEF Unwind, Joined, Cancelled
    <3>3. CASE Opened
      BY <1>4, <1>5, <3>3 DEF Opened, Suspend, transcript, Between
    <3>4. CASE ReadDone \/ ReadLast
      BY <3>4 DEF ReadDone, ReadLast, CloseStream, lifecycle, transcript, Between
    <3>5. CASE Retry
      BY <1>4, <3>5 DEF Retry, Suspend, transcript, Between
    <3>6. CASE CompactionFails \/ CompactionAbandoned
      BY <3>6 DEF CompactionFails, CompactionAbandoned, Suspend, Finish, transcript
    <3> QED BY <1>6, <3>1, <3>2, <3>3, <3>4, <3>5, <3>6
  <2> QED BY <2>1, TranscriptKept
<1>7. CASE Closed
  <2>1. pc = "closing"
    BY <1>7 DEF Closed
  <2>2. CASE \/ Cancelled \/ \E kind \in Failures : AttemptFailed(kind)
             \/ Finish("failed") /\ UNCHANGED transcript
    <3>1. /\ Still
          /\ \/ pc' \in {"done", "dead", "joining"}
             \/ pc \in Between \ {"compacting"} /\ pc' \in Between \ {"compacting"}
      BY <1>4, <1>5, <2>1, <2>2 DEF Finish, transcript, Between
    <3> QED BY <3>1, TranscriptKept
  <2>3. ASSUME NEW cs \in Replies, Respond(cs)
        PROVE  TranscriptInv'
    <3>1. turn \in 1..MaxTurns
      BY <2>1 DEF TypeInv, TypeOK, LoopOK, Placement
    <3> QED BY <2>1, <2>3, <3>1, RespondShape
  <2> QED BY <1>7, <2>2, <2>3 DEF Closed
<1>8. CASE Answered
  BY <1>8, AnsweredShape
<1>9. CASE BatchDone
  BY <1>9, BatchDoneShape
<1> QED BY <1>1, <1>2, <1>3, <1>6, <1>7, <1>8, <1>9 DEF Next, Worker

LEMMA TranscriptInvHolds == Spec => []TranscriptInv
<1>1. Init => TranscriptInv
  <2> SUFFICES ASSUME Init PROVE TranscriptInv
    OBVIOUS
  <2>1. WellFormed(<<>>)
    BY DEF WellFormed
  <2>2. WellFormed(<<User(Prompt)>>)
    <3>1. <<User(Prompt)>> \in Seq(Entries)
      BY EntryTypes
    <3>2. <<User(Prompt)>>[1].role = "user" /\ DOMAIN <<User(Prompt)>> = {1}
      BY DEF User
    <3> QED BY <3>1, <3>2 DEF WellFormed
  <2> QED BY <2>1, <2>2 DEF Init, TranscriptInv, CompletionInv, Unasked, Between
<1>2. TypeInv /\ TranscriptInv /\ [Next]_vars => TranscriptInv'
  BY TranscriptInvInductive
<1> QED BY <1>1, <1>2, TypeInvHolds, PTL DEF Spec

-----------------------------------------------------------------------------
(* What follows from it *)

(* No request has a call without a result, a call with two results or a      *)
(* result without its call, whatever failed, was refused or cancelled.       *)
THEOREM RequestsAreWellFormed == Spec => []RequestWellFormed
<1>1. TranscriptInv => RequestWellFormed
  <2> SUFFICES ASSUME WellFormed(request), NEW n \in DOMAIN request
               PROVE  /\ request[n].role = "assistant" =>
                            LET size == Len(request[n].calls)
                                results == {m \in DOMAIN request \cap ((n + 1)..(n + size)) :
                                              /\ request[m].role = "tool"
                                              /\ request[m].turn = request[n].turn}
                            IN  {request[m].call : m \in results} = 1..size
                      /\ request[n].role = "tool" =>
                            \E m \in 1..(n - 1) :
                               /\ request[m].role = "assistant"
                               /\ request[m].turn = request[n].turn
                               /\ n - m <= Len(request[m].calls)
    BY DEF TranscriptInv, RequestWellFormed
  <2>1. /\ Len(request) \in Nat /\ DOMAIN request = 1..Len(request)
        /\ request[n] \in Entries /\ n \in Nat
    BY DEF WellFormed
  <2>2. ASSUME request[n].role = "assistant"
        PROVE  LET size == Len(request[n].calls)
                   results == {m \in DOMAIN request \cap ((n + 1)..(n + size)) :
                                 /\ request[m].role = "tool"
                                 /\ request[m].turn = request[n].turn}
               IN  {request[m].call : m \in results} = 1..size
    <3> DEFINE size == Len(request[n].calls)
               results == {m \in DOMAIN request \cap ((n + 1)..(n + size)) :
                             request[m].role = "tool" /\ request[m].turn = request[n].turn}
    <3>1. size \in Nat
      BY <2>1, <2>2, EntryCalls
    <3>2. /\ n + size <= Len(request)
          /\ \A m \in (n + 1)..(n + size) :
                /\ request[m].role = "tool" /\ request[m].turn = request[n].turn
                /\ request[m].call \in 1..size
          /\ \A k \in 1..size : \E m \in (n + 1)..(n + size) : request[m].call = k
      BY <2>2 DEF WellFormed, AnsweredAt
    <3> HIDE DEF size
    <3>3. results = (n + 1)..(n + size)
      BY <2>1, <3>1, <3>2
    <3> HIDE DEF results
    <3>4. {request[m].call : m \in results} = 1..size
      BY <3>2, <3>3
    <3> QED BY <3>4 DEF results, size
  <2>3. ASSUME request[n].role = "tool"
        PROVE  \E m \in 1..(n - 1) : /\ request[m].role = "assistant"
                                     /\ request[m].turn = request[n].turn
                                     /\ n - m <= Len(request[m].calls)
    BY <2>3 DEF WellFormed, AsksFor
  <2> QED BY <2>2, <2>3
<1> QED BY <1>1, TranscriptInvHolds, PTL

(* The Session and the list the loop keeps tell one conversation.            *)
THEOREM SessionTellsHistory == Spec => []SessionFollowsHistory
<1>1. TranscriptInv => SessionFollowsHistory
  BY DEF TranscriptInv, SessionFollowsHistory, Follows, Between, Unasked
<1> QED BY <1>1, TranscriptInvHolds, PTL
-----------------------------------------------------------------------------
(* Without a Session *)

(* The results of one turn stand in the order of its calls.                  *)
Ascends(log) ==
    \A m, n \in DOMAIN log :
        /\ m < n
        /\ log[m].role = "tool" /\ log[n].role = "tool"
        /\ log[m].turn = log[n].turn
        => log[m].call < log[n].call

Before(log, t) == \A n \in DOMAIN log : log[n].role = "tool" => log[n].turn < t

(* The history has the results of the turns that are over, each turn's in    *)
(* the order of its calls, and without a Session it is what is sent.         *)
OrderInv ==
    /\ Ascends(history)
    /\ pc # "done" => Before(history, turn)
    /\ ~WithSession => Ascends(request)

(* What a turn adds to the history.                                          *)
Adds(more, t) ==
    /\ more \in Seq(Entries)
    /\ Ascends(more)
    /\ \A n \in DOMAIN more : more[n].role = "tool" => more[n].turn = t

LEMMA OrderGrows ==
    ASSUME NEW t \in Nat, NEW log \in Seq(Entries), Ascends(log), Before(log, t),
           NEW more, Adds(more, t)
    PROVE  /\ log \o more \in Seq(Entries)
           /\ Ascends(log \o more)
           /\ Before(log \o more, t + 1)
           /\ (\A n \in DOMAIN more : more[n].role # "tool") => Before(log \o more, t)
<1>1. more \in Seq(Entries)
  BY DEF Adds
<1>2. /\ log \o more \in Seq(Entries)
      /\ DOMAIN log = 1..Len(log) /\ DOMAIN more = 1..Len(more)
      /\ Len(log) \in Nat /\ Len(more) \in Nat
      /\ DOMAIN (log \o more) = 1..(Len(log) + Len(more))
      /\ \A n \in 1..(Len(log) + Len(more)) :
            (log \o more)[n] = IF n <= Len(log) THEN log[n] ELSE more[n - Len(log)]
  BY <1>1, ConcatProperties
<1> DEFINE both == log \o more
<1>3. \A n \in DOMAIN both :
         \/ n <= Len(log) /\ n \in DOMAIN log /\ both[n] = log[n]
         \/ n > Len(log) /\ n - Len(log) \in DOMAIN more /\ both[n] = more[n - Len(log)]
  BY <1>2
<1>4. DOMAIN both \subseteq Nat /\ \A e \in Entries : e.role = "tool" => e.turn \in Nat
  BY <1>2, RunAssumption DEF Entries, User, Assistant, Result
<1>5. \A n \in DOMAIN log : log[n] \in Entries
  BY <1>2
<1> HIDE DEF both
<1>6. Ascends(both)
  <2> SUFFICES ASSUME NEW m \in DOMAIN both, NEW n \in DOMAIN both, m < n,
                      both[m].role = "tool", both[n].role = "tool",
                      both[m].turn = both[n].turn
               PROVE  both[m].call < both[n].call
    BY DEF Ascends
  <2>1. CASE n <= Len(log)
    <3>1. m <= Len(log) /\ n <= Len(log)
      BY <1>2, <1>4, <2>1
    <3>2. m \in DOMAIN log /\ both[m] = log[m] /\ n \in DOMAIN log /\ both[n] = log[n]
      BY <1>2, <1>3, <1>4, <3>1
    <3> QED BY <3>2 DEF Ascends
  <2>2. CASE m > Len(log)
    <3>1. m - Len(log) < n - Len(log) /\ n > Len(log)
      BY <1>2, <1>4, <2>2
    <3>2. /\ m - Len(log) \in DOMAIN more /\ both[m] = more[m - Len(log)]
          /\ n - Len(log) \in DOMAIN more /\ both[n] = more[n - Len(log)]
      BY <1>2, <1>3, <1>4, <2>2, <3>1
    <3> QED BY <3>1, <3>2 DEF Adds, Ascends
  <2>3. CASE m <= Len(log) /\ n > Len(log)
    <3>1. both[m].turn < t /\ both[n].turn = t
      BY <1>2, <1>3, <1>4, <2>3 DEF Before, Adds
    <3> QED BY <3>1
  <2> QED BY <1>2, <1>4, <2>1, <2>2, <2>3
<1>7. Before(both, t + 1)
  <2> SUFFICES ASSUME NEW n \in DOMAIN both, both[n].role = "tool"
               PROVE  both[n].turn < t + 1
    BY DEF Before
  <2>1. \/ both[n] \in Entries /\ both[n].turn < t
        \/ both[n].turn = t
    BY <1>3, <1>5 DEF Before, Adds
  <2> QED BY <1>4, <2>1
<1>8. (\A n \in DOMAIN more : more[n].role # "tool") => Before(both, t)
  BY <1>3 DEF Before
<1> QED BY <1>2, <1>6, <1>7, <1>8 DEF both

LEMMA NoResultsAdded ==
    ASSUME NEW t, NEW more \in Seq(Entries), \A n \in DOMAIN more : more[n].role # "tool"
    PROVE  Adds(more, t)
BY DEF Adds, Ascends

LEMMA UsersAdded ==
    ASSUME TypeInv, NEW q \in Queues
    PROVE  /\ Users(q) \in Seq(Entries)
           /\ \A n \in DOMAIN Users(q) : Users(q)[n].role # "tool"
           /\ Adds(Users(q), turn) /\ Adds(Users(q), turn + 1)
<1>1. Users(q) \in Seq(Entries)
  BY UsersType DEF TypeInv, TypeOK, MessagesOK
<1>2. \A n \in DOMAIN Users(q) : Users(q)[n].role # "tool"
  BY DEF Users, User
<1> QED BY <1>1, <1>2, NoResultsAdded

(* The next turn, or the turn limit, with a history whose results are of     *)
(* this turn at the latest.                                                  *)
LEMMA NextTurnOrder ==
    ASSUME OrderInv, NEW log, NEW past, Ascends(past), Before(past, turn + 1),
           NextTurn(log, past)
    PROVE  OrderInv'
BY DEF OrderInv, NextTurn, BuildContext, ContextBuilt, Suspend, Finish

LEMMA ConcludeOrder ==
    ASSUME TypeInv, OrderInv, NEW log, NEW past \in Seq(Entries), Ascends(past),
           Before(past, turn + 1), Conclude(log, past)
    PROVE  OrderInv'
<1>1. turn + 1 \in Nat
  BY RunAssumption DEF TypeInv, TypeOK, LoopOK
<1>2. ASSUME NEW q \in Queues
      PROVE  Ascends(past \o Users(q)) /\ Before(past \o Users(q), turn + 1)
  BY <1>1, UsersAdded, OrderGrows
<1>3. \A q \in Queues : \A more : NextTurn(more, past \o Users(q)) => OrderInv'
  BY <1>2, NextTurnOrder
<1>4. CASE Finish("settled") /\ history' = past /\ UNCHANGED request
  BY <1>4 DEF OrderInv, Finish
<1> QED BY <1>3, <1>4 DEF Conclude, Queues

LEMMA RespondOrder ==
    ASSUME TypeInv, OrderInv, pc = "closing", NEW cs \in Replies, Respond(cs)
    PROVE  OrderInv'
<1> DEFINE past == Append(history, Assistant(turn, cs))
<1>1. turn \in 1..MaxTurns /\ turn \in Nat /\ history \in Seq(Entries)
  BY RunAssumption DEF TypeInv, TypeOK, LoopOK, TranscriptOK, Placement
<1>2. <<Assistant(turn, cs)>> \in Seq(Entries)
  BY <1>1, EntryTypes
<1>3. \A n \in DOMAIN <<Assistant(turn, cs)>> : <<Assistant(turn, cs)>>[n].role # "tool"
  BY DEF Assistant
<1>4. past = history \o <<Assistant(turn, cs)>>
  BY <1>1, <1>2
<1>5. /\ past \in Seq(Entries) /\ Ascends(past)
      /\ Before(past, turn) /\ Before(past, turn + 1)
  BY <1>1, <1>2, <1>3, <1>4, NoResultsAdded, OrderGrows DEF OrderInv
<1> HIDE DEF past
<1>6. CASE \E log : Conclude(log, past)
  BY <1>5, <1>6, ConcludeOrder
<1>7. CASE history' = past /\ UNCHANGED <<loop, request>>
  BY <1>5, <1>7 DEF OrderInv, loop
<1> QED BY <1>6, <1>7 DEF Respond, past

LEMMA BatchDoneOrder ==
    ASSUME TypeInv, OrderInv, BatchDone
    PROVE  OrderInv'
<1> DEFINE told == InOrderOf([k \in 1..Len(calls) |-> k])
           more == Users("steering")
<1>1. /\ turn \in 1..MaxTurns /\ turn \in Nat /\ turn + 1 \in Nat /\ history \in Seq(Entries)
      /\ Len(calls) \in 0..MaxCalls
      /\ tool \in [1..Len(calls) -> {"waiting", "running", "success", "error", "cancelled"}]
  BY RepliesType, RunAssumption
     DEF BatchDone, TypeInv, TypeOK, LoopOK, TranscriptOK, BatchOK, Placement
<1>2. \A k \in 1..Len(calls) : tool[k] \in Ended
  BY <1>1 DEF BatchDone, Ended
<1>3. [k \in 1..Len(calls) |-> k] \in Seq(1..Len(calls)) /\ Len(calls) \in Nat
  BY <1>1, RunAssumption
<1>4. told \in Seq(Entries)
  BY <1>1, <1>2, <1>3, ResultsType
<1>5. /\ DOMAIN told = 1..Len(calls)
      /\ \A n \in 1..Len(calls) : told[n] = Result(turn, n, tool[n])
  BY <1>3 DEF InOrderOf
<1> HIDE DEF told
<1>6. Adds(told, turn)
  BY <1>4, <1>5 DEF Adds, Ascends, Result
<1>7. /\ history \o told \in Seq(Entries) /\ Ascends(history \o told)
      /\ Before(history \o told, turn + 1)
  BY <1>1, <1>6, OrderGrows DEF OrderInv, BatchDone
<1> DEFINE past == history \o told
<1> HIDE DEF past
<1>8. Ascends(past \o more) /\ Before(past \o more, turn + 1)
  BY <1>1, <1>7, UsersAdded, OrderGrows DEF past, Queues
<1>9. \E log : NextTurn(log, past \o more)
  BY DEF BatchDone, past, told
<1> QED BY <1>8, <1>9, NextTurnOrder

LEMMA OrderInvInductive ==
    ASSUME TypeInv, OrderInv, [Next]_vars
    PROVE  OrderInv'
<1> DEFINE Still == UNCHANGED <<history, request, turn>>
<1>1. Still /\ (pc = "done" => pc' = "done") => OrderInv'
  BY DEF OrderInv
<1>2. CASE UNCHANGED vars \/ Host \/ Tools
  <2>1. Still /\ pc' = pc
    BY <1>2 DEF vars, Host, Enqueue, Cancel, Resolve, Tools, ToolBegin, ToolEnd, lifecycle, loop,
                transcript
  <2> QED BY <1>1, <2>1
<1>3. CASE Start \/ Compacted
  <2>1. /\ pc # "done" /\ UNCHANGED history /\ turn \in Nat
        /\ turn' = turn \/ turn' = turn + 1
        /\ request' = request \/ (~WithSession => request' = history')
    BY <1>3 DEF Start, Compacted, BuildContext, ContextBuilt, TypeInv, TypeOK, LoopOK, Placement
  <2>2. \A n \in DOMAIN history : history[n].role = "tool" => history[n].turn \in Nat
    BY RunAssumption DEF TypeInv, TypeOK, TranscriptOK, Entries, User, Assistant, Result
  <2>3. Before(history', turn')
    BY <2>1, <2>2 DEF OrderInv, Before
  <2> QED BY <2>1, <2>3 DEF OrderInv
<1>4. Cancelled => Still
  BY DEF Cancelled, loop, transcript
<1>5. \A kind : AttemptFailed(kind) => Still
  BY DEF AttemptFailed, transcript
<1>6. CASE NeverStarted \/ Unwind \/ Opened \/ ReadDone \/ ReadLast \/ Retry
           \/ BatchInterrupted \/ Joined \/ Answered \/ CompactionFails \/ CompactionAbandoned
  <2>1. pc # "done"
    BY <1>6 DEF CompactionFails, CompactionAbandoned, NeverStarted, Unwind, Opened, ReadDone, ReadLast, Retry, BatchInterrupted, Joined,
                Answered
  <2>2. Still
    BY <1>4, <1>5, <1>6
       DEF CompactionFails, CompactionAbandoned, NeverStarted, Unwind, Opened, ReadDone, ReadLast, CloseStream, Retry, BatchInterrupted,
           Joined, Answered, loop, transcript
  <2> QED BY <1>1, <2>1, <2>2
<1>7. CASE Closed
  <2>1. pc = "closing"
    BY <1>7 DEF Closed
  <2>2. CASE Still
    BY <1>1, <2>1, <2>2
  <2>3. ASSUME NEW cs \in Replies, Respond(cs)
        PROVE  OrderInv'
    BY <2>1, <2>3, RespondOrder
  <2> QED BY <1>4, <1>5, <1>7, <2>2, <2>3 DEF Closed, loop, transcript
<1>8. CASE BatchDone
  BY <1>8, BatchDoneOrder
<1> QED BY <1>2, <1>3, <1>6, <1>7, <1>8 DEF Next, Worker

(* Finding 3 needs a Session: without one every request has the results of   *)
(* each turn in the order of its calls, as the documents promise, however    *)
(* the batch completed.                                                      *)
THEOREM ResultsInOrderWithoutSession ==
    ASSUME ~WithSession
    PROVE  Spec => []ResultsKeepCallOrder
<1>1. Init => OrderInv
  BY DEF Init, OrderInv, Ascends, Before, User
<1>2. TypeInv /\ OrderInv /\ [Next]_vars => OrderInv'
  BY OrderInvInductive
<1>3. OrderInv => ResultsKeepCallOrder
  BY DEF OrderInv, Ascends, ResultsKeepCallOrder
<1> QED BY <1>1, <1>2, <1>3, TypeInvHolds, PTL DEF Spec
=============================================================================
