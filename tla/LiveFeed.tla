------------------------------ MODULE LiveFeed -------------------------------
(***************************************************************************)
(* The live streams of events (api/events.py: server-sent events, each     *)
(* through a consumer group of its own that starts at the end of the       *)
(* stream) and the telemetry of the sites, which goes to the database and  *)
(* to the stream (api/ems.py).  A topic is what the filters tell apart: a  *)
(* site, a charger, a session or a type of event.                          *)
(***************************************************************************)
EXTENDS Naturals, Sequences

CONSTANTS
    Topic,       \* topics of events
    Site,        \* those that are sites; their controllers post telemetry
    Unknown,     \* what a filter may name and no entry has
    Client,      \* connections of clients that follow the stream
    KeptEvents,  \* how many entries the stream keeps
    ReadCount,   \* entries a client's consumer reads at once
    MaxFeed,     \* bound: entries
    MaxBreaks    \* bound: things that go wrong

ASSUME FeedAssumption ==
    /\ Site \subseteq Topic
    /\ Unknown \notin Topic
    /\ {KeptEvents, ReadCount} \subseteq Nat \ {0}
    /\ {MaxFeed, MaxBreaks} \subseteq Nat

VARIABLES
    feed,     \* the topic of every entry ever appended
    oldest,   \* position of the oldest entry that is kept
    follow,   \* the stream of each client and its local variables
    group,    \* the client's consumer group: whether it exists, its last delivered entry
    got,      \* positions of the entries sent to the client, in order
    since,    \* history: the end of the stream when the client was answered
    missed,   \* history: entries since then that the client's consumer never saw
    left,     \* history: a stream ended, and its group did not
    post,     \* the request that a site's controller has under way
    samples,  \* number of rows of ocpp.ems_telemetry per site
    told,     \* number of snapshots whose answer was ok, and of other requests
    breaks    \* how many things have gone wrong

feedVars == <<feed, oldest, follow, group, got, since, missed, left, post, samples, told, breaks>>
streams  == <<follow, group, got, since, missed, left>>
sites    == <<post, samples, told>>

-----------------------------------------------------------------------------
Entries == 1..Len(feed)
NoGroup == [here |-> FALSE, cursor |-> 0]
NoFollow == [pc |-> "off", asked |-> {}, types |-> FALSE, batch |-> <<>>, away |-> FALSE]

\* What a filter may name, and a stream: the names its request asks for, and whether
\* it asks for types of events.
Filter == Topic \cup {Unknown}

Stream == [pc : {"off", "answer", "join", "read"}, asked : SUBSET Filter,
           types : BOOLEAN, batch : Seq(Entries), away : BOOLEAN]

FeedTypeOK ==
    /\ feed \in Seq(Topic)
    /\ oldest \in Nat \ {0}
    /\ follow \in [Client -> Stream]
    /\ group \in [Client -> [here : BOOLEAN, cursor : Nat]]
    /\ got \in [Client -> Seq(Entries)]
    /\ since \in [Client -> Nat]
    /\ missed \in [Client -> SUBSET Entries]
    /\ left \in BOOLEAN
    /\ post \in [Site -> [pc : {"idle", "db", "bus", "answer"}, db : BOOLEAN]]
    /\ samples \in [Site -> Nat]
    /\ told \in [Site -> [ok : Nat, other : Nat]]
    /\ breaks \in Nat

FeedInit ==
    /\ feed = <<>> /\ oldest = 1
    /\ follow = [c \in Client |-> NoFollow]
    /\ group = [c \in Client |-> NoGroup]
    /\ got = [c \in Client |-> <<>>]
    /\ since = [c \in Client |-> 0]
    /\ missed = [c \in Client |-> {}]
    /\ left = FALSE
    /\ post = [s \in Site |-> [pc |-> "idle", db |-> FALSE]]
    /\ samples = [s \in Site |-> 0]
    /\ told = [s \in Site |-> [ok |-> 0, other |-> 0]]
    /\ breaks = 0

Breaks == breaks < MaxBreaks /\ breaks' = breaks + 1

\* The filter that is left of what was asked: a type nobody knows is dropped, an
\* unknown charger or site is kept.
Want(c) == IF follow[c].types THEN follow[c].asked \ {Unknown} ELSE follow[c].asked

\* An empty set is no filter: every topic.
Wanted(c, e) == Want(c) = {} \/ feed[e] \in Want(c)

-----------------------------------------------------------------------------
(* Publishers.                                                             *)

\* Redis trims when it likes, but never below what is to be kept.
AddEntry(t) ==
    /\ Len(feed) < MaxFeed
    /\ feed' = Append(feed, t)
    /\ oldest' \in {oldest} \cup oldest..(Len(feed) + 2 - KeptEvents)

PublishOther ==
    /\ \E t \in Topic \ Site : AddEntry(t)
    /\ UNCHANGED <<streams, sites, breaks>>

PostStarts(s) ==
    /\ post[s].pc = "idle"
    /\ post' = [post EXCEPT ![s] = [pc |-> "db", db |-> FALSE]]
    /\ UNCHANGED <<feed, oldest, streams, samples, told, breaks>>

\* The row: stored, refused, or stored with its answer lost.  Then the entry,
\* whatever became of the row, and the answer, which says what became of the row.
PostRow(s) ==
    /\ post[s].pc = "db"
    /\ \/ /\ samples' = [samples EXCEPT ![s] = @ + 1]
          /\ post' = [post EXCEPT ![s] = [pc |-> "bus", db |-> TRUE]]
          /\ UNCHANGED breaks
       \/ /\ Breaks
          /\ samples' \in {samples, [samples EXCEPT ![s] = @ + 1]}
          /\ post' = [post EXCEPT ![s] = [pc |-> "bus", db |-> FALSE]]
    /\ UNCHANGED <<feed, oldest, streams, told>>

PostEntry(s) ==
    /\ post[s].pc = "bus"
    /\ post' = [post EXCEPT ![s].pc = "answer"]
    /\ \/ AddEntry(s) /\ UNCHANGED breaks
       \/ Breaks /\ (AddEntry(s) \/ UNCHANGED <<feed, oldest>>)
    /\ UNCHANGED <<streams, samples, told>>

PostAnswer(s) ==
    /\ post[s].pc = "answer"
    /\ post' = [post EXCEPT ![s] = [pc |-> "idle", db |-> FALSE]]
    /\ told' = IF post[s].db THEN [told EXCEPT ![s].ok = @ + 1]
               ELSE [told EXCEPT ![s].other = @ + 1]
    /\ UNCHANGED <<feed, oldest, streams, samples, breaks>>

-----------------------------------------------------------------------------
(* event_stream, charger_live, session_live.                               *)

Follow(c, A, types) ==
    /\ follow[c].pc = "off"
    /\ follow' = [follow EXCEPT ![c] = [NoFollow EXCEPT !.pc = "answer", !.asked = A,
                                                       !.types = types]]
    /\ UNCHANGED <<feed, oldest, group, got, since, missed, left, sites, breaks>>

\* The streams of one charger and of one session: one name, no choice.
ChargerLive(c) == \E t \in Filter \ Site : Follow(c, {t}, FALSE)
SessionLive(c) == \E t \in Filter \ Site : Follow(c, {t}, FALSE)

\* StreamingResponse sends the start of the response before it asks the generator
\* for anything: the client is answered, and has no group yet.
Respond(c) ==
    /\ follow[c].pc = "answer"
    /\ follow' = [follow EXCEPT ![c].pc = "join"]
    /\ since' = [since EXCEPT ![c] = Len(feed)]
    /\ UNCHANGED <<feed, oldest, group, got, missed, left, sites, breaks>>

JoinAt(c, e) ==
    /\ follow[c].pc = "join"
    /\ follow' = [follow EXCEPT ![c].pc = "read"]
    /\ group' = [group EXCEPT ![c] = [here |-> TRUE, cursor |-> e]]
    /\ missed' = [missed EXCEPT ![c] = (since[c] + 1) .. e]
    /\ UNCHANGED <<feed, oldest, got, since, left, sites, breaks>>

\* Faulty: the group starts at the oldest entry.
JoinAtStart(c) == JoinAt(c, 0)

\* ensure_group(group, start_id="$"): the group knows nothing of what was published
\* between the answer and now.
Join(c) == JoinAt(c, Len(feed))

\* xreadgroup: what is new to the group and still kept.  If the answer is lost
\* the group has moved on all the same, and nobody reads its pending entries.
ReadFeed(c) ==
    LET next  == IF group[c].cursor + 1 < oldest THEN oldest ELSE group[c].cursor + 1
        last  == IF next + ReadCount - 1 < Len(feed) THEN next + ReadCount - 1 ELSE Len(feed)
        batch == [k \in 1 .. (last + 1 - next) |-> next + k - 1]
        trimmed == (group[c].cursor + 1) .. (next - 1)
    IN  /\ follow[c].pc = "read" /\ follow[c].batch = <<>>
        /\ next <= Len(feed)
        /\ group' = [group EXCEPT ![c].cursor = last]
        /\ \/ /\ follow' = [follow EXCEPT ![c].batch = batch]
              /\ missed' = [missed EXCEPT ![c] = @ \cup trimmed]
              /\ UNCHANGED breaks
           \/ /\ Breaks
              /\ missed' = [missed EXCEPT ![c] = @ \cup trimmed \cup next..last]
              /\ UNCHANGED follow
        /\ UNCHANGED <<feed, oldest, got, since, left, sites>>

\* Entries outside the filter are acknowledged and dropped; the others are sent,
\* if the client is still there.
SendEntry(c) ==
    /\ follow[c].batch # <<>>
    /\ LET e == Head(follow[c].batch)
       IN  /\ Wanted(c, e) => ~follow[c].away
           /\ got' = IF Wanted(c, e) THEN [got EXCEPT ![c] = Append(@, e)] ELSE got
    /\ follow' = [follow EXCEPT ![c].batch = Tail(@)]
    /\ UNCHANGED <<feed, oldest, group, since, missed, left, sites, breaks>>

ClientLeaves(c) ==
    /\ follow[c].pc # "off" /\ ~follow[c].away
    /\ follow' = [follow EXCEPT ![c].away = TRUE]
    /\ UNCHANGED <<feed, oldest, group, got, since, missed, left, sites, breaks>>

Forgotten(c) ==
    /\ follow' = [follow EXCEPT ![c] = NoFollow]
    /\ group' = [group EXCEPT ![c] = NoGroup]
    /\ got' = [got EXCEPT ![c] = <<>>]
    /\ since' = [since EXCEPT ![c] = 0]
    /\ missed' = [missed EXCEPT ![c] = {}]

\* The generator ends, and its finally destroys the group.  When the client leaves,
\* the server cancels the scope it runs in: consume swallows the first CancelledError,
\* and the await of xgroup_destroy raises the next, which is no Exception.  The
\* command may have been sent by then or not, and nothing else destroys the group:
\* the next connection has one of another name.  A stream cancelled while it creates
\* its group has no finally yet.
StreamEnds(c) ==
    /\ follow[c].pc # "off" /\ follow[c].away
    /\ Forgotten(c)
    /\ left' \in {left, left \/ follow[c].pc \in {"join", "read"}}
    /\ UNCHANGED <<feed, oldest, sites, breaks>>

\* The group cannot be created: the response breaks off.  If only the answer of
\* Redis is lost, the group is there all the same.
JoinFails(c) ==
    /\ follow[c].pc = "join"
    /\ Breaks
    /\ Forgotten(c)
    /\ left' \in {left, TRUE}
    /\ UNCHANGED <<feed, oldest, sites>>

ProcessDies ==
    /\ Breaks
    /\ left' = (left \/ \E c \in Client : group[c].here)
    /\ follow' = [c \in Client |-> NoFollow]
    /\ group' = [c \in Client |-> NoGroup]
    /\ got' = [c \in Client |-> <<>>]
    /\ since' = [c \in Client |-> 0]
    /\ missed' = [c \in Client |-> {}]
    /\ told' = [s \in Site |-> IF post[s].pc = "idle" THEN told[s]
                               ELSE [told[s] EXCEPT !.other = @ + 1]]
    /\ post' = [s \in Site |-> [pc |-> "idle", db |-> FALSE]]
    /\ UNCHANGED <<feed, oldest, samples>>

FeedNext ==
    \/ PublishOther \/ ProcessDies
    \/ \E s \in Site : PostStarts(s) \/ PostRow(s) \/ PostEntry(s) \/ PostAnswer(s)
    \/ \E c \in Client :
         \/ \E A \in SUBSET Filter, types \in BOOLEAN : Follow(c, A, types)
         \/ ChargerLive(c) \/ SessionLive(c)
         \/ Respond(c) \/ Join(c) \/ JoinFails(c) \/ ReadFeed(c) \/ SendEntry(c) \/ ClientLeaves(c) \/ StreamEnds(c)

FeedSpec == FeedInit /\ [][FeedNext]_feedVars

-----------------------------------------------------------------------------
(* Properties.                                                             *)

\* The entries a stream is done with.
DoneWith(c) ==
    (since[c] + 1) .. (IF follow[c].batch = <<>> THEN group[c].cursor
                       ELSE Head(follow[c].batch) - 1)

\* What a client can count on: what it asked for, everything if it named nothing,
\* and everything too if it named nothing but types that do not exist.
Promised(c, e) ==
    \/ feed[e] \in follow[c].asked
    \/ follow[c].asked = {}
    \/ follow[c].types /\ follow[c].asked \cap Topic = {}

\* A client is sent every entry it can count on since it was answered, once and in
\* order, and nothing else and nothing from before, but for what was published while
\* its group was being created, what Redis trimmed, and what a lost answer took
\* along.  A site has a row for every request that was answered with ok, and at most
\* one for any other.
FeedSound ==
    /\ \A c \in Client :
         follow[c].pc = "read" =>
           /\ {got[c][k] : k \in DOMAIN got[c]} =
                {e \in DoneWith(c) \ missed[c] : Promised(c, e)}
           /\ \A j, k \in DOMAIN got[c] : j < k => got[c][j] < got[c][k]
    /\ \A s \in Site :
         LET under == IF post[s].pc \in {"bus", "answer"} THEN 1 ELSE 0
         IN  /\ told[s].ok <= samples[s]
             /\ samples[s] <= told[s].ok + told[s].other + under
=============================================================================
