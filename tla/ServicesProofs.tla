--------------------------- MODULE ServicesProofs ---------------------------
(***************************************************************************)
(* Proofs about what happens beside the sessions: Fleet, Drivers,          *)
(* StaleCloser and LiveFeed, for any number of chargers, deletions,        *)
(* accounts, forms, sessions, clients and entries of the stream.           *)
(***************************************************************************)
EXTENDS MCServices, Integers, SequenceTheorems, TLAPS

-----------------------------------------------------------------------------
(* The inductive invariant of Fleet.                                       *)

Live(v) == stay[v].state \in {"open", "billed"}

\* The foreign keys: rows refer to chargers that are there.
RefsSound ==
    /\ plugs \subseteq points.all
    /\ \A v \in Visit16 : Live(v) => stay[v].of \in points.all

\* What a deletion has done to its chargers is still so for those that said
\* nothing since it began; a deletion of everything knows every other charger.
DeletionOk(o) ==
    LET d == deletion[o]
    IN  /\ d.pc = "idle" => d.of = {}
        /\ d.pc \in {"cdrs", "sessions", "rows"} /\ d.all =>
             points.all \subseteq d.of \cup touched
        /\ d.pc = "sessions" =>
             \A v \in Visit16 : stay[v].state = "billed" => stay[v].of \notin d.of \ touched
        /\ d.pc \in {"rows", "live"} =>
             \A v \in Visit16 : Live(v) => stay[v].of \notin d.of \ touched
        /\ d.pc = "live" => points.all \cap d.of \subseteq touched

DeletionsSound == \A o \in Operator : DeletionOk(o)

GoneSound == gone \cap (points.all \cup shown) \subseteq touched

ShownSound ==
    \A c \in shown : c \in points.all \/ c \in touched \/ c \in halved \/ InDeletion(c)

FleetIInv ==
    /\ FleetTypeOK /\ RefsSound /\ DeletionsSound /\ GoneSound /\ ShownSound /\ ~refused

LEMMA FleetInitIInv == FleetInit => FleetIInv
<1> SUFFICES ASSUME FleetInit PROVE FleetIInv
  OBVIOUS
<1> USE FleetAssumption DEF FleetInit
<1>1. AnyCharger \in Station
  BY DEF AnyCharger
<1>2. FleetTypeOK
  BY <1>1 DEF FleetTypeOK, Stay, Deletion, NoDeletion
<1>3. RefsSound /\ DeletionsSound
  BY DEF RefsSound, Live, DeletionsSound, DeletionOk, NoDeletion
<1>4. GoneSound /\ ShownSound /\ ~refused
  BY DEF GoneSound, ShownSound
<1> QED BY <1>2, <1>3, <1>4 DEF FleetIInv

-----------------------------------------------------------------------------
(* Chargers and those who create and change them.                          *)

\* What a step that is not of a deletion does: whatever it adds, it says.
Speaks ==
    /\ UNCHANGED <<deletion, gone, halved, refused>>
    /\ touched \subseteq touched'
    /\ points.all \subseteq points'.all /\ points'.all \subseteq points.all \cup touched'
    /\ plugs' \subseteq plugs \cup points.all
    /\ shown' \subseteq shown \cup touched'
    /\ \A v \in Visit16 :
         stay'[v] = stay[v] \/ stay'[v].of \in points.all \cap touched'

LEMMA SpeaksKeeps ==
    ASSUME FleetIInv, Speaks
    PROVE  RefsSound' /\ DeletionsSound' /\ GoneSound' /\ ShownSound' /\ ~refused'
<1> USE DEF FleetIInv, Speaks
<1>1. RefsSound'
  BY DEF RefsSound, Live
<1>2. DeletionsSound'
  <2> SUFFICES ASSUME NEW o \in Operator PROVE DeletionOk(o)'
    BY DEF DeletionsSound
  <2> DEFINE d == deletion[o]
  <2>1. DeletionOk(o) /\ deletion' = deletion
    BY DEF DeletionsSound
  <2>2. d.pc = "idle" => d.of = {}
    BY <2>1 DEF DeletionOk
  <2>3. d.pc \in {"cdrs", "sessions", "rows"} /\ d.all => points'.all \subseteq d.of \cup touched'
    BY <2>1 DEF DeletionOk
  <2>4. d.pc = "sessions" => \A v \in Visit16 :
          stay'[v].state = "billed" => stay'[v].of \notin d.of \ touched'
    BY <2>1 DEF DeletionOk
  <2>5. d.pc \in {"rows", "live"} => \A v \in Visit16 :
          stay'[v].state \in {"open", "billed"} => stay'[v].of \notin d.of \ touched'
    BY <2>1 DEF DeletionOk, Live
  <2>6. d.pc = "live" => points'.all \cap d.of \subseteq touched'
    BY <2>1 DEF DeletionOk
  <2> QED BY <2>1, <2>2, <2>3, <2>4, <2>5, <2>6 DEF DeletionOk, Live
<1>3. GoneSound'
  BY DEF GoneSound
<1>4. ShownSound'
  BY DEF ShownSound, InDeletion
<1> QED BY <1>1, <1>2, <1>3, <1>4

LEMMA UpsertIs ==
    ASSUME FleetTypeOK, NEW c \in Station, NEW simulated, Upsert(c, simulated)
    PROVE  /\ points'.all = points.all \cup {c}
           /\ points'.simulated \subseteq points'.all /\ points'.all \subseteq Station
BY DEF FleetTypeOK, Upsert

\* What the charger says, and what an operator creates or changes.
SpeaksNext ==
    \/ \E c \in Station :
         \/ BootRow(c) \/ HashSet(c) \/ Beat(c) \/ BeatRow(c) \/ UpdateCharger(c)
         \/ \E connector \in {0, 1} : StatusRow(c, connector)
         \/ \E simulated \in BOOLEAN : CreateCharger(c, simulated)
         \/ \E v \in Visit16 : StayOpens(v, c)
    \/ \E v \in Visit16 : StayBilled(v)

LEMMA SpeaksStep ==
    ASSUME FleetIInv, SpeaksNext PROVE FleetTypeOK' /\ Speaks
<1> USE DEF FleetTypeOK, Speaks
<1>t. FleetTypeOK /\ RefsSound
  BY DEF FleetIInv
<1>1. ASSUME NEW c \in Station, BootRow(c) PROVE FleetTypeOK' /\ Speaks
  <2>1. points'.all = points.all \cup {c} /\ points'.simulated \subseteq points'.all
    BY <1>1, <1>t, UpsertIs DEF BootRow
  <2> QED BY <1>1, <1>t, <2>1 DEF BootRow, Word, Talk
<1>2. ASSUME NEW c \in Station, HashSet(c) PROVE FleetTypeOK' /\ Speaks
  BY <1>2, <1>t DEF HashSet, Still, Talk
<1>3. ASSUME NEW c \in Station, Beat(c) PROVE FleetTypeOK' /\ Speaks
  BY <1>3, <1>t DEF Beat, Word, Talk
<1>4. ASSUME NEW c \in Station, BeatRow(c) PROVE FleetTypeOK' /\ Speaks
  <2>1. points'.all = points.all \cup {c} /\ points'.simulated \subseteq points'.all
    BY <1>4, <1>t, UpsertIs DEF BeatRow
  <2> QED BY <1>4, <1>t, <2>1 DEF BeatRow, Still, Talk
<1>5. ASSUME NEW c \in Station, UpdateCharger(c) PROVE FleetTypeOK' /\ Speaks
  <2>1. points'.all = points.all \cup {c} /\ points'.simulated \subseteq points'.all
    BY <1>5, <1>t, UpsertIs DEF UpdateCharger
  <2> QED BY <1>5, <1>t, <2>1 DEF UpdateCharger
<1>6. ASSUME NEW c \in Station, NEW connector \in {0, 1}, StatusRow(c, connector)
      PROVE  FleetTypeOK' /\ Speaks
  BY <1>6, <1>t DEF StatusRow, Word, Talk
<1>7. ASSUME NEW c \in Station, NEW simulated \in BOOLEAN, CreateCharger(c, simulated)
      PROVE  FleetTypeOK' /\ Speaks
  <2>1. points'.all = points.all \cup {c} /\ points'.simulated \subseteq points'.all
    BY <1>7, <1>t, UpsertIs DEF CreateCharger
  <2> QED BY <1>7, <1>t, <2>1 DEF CreateCharger, Word
<1>8. ASSUME NEW c \in Station, NEW v \in Visit16, StayOpens(v, c) PROVE FleetTypeOK' /\ Speaks
  <2>1. [state |-> "open", of |-> c] \in Stay
    BY DEF Stay
  <2> QED BY <1>8, <1>t, <2>1 DEF StayOpens, Word
<1>9. ASSUME NEW v \in Visit16, StayBilled(v) PROVE FleetTypeOK' /\ Speaks
  <2>1. stay[v] \in Stay
    BY <1>t
  <2>2. /\ [stay[v] EXCEPT !.state = "billed"] \in Stay
        /\ [stay[v] EXCEPT !.state = "billed"].of = stay[v].of
        /\ stay[v].of \in Station
    BY <2>1 DEF Stay
  <2>3. stay[v].of \in points.all
    BY <1>9, <1>t DEF StayBilled, RefsSound, Live
  <2> QED BY <1>9, <1>t, <2>2, <2>3 DEF StayBilled, Word
<1> QED BY <1>1, <1>2, <1>3, <1>4, <1>5, <1>6, <1>7, <1>8, <1>9, SpeaksNext DEF SpeaksNext

-----------------------------------------------------------------------------
(* Deletions.                                                              *)

\* What a step of a deletion never does: it adds nothing, and unsays nothing.
Shrinks ==
    /\ points'.all \subseteq points.all
    /\ touched \subseteq touched'
    /\ \A v \in Visit16 :
         /\ Live(v)' => Live(v) /\ stay'[v].of = stay[v].of
         /\ stay'[v].state = "billed" => stay[v].state = "billed"

LEMMA OtherDeletions ==
    ASSUME NEW o \in Operator, DeletionsSound, Shrinks,
           \A p \in Operator \ {o} : deletion'[p] = deletion[p], DeletionOk(o)'
    PROVE  DeletionsSound'
<1> SUFFICES ASSUME NEW p \in Operator \ {o} PROVE DeletionOk(p)'
  BY DEF DeletionsSound
<1> DEFINE d == deletion[p]
<1>1. DeletionOk(p) /\ deletion'[p] = d
  BY DEF DeletionsSound
<1>2. d.pc = "idle" => d.of = {}
  BY <1>1 DEF DeletionOk
<1>3. d.pc \in {"cdrs", "sessions", "rows"} /\ d.all => points'.all \subseteq d.of \cup touched'
  BY <1>1 DEF DeletionOk, Shrinks
<1>4. d.pc = "sessions" => \A v \in Visit16 :
        stay'[v].state = "billed" => stay'[v].of \notin d.of \ touched'
  BY <1>1 DEF DeletionOk, Shrinks, Live
<1>5. d.pc \in {"rows", "live"} => \A v \in Visit16 :
        stay'[v].state \in {"open", "billed"} => stay'[v].of \notin d.of \ touched'
  BY <1>1 DEF DeletionOk, Shrinks, Live
<1>6. d.pc = "live" => points'.all \cap d.of \subseteq touched'
  BY <1>1 DEF DeletionOk, Shrinks
<1> QED BY <1>1, <1>2, <1>3, <1>4, <1>5, <1>6 DEF DeletionOk, Live

\* A deletion gives chargers up only to the history, or hides them.
LEMMA ShownStays ==
    ASSUME ShownSound, NEW o \in Operator, shown' \subseteq shown, touched \subseteq touched',
           halved \subseteq halved', \A p \in Operator \ {o} : deletion'[p] = deletion[p],
           \A c \in shown' : /\ c \in deletion[o].of => c \in deletion'[o].of \cup halved'
                             /\ c \in points.all =>
                                  c \in points'.all \cup touched' \cup deletion'[o].of
    PROVE  ShownSound'
<1> SUFFICES ASSUME NEW c \in shown'
             PROVE  c \in points'.all \/ c \in touched' \/ c \in halved' \/ InDeletion(c)'
  BY DEF ShownSound
<1>1. c \in points.all \/ c \in touched \/ c \in halved \/ InDeletion(c)
  BY DEF ShownSound
<1>2. InDeletion(c)' <=> \E p \in Operator : c \in deletion'[p].of
  BY DEF InDeletion
<1>3. CASE InDeletion(c)
  <2> PICK p \in Operator : c \in deletion[p].of
    BY <1>3 DEF InDeletion
  <2> QED BY <1>2
<1> QED BY <1>1, <1>2, <1>3

LEMMA BeginStep ==
    ASSUME FleetIInv, NEW o \in Operator, NEW T \in SUBSET Station, NEW all \in BOOLEAN,
           all => T = points.all, T \subseteq points.all, BeginDeletion(o, T, all)
    PROVE  FleetIInv'
<1> DEFINE d == [pc |-> "cdrs", of |-> T, all |-> all]
<1>d. d \in Deletion /\ d.of = T /\ d.pc = "cdrs" /\ d.all = all
  BY DEF Deletion
<1>t. FleetTypeOK /\ RefsSound /\ DeletionsSound /\ GoneSound /\ ShownSound /\ ~refused
  BY DEF FleetIInv
<1>b. /\ deletion[o].pc = "idle" /\ deletes' = deletes + 1
      /\ deletion' = [deletion EXCEPT ![o] = d]
      /\ touched' = IF \E p \in Operator : deletion[p].pc # "idle" THEN touched
                    ELSE touched \ T
      /\ halved' = halved \ T /\ gone' = gone \ T
      /\ UNCHANGED <<points, plugs, stay, shown, talk, refused, words>>
  BY DEF BeginDeletion
<1>o. deletion[o].of = {} /\ deletion'[o] = d
  BY <1>b, <1>t DEF DeletionsSound, DeletionOk, FleetTypeOK
<1>s. \A p \in Operator \ {o} : deletion'[p] = deletion[p]
  BY <1>b, <1>t DEF FleetTypeOK
<1> HIDE DEF d
<1>1. FleetTypeOK'
  BY <1>d, <1>t, <1>b DEF FleetTypeOK
<1>2. RefsSound' /\ ~refused'
  BY <1>t, <1>b DEF RefsSound, Live
<1>3. DeletionOk(o)'
  BY <1>d, <1>o, <1>b DEF DeletionOk
<1>4. DeletionsSound'
  <2>1. CASE \E p \in Operator : deletion[p].pc # "idle"
    <3>1. Shrinks
      BY <1>b, <2>1 DEF Shrinks, Live
    <3> QED BY <3>1, <1>3, <1>s, <1>t, OtherDeletions
  <2>2. CASE \A p \in Operator : deletion[p].pc = "idle"
    <3> SUFFICES ASSUME NEW p \in Operator \ {o} PROVE DeletionOk(p)'
      BY <1>3 DEF DeletionsSound
    <3>1. deletion'[p].pc = "idle" /\ deletion'[p].of = {}
      BY <2>2, <1>s, <1>t DEF DeletionsSound, DeletionOk
    <3> QED BY <3>1 DEF DeletionOk
  <2> QED BY <2>1, <2>2
<1>5. GoneSound'
  BY <1>t, <1>b DEF GoneSound
<1>6. ShownSound'
  <2> SUFFICES ASSUME NEW c \in shown'
               PROVE  c \in points'.all \/ c \in touched' \/ c \in halved' \/ InDeletion(c)'
    BY DEF ShownSound
  <2>1. c \in points.all \/ c \in touched \/ c \in halved \/ InDeletion(c)
    BY <1>t, <1>b DEF ShownSound
  <2>2. c \in T => InDeletion(c)'
    BY <1>o, <1>d DEF InDeletion
  <2>3. InDeletion(c) => InDeletion(c)'
    BY <1>o, <1>s DEF InDeletion
  <2> QED BY <2>1, <2>2, <2>3, <1>b
<1> QED BY <1>1, <1>2, <1>4, <1>5, <1>6 DEF FleetIInv

LEMMA DeletionKinds ==
    ASSUME FleetTypeOK, NEW o \in Operator
    PROVE  /\ deletion[o] \in Deletion /\ NoDeletion \in Deletion
           /\ NoDeletion.pc = "idle" /\ NoDeletion.of = {}
BY DEF FleetTypeOK, NoDeletion, Deletion

\* A deletion that goes on to another statement is about the same chargers.
LEMMA AdvanceIs ==
    ASSUME FleetTypeOK, NEW o \in Operator, NEW pc \in {"sessions", "rows", "live"},
           Advance(o, pc)
    PROVE  /\ deletion' \in [Operator -> Deletion]
           /\ deletion'[o].pc = pc /\ deletion'[o].of = deletion[o].of
           /\ deletion'[o].all = deletion[o].all
           /\ \A p \in Operator \ {o} : deletion'[p] = deletion[p]
<1> DEFINE d == [deletion[o] EXCEPT !.pc = pc]
<1>1. deletion[o] \in Deletion
  BY DEF FleetTypeOK
<1>2. d \in Deletion /\ d.pc = pc /\ d.of = deletion[o].of /\ d.all = deletion[o].all
  BY <1>1 DEF Deletion
<1>3. deletion' = [deletion EXCEPT ![o] = d]
  BY DEF Advance
<1> HIDE DEF d
<1> QED BY <1>2, <1>3 DEF FleetTypeOK

LEMMA DeleteCdrsStep ==
    ASSUME FleetIInv, NEW o \in Operator, DeleteCdrs(o) PROVE FleetIInv'
<1>t. FleetTypeOK /\ RefsSound /\ DeletionsSound /\ GoneSound /\ ShownSound /\ ~refused
  BY DEF FleetIInv
<1>b. /\ deletion[o].pc = "cdrs" /\ Advance(o, "sessions")
      /\ UNCHANGED <<points, plugs, shown, talk, gone, touched, halved, refused, words, deletes>>
  BY DEF DeleteCdrs
<1>a. /\ deletion' \in [Operator -> Deletion]
      /\ deletion'[o].pc = "sessions" /\ deletion'[o].of = deletion[o].of
      /\ deletion'[o].all = deletion[o].all
      /\ \A p \in Operator \ {o} : deletion'[p] = deletion[p]
  BY <1>t, <1>b, AdvanceIs
<1>v. \A v \in Visit16 :
        /\ stay'[v] \in Stay /\ stay'[v].of = stay[v].of
        /\ Live(v)' <=> Live(v)
        /\ stay'[v].state = "billed" => stay[v].state = "billed" /\ v \notin StaysOf(deletion[o])
  <2> TAKE v \in Visit16
  <2>1. stay[v] \in Stay
    BY <1>t DEF FleetTypeOK
  <2>2. CASE v \in StaysOf(deletion[o])
    <3>1. stay'[v] = [stay[v] EXCEPT !.state = "open"]
      BY <2>2 DEF DeleteCdrs
    <3>2. stay'[v] \in Stay /\ stay'[v].of = stay[v].of /\ stay'[v].state = "open"
      BY <2>1, <3>1 DEF Stay
    <3> QED BY <2>2, <3>2 DEF Live, StaysOf
  <2>3. CASE v \notin StaysOf(deletion[o])
    <3>1. stay'[v] = stay[v]
      BY <2>3 DEF DeleteCdrs
    <3> QED BY <2>1, <2>3, <3>1 DEF Live
  <2> QED BY <2>2, <2>3
<1>1. FleetTypeOK'
  <2>1. stay' \in [Visit16 -> Stay]
    BY <1>v DEF DeleteCdrs
  <2> QED BY <2>1, <1>t, <1>a, <1>b DEF FleetTypeOK
<1>2. RefsSound'
  BY <1>t, <1>b, <1>v DEF RefsSound
<1>3. DeletionsSound'
  <2>1. Shrinks
    BY <1>b, <1>v DEF Shrinks
  <2>2. DeletionOk(o)
    BY <1>t DEF DeletionsSound
  <2>3. DeletionOk(o)'
    <3>1. \A v \in Visit16 : stay'[v].state = "billed" => stay'[v].of \notin deletion[o].of
      BY <1>v DEF StaysOf
    <3> QED BY <3>1, <2>2, <1>a, <1>b DEF DeletionOk
  <2> QED BY <2>1, <2>3, <1>a, <1>t, OtherDeletions
<1>4. GoneSound' /\ ~refused'
  BY <1>t, <1>b DEF GoneSound
<1>5. ShownSound'
  BY <1>t, <1>a, <1>b, ShownStays
<1> QED BY <1>1, <1>2, <1>3, <1>4, <1>5 DEF FleetIInv

LEMMA DeleteSessionsStep ==
    ASSUME FleetIInv, NEW o \in Operator, DeleteSessions(o) PROVE FleetIInv'
<1>t. FleetTypeOK /\ RefsSound /\ DeletionsSound /\ GoneSound /\ ShownSound /\ ~refused
  BY DEF FleetIInv
<1>b. /\ deletion[o].pc = "sessions" /\ Advance(o, "rows")
      /\ UNCHANGED <<points, plugs, shown, talk, gone, touched, halved, refused, words, deletes>>
  BY DEF DeleteSessions
<1>a. /\ deletion' \in [Operator -> Deletion]
      /\ deletion'[o].pc = "rows" /\ deletion'[o].of = deletion[o].of
      /\ deletion'[o].all = deletion[o].all
      /\ \A p \in Operator \ {o} : deletion'[p] = deletion[p]
  BY <1>t, <1>b, AdvanceIs
<1>v. \A v \in Visit16 :
        /\ stay'[v] \in Stay
        /\ Live(v)' => v \notin StaysOf(deletion[o]) /\ stay'[v] = stay[v] /\ Live(v)
        /\ stay'[v].state = "billed" => stay[v].state = "billed"
  <2> TAKE v \in Visit16
  <2>1. stay[v] \in Stay
    BY <1>t DEF FleetTypeOK
  <2>2. CASE v \in StaysOf(deletion[o])
    <3>1. stay'[v] = [state |-> "deleted", of |-> AnyCharger]
      BY <2>2 DEF DeleteSessions
    <3>2. AnyCharger \in Station
      BY FleetAssumption DEF AnyCharger
    <3> QED BY <3>1, <3>2 DEF Live, Stay
  <2>3. CASE v \notin StaysOf(deletion[o])
    <3>1. stay'[v] = stay[v]
      BY <2>3 DEF DeleteSessions
    <3> QED BY <2>1, <2>3, <3>1 DEF Live
  <2> QED BY <2>2, <2>3
<1>1. FleetTypeOK'
  <2>1. stay' \in [Visit16 -> Stay]
    BY <1>v DEF DeleteSessions
  <2> QED BY <2>1, <1>t, <1>a, <1>b DEF FleetTypeOK
<1>2. RefsSound'
  BY <1>t, <1>b, <1>v DEF RefsSound
<1>3. DeletionsSound'
  <2>1. Shrinks
    BY <1>b, <1>v DEF Shrinks
  <2>2. DeletionOk(o)
    BY <1>t DEF DeletionsSound
  <2>3. DeletionOk(o)'
    <3>1. \A v \in Visit16 : Live(v)' => stay'[v].of \notin deletion[o].of
      BY <1>v DEF StaysOf, Live
    <3> QED BY <3>1, <2>2, <1>a, <1>b DEF DeletionOk
  <2> QED BY <2>1, <2>3, <1>a, <1>t, OtherDeletions
<1>4. GoneSound' /\ ~refused'
  BY <1>t, <1>b DEF GoneSound
<1>5. ShownSound'
  BY <1>t, <1>a, <1>b, ShownStays
<1> QED BY <1>1, <1>2, <1>3, <1>4, <1>5 DEF FleetIInv

LEMMA DeleteRowsStep ==
    ASSUME FleetIInv, NEW o \in Operator, DeleteRows(o) PROVE FleetIInv'
<1> DEFINE T == RowsOf(deletion[o])
<1>t. FleetTypeOK /\ RefsSound /\ DeletionsSound /\ GoneSound /\ ShownSound /\ ~refused
  BY DEF FleetIInv
<1>b. /\ deletion[o].pc = "rows" /\ Advance(o, "live")
      /\ points' = [all |-> points.all \ T, simulated |-> points.simulated \ T]
      /\ plugs' = plugs \ T
      /\ UNCHANGED <<stay, shown, talk, gone, touched, halved, refused, words, deletes>>
  BY DEF DeleteRows
<1>a. /\ deletion' \in [Operator -> Deletion]
      /\ deletion'[o].pc = "live" /\ deletion'[o].of = deletion[o].of
      /\ deletion'[o].all = deletion[o].all
      /\ \A p \in Operator \ {o} : deletion'[p] = deletion[p]
  BY <1>t, <1>b, AdvanceIs
<1>n. \A v \in Visit16 : Live(v) => stay[v].of \notin T
  <2>1. deletion[o] \in Deletion
    BY <1>t DEF FleetTypeOK
  <2>2. [deletion[o] EXCEPT !.of = T].of = T /\ [deletion[o] EXCEPT !.of = T].all = deletion[o].all
    BY <2>1 DEF Deletion
  <2> QED BY <2>2 DEF DeleteRows, StaysOf, Live
<1>2. DeletionOk(o)
  BY <1>t DEF DeletionsSound
<1>3. points.all \cap deletion[o].of \subseteq T /\ T \subseteq deletion[o].of \cup touched
  BY <1>2, <1>b DEF RowsOf, DeletionOk
<1> HIDE DEF T
<1>4. FleetTypeOK'
  BY <1>t, <1>a, <1>b DEF FleetTypeOK
<1>5. RefsSound'
  BY <1>t, <1>b, <1>n DEF RefsSound, Live
<1>6. DeletionsSound'
  <2>1. Shrinks
    BY <1>b DEF Shrinks, Live
  <2>2. points'.all \cap deletion[o].of = {}
    BY <1>3, <1>b
  <2>3. DeletionOk(o)'
    BY <2>2, <1>2, <1>a, <1>b DEF DeletionOk, Live
  <2> QED BY <2>1, <2>3, <1>a, <1>t, OtherDeletions
<1>7. GoneSound' /\ ~refused'
  BY <1>t, <1>b DEF GoneSound
<1>8. ShownSound'
  BY <1>t, <1>a, <1>b, <1>3, ShownStays
<1> QED BY <1>4, <1>5, <1>6, <1>7, <1>8 DEF FleetIInv

\* A deletion that ends half-way leaves its chargers on record.
LEMMA EndsHalfWay ==
    ASSUME FleetIInv, NEW o \in Operator,
           halved' = halved \cup deletion[o].of, refused' = refused,
           deletion' = [deletion EXCEPT ![o] = NoDeletion],
           UNCHANGED <<points, plugs, stay, shown, talk, gone, touched, words, deletes>>
    PROVE  FleetIInv'
<1>t. FleetTypeOK /\ RefsSound /\ DeletionsSound /\ GoneSound /\ ShownSound /\ ~refused
  BY DEF FleetIInv
<1>k. /\ deletion[o] \in Deletion /\ NoDeletion \in Deletion
      /\ NoDeletion.pc = "idle" /\ NoDeletion.of = {}
  BY <1>t, DeletionKinds
<1>1. FleetTypeOK'
  BY <1>t, <1>k DEF FleetTypeOK, Deletion
<1>2. RefsSound' /\ GoneSound' /\ ~refused'
  BY <1>t DEF RefsSound, Live, GoneSound
<1>o. deletion'[o] = NoDeletion /\ \A p \in Operator \ {o} : deletion'[p] = deletion[p]
  BY <1>t DEF FleetTypeOK
<1>3. DeletionsSound'
  <2>1. Shrinks
    BY DEF Shrinks, Live
  <2>2. DeletionOk(o)'
    BY <1>k, <1>o DEF DeletionOk
  <2> QED BY <2>1, <2>2, <1>t, <1>o, OtherDeletions
<1>4. ShownSound'
  BY <1>t, <1>k, <1>o, ShownStays
<1> QED BY <1>1, <1>2, <1>3, <1>4 DEF FleetIInv

LEMMA SessionsRefusedStep ==
    ASSUME FleetIInv, NEW o \in Operator, SessionsRefused(o) PROVE FleetIInv'
<1> DEFINE billedOnes == {v \in StaysOf(deletion[o]) : stay[v].state = "billed"}
<1>t. FleetTypeOK /\ RefsSound /\ DeletionOk(o)
  BY DEF FleetIInv, DeletionsSound
<1>1. \A v \in billedOnes : stay[v].of \in touched
  <2> TAKE v \in billedOnes
  <2>1. v \in Visit16 /\ Live(v) /\ (deletion[o].all \/ stay[v].of \in deletion[o].of)
    BY DEF StaysOf, Live
  <2> QED BY <2>1, <1>t DEF SessionsRefused, DeletionOk, RefsSound
<1>2. {stay[v].of : v \in billedOnes} \cap touched # {}
  BY <1>1 DEF SessionsRefused
<1>3. Refused(o, {stay[v].of : v \in billedOnes}) /\ refused \in BOOLEAN
  BY <1>t DEF SessionsRefused, FleetTypeOK
<1>4. refused' = refused
  BY <1>2, <1>3 DEF Refused
<1> HIDE DEF billedOnes
<1> QED BY <1>3, <1>4, EndsHalfWay DEF Refused

LEMMA RowsRefusedStep ==
    ASSUME FleetIInv, NEW o \in Operator, RowsRefused(o) PROVE FleetIInv'
<1> DEFINE leftOnes == StaysOf(deletion[o])
<1>t. FleetTypeOK /\ RefsSound /\ DeletionOk(o)
  BY DEF FleetIInv, DeletionsSound
<1>1. \A v \in leftOnes : stay[v].of \in touched
  <2> TAKE v \in leftOnes
  <2>1. v \in Visit16 /\ Live(v) /\ (deletion[o].all \/ stay[v].of \in deletion[o].of)
    BY DEF StaysOf, Live
  <2> QED BY <2>1, <1>t DEF RowsRefused, DeletionOk, RefsSound
<1>2. {stay[v].of : v \in leftOnes} \cap touched # {}
  BY <1>1 DEF RowsRefused
<1>3. Refused(o, {stay[v].of : v \in leftOnes}) /\ refused \in BOOLEAN
  BY <1>t DEF RowsRefused, FleetTypeOK
<1>4. refused' = refused
  BY <1>2, <1>3 DEF Refused
<1> HIDE DEF leftOnes
<1> QED BY <1>3, <1>4, EndsHalfWay DEF Refused

LEMMA DropHashStep ==
    ASSUME FleetIInv, NEW o \in Operator, DropHash(o) PROVE FleetIInv'
<1>t. FleetTypeOK /\ RefsSound /\ DeletionsSound /\ GoneSound /\ ShownSound /\ ~refused
  BY DEF FleetIInv
<1>d. DeletionOk(o) /\ deletion[o].pc = "live"
  BY <1>t DEF DeletionsSound, DropHash
<1>k. /\ deletion[o] \in Deletion /\ NoDeletion \in Deletion
      /\ NoDeletion.pc = "idle" /\ NoDeletion.of = {}
  BY <1>t, DeletionKinds
<1>u. UNCHANGED <<points, plugs, stay, talk, touched, halved, refused, words, deletes>>
  BY DEF DropHash
<1>r. RefsSound' /\ ~refused'
  BY <1>t, <1>u DEF RefsSound, Live
<1>s. Shrinks
  BY <1>u DEF Shrinks, Live
<1>1. ASSUME NEW c \in deletion[o].of, shown' = shown \ {c}, gone' = gone \cup {c},
             deletion' = [deletion EXCEPT ![o].of = deletion[o].of \ {c}]
      PROVE  FleetIInv'
  <2> DEFINE d == [deletion[o] EXCEPT !.of = deletion[o].of \ {c}]
  <2>1. d \in Deletion /\ d.pc = "live" /\ d.of = deletion[o].of \ {c} /\ d.all = deletion[o].all
    BY <1>k, <1>d DEF Deletion
  <2>2. deletion' = [deletion EXCEPT ![o] = d]
    BY <1>1
  <2> HIDE DEF d
  <2>3. deletion'[o] = d /\ \A p \in Operator \ {o} : deletion'[p] = deletion[p]
    BY <2>2, <1>t DEF FleetTypeOK
  <2>4. c \in Station
    BY <1>k, <1>1 DEF Deletion
  <2>5. FleetTypeOK'
    BY <1>t, <1>u, <1>1, <2>1, <2>2, <2>4 DEF FleetTypeOK
  <2>6. DeletionOk(o)'
    BY <1>d, <1>u, <2>1, <2>3 DEF DeletionOk, Live
  <2>7. DeletionsSound'
    BY <2>6, <2>3, <1>s, <1>t, OtherDeletions
  <2>8. GoneSound'
    <3>1. c \in points.all => c \in touched
      BY <1>d, <1>1 DEF DeletionOk
    <3> QED BY <3>1, <1>t, <1>u, <1>1 DEF GoneSound
  <2>9. ShownSound'
    BY <1>t, <1>u, <1>1, <2>1, <2>3, ShownStays
  <2> QED BY <1>r, <2>5, <2>7, <2>8, <2>9 DEF FleetIInv
<1>2. ASSUME deletion[o].of = {}, UNCHANGED <<shown, gone>>,
             deletion' = [deletion EXCEPT ![o] = NoDeletion]
      PROVE  FleetIInv'
  <2>1. deletion'[o] = NoDeletion /\ \A p \in Operator \ {o} : deletion'[p] = deletion[p]
    BY <1>2, <1>t DEF FleetTypeOK
  <2>2. FleetTypeOK'
    BY <1>t, <1>u, <1>2, <1>k DEF FleetTypeOK
  <2>3. DeletionOk(o)'
    BY <1>k, <2>1 DEF DeletionOk
  <2>4. DeletionsSound'
    BY <2>3, <2>1, <1>s, <1>t, OtherDeletions
  <2>5. GoneSound'
    BY <1>t, <1>u, <1>2 DEF GoneSound
  <2>6. ShownSound'
    BY <1>t, <1>u, <1>2, <2>1, ShownStays
  <2> QED BY <1>r, <2>2, <2>4, <2>5, <2>6 DEF FleetIInv
<1> QED BY <1>1, <1>2 DEF DropHash

LEMMA FleetStep == FleetIInv /\ [FleetNext]_fleetVars => FleetIInv'
<1> SUFFICES ASSUME FleetIInv, [FleetNext]_fleetVars PROVE FleetIInv'
  OBVIOUS
<1>1. CASE SpeaksNext
  BY <1>1, SpeaksStep, SpeaksKeeps DEF FleetIInv
<1>2. ASSUME NEW o \in Operator, NEW c \in Station, DeleteCharger(o, c) PROVE FleetIInv'
  BY <1>2, BeginStep DEF DeleteCharger
<1>3. ASSUME NEW o \in Operator, NEW simulated \in BOOLEAN, BulkDelete(o, simulated)
      PROVE  FleetIInv'
  <2>1. points.all \subseteq Station
    BY DEF FleetIInv, FleetTypeOK
  <2> QED BY <1>3, <2>1, BeginStep DEF BulkDelete
<1>4. ASSUME NEW o \in Operator, DeletionCut(o) PROVE FleetIInv'
  BY <1>4, EndsHalfWay DEF DeletionCut
<1>5. CASE UNCHANGED fleetVars
  <2>1. Speaks /\ FleetTypeOK'
    BY <1>5 DEF fleetVars, Speaks, FleetIInv, FleetTypeOK
  <2> QED BY <2>1, SpeaksKeeps DEF FleetIInv
<1> QED BY <1>1, <1>2, <1>3, <1>4, <1>5, DeleteCdrsStep, DeleteSessionsStep, DeleteRowsStep,
           SessionsRefusedStep, RowsRefusedStep, DropHashStep DEF FleetNext, SpeaksNext

LEMMA FleetInvariance == FleetSpec => []FleetIInv
<1>1. FleetIInv /\ [FleetNext]_fleetVars => FleetIInv'
  BY FleetStep
<1> QED BY FleetInitIInv, <1>1, PTL DEF FleetSpec

\* A deletion answered as done left nothing of a charger that has been silent since,
\* the live state shows no charger the database does not have but for those on
\* record, and the database never refuses to delete a silent charger, for any number
\* of chargers and of deletions at a time (charger_commands.py:250-300).
THEOREM FleetIsSound == FleetSpec => []FleetSound
<1>1. FleetIInv => FleetSound
  BY DEF FleetIInv, RefsSound, GoneSound, ShownSound, FleetSound, Live
<1> QED BY FleetInvariance, <1>1, PTL

-----------------------------------------------------------------------------
(* The inductive invariant of Drivers.                                     *)

\* A form that is to link sessions is of an account that has had the number.
FormsSound ==
    \A r \in Form : form[r].pc = "link" =>
        form[r].id \in Account /\ form[r].phone \in had[form[r].id]

\* A session that was not opened has no owner.
ClosedSound == \A s \in Ride : ~ride[s].open => ride[s].owner = NoAccount

DriversIInv ==
    /\ DriverTypeOK /\ FormsSound /\ ClosedSound /\ RidesOwned
    /\ "public" \in tiers

LEMMA DriverKinds ==
    /\ AnyMail \in Mail /\ NoForm \in FormStep /\ NoForm.pc = "idle"
    /\ \A t \in Text : t # NoPhone /\ Strip(t) \in Text
    /\ Strip(NoPhone) = NoPhone
<1>1. AnyMail \in Mail
  BY DriverAssumption DEF AnyMail
<1>2. NoForm \in FormStep /\ NoForm.pc = "idle"
  BY <1>1 DEF NoForm, FormStep
<1>3. \A t \in Text : t # NoPhone /\ Strip(t) \in Text
  BY DEF Text, NoPhone, Strip
<1> QED BY <1>1, <1>2, <1>3 DEF Strip

LEMMA DriversInitIInv == DriverInit => DriversIInv
<1> SUFFICES ASSUME DriverInit PROVE DriversIInv
  OBVIOUS
<1> USE DriverAssumption, DriverKinds DEF DriverInit
<1>1. DriverTypeOK
  BY DEF DriverTypeOK, Row0
<1>2. FormsSound /\ ClosedSound /\ RidesOwned
  BY DEF FormsSound, ClosedSound, RidesOwned, Here
<1> QED BY <1>1, <1>2 DEF DriversIInv

\* The parts of RidesOwned.
OwnersKept ==
    \A s \in Ride :
        /\ ride[s].owner = first[s]
        /\ ride[s].owner # NoAccount => ride[s].phone \in had[ride[s].owner]

AccountsSound ==
    /\ \A a, b \in Here : a # b => account[a].mail # account[b].mail
    /\ \A a \in Here : account[a].tier \in tiers

LEMMA RidesOwnedIs == RidesOwned <=> OwnersKept /\ AccountsSound
BY DEF RidesOwned, OwnersKept, AccountsSound

\* Numbers are added to an account's, never taken away.
HadGrows == \A a \in Account : had[a] \subseteq had'[a]

\* A step of form r that leaves the sessions alone.
LEMMA RidesRest ==
    ASSUME DriversIInv, DriverTypeOK', HadGrows, UNCHANGED <<ride, first>>, NEW r \in Form,
           \A q \in Form \ {r} : form'[q] = form[q],
           form'[r].pc = "link" =>
             form'[r].id \in Account /\ form'[r].phone \in had'[form'[r].id]
    PROVE  FormsSound' /\ ClosedSound' /\ OwnersKept'
<1> USE DEF DriversIInv, HadGrows
<1>1. FormsSound'
  BY DEF FormsSound
<1>2. ClosedSound'
  BY DEF ClosedSound
<1>3. OwnersKept'
  <2> SUFFICES ASSUME NEW s \in Ride
               PROVE  /\ ride[s].owner = first[s]
                      /\ ride[s].owner # NoAccount => ride[s].phone \in had'[ride[s].owner]
    BY DEF OwnersKept
  <2>1. ride[s].owner \in Account \cup {NoAccount}
    BY DEF DriverTypeOK
  <2> QED BY <2>1 DEF RidesOwned
<1> QED BY <1>1, <1>2, <1>3

\* A form that is done.
LEMMA FinishedIs ==
    ASSUME DriverTypeOK, NEW r \in Form, Finished(r)
    PROVE  /\ form' \in [Form -> FormStep]
           /\ form'[r].pc = "idle" /\ \A q \in Form \ {r} : form'[q] = form[q]
BY DriverKinds DEF DriverTypeOK, Finished

LEMMA RegisterStep ==
    ASSUME DriversIInv, NEW r \in Form, NEW mail \in Mail, NEW phone \in Text \cup {NoPhone},
           Register(r, mail, phone)
    PROVE  DriversIInv'
<1> DEFINE k == [pc |-> "insert", id |-> NoAccount, mail |-> mail, phone |-> phone]
<1>1. k \in FormStep /\ k.pc = "insert"
  BY DEF FormStep
<1>2. form' = [form EXCEPT ![r] = k] /\ UNCHANGED <<account, tiers, ride, first, had>>
  BY DEF Register
<1> HIDE DEF k
<1>3. DriverTypeOK'
  BY <1>1, <1>2 DEF DriversIInv, DriverTypeOK, Register, NewForm
<1>4. form'[r] = k /\ \A q \in Form \ {r} : form'[q] = form[q]
  BY <1>2 DEF DriversIInv, DriverTypeOK
<1>5. FormsSound' /\ ClosedSound' /\ OwnersKept'
  BY <1>1, <1>2, <1>3, <1>4, RidesRest DEF HadGrows
<1>6. AccountsSound' /\ "public" \in tiers'
  BY <1>2, RidesOwnedIs DEF DriversIInv, AccountsSound, Here
<1> QED BY <1>3, <1>5, <1>6, RidesOwnedIs DEF DriversIInv, RidesOwned, OwnersKept, AccountsSound

LEMMA InsertStep ==
    ASSUME DriversIInv, NEW r \in Form, NEW a \in Account, InsertAccount(r, a)
    PROVE  DriversIInv'
<1> DEFINE k == form[r]
           row == [here |-> TRUE, mail |-> k.mail, phone |-> k.phone, tier |-> "public"]
           link == [k EXCEPT !.pc = "link", !.id = a, !.phone = Strip(k.phone)]
<1>t. DriverTypeOK /\ RidesOwned
  BY DEF DriversIInv
<1>1. k \in FormStep
  BY <1>t DEF DriverTypeOK
<1>2. row \in Row0 /\ row.mail = k.mail /\ row.tier = "public" /\ row.here
  BY <1>1, DriverAssumption DEF FormStep, Row0
<1>3. k.phone # NoPhone =>
        /\ link \in FormStep /\ link.pc = "link" /\ link.id = a
        /\ link.phone = Strip(k.phone) /\ Strip(k.phone) \in Text
  <2> SUFFICES ASSUME k.phone # NoPhone
               PROVE  /\ link \in FormStep /\ link.pc = "link" /\ link.id = a
                      /\ link.phone = Strip(k.phone) /\ Strip(k.phone) \in Text
    OBVIOUS
  <2>1. Strip(k.phone) \in Text
    BY <1>1, DriverKinds DEF FormStep
  <2> QED BY <1>1, <2>1 DEF FormStep
<1>4. /\ ~Taken(k.mail) /\ a \notin Here
      /\ account' = [account EXCEPT ![a] = row]
      /\ UNCHANGED <<tiers, ride, first, forms>>
  BY DEF InsertAccount
<1>5. \/ k.phone = NoPhone /\ Finished(r) /\ had' = had
      \/ /\ k.phone # NoPhone /\ form' = [form EXCEPT ![r] = link]
         /\ had' = [had EXCEPT ![a] = had[a] \cup {Strip(k.phone)}]
  BY DEF InsertAccount
<1> HIDE DEF row, link
<1>6. /\ DriverTypeOK' /\ HadGrows
      /\ \A q \in Form \ {r} : form'[q] = form[q]
      /\ form'[r].pc = "link" => form'[r].id = a /\ form'[r].phone \in had'[a]
  <2>1. CASE k.phone = NoPhone /\ Finished(r) /\ had' = had
    <3>1. /\ form' \in [Form -> FormStep]
          /\ form'[r].pc = "idle" /\ \A q \in Form \ {r} : form'[q] = form[q]
      BY <2>1, <1>t, FinishedIs
    <3> QED BY <2>1, <3>1, <1>t, <1>2, <1>4 DEF DriverTypeOK, HadGrows
  <2>2. CASE /\ k.phone # NoPhone /\ form' = [form EXCEPT ![r] = link]
             /\ had' = [had EXCEPT ![a] = had[a] \cup {Strip(k.phone)}]
    BY <2>2, <1>t, <1>2, <1>3, <1>4 DEF DriverTypeOK, HadGrows
  <2> QED BY <1>5, <2>1, <2>2
<1>7. FormsSound' /\ ClosedSound' /\ OwnersKept'
  BY <1>4, <1>6, RidesRest
<1>8. AccountsSound'
  <2>1. account'[a] = row /\ \A b \in Account \ {a} : account'[b] = account[b]
    BY <1>4, <1>t DEF DriverTypeOK
  <2>2. \A b \in Account : b \in Here' <=> b \in Here \/ b = a
    BY <2>1, <1>2 DEF Here
  <2>3. \A b \in Here : account[b].mail # k.mail
    BY <1>4 DEF Taken
  <2>4. AccountsSound /\ tiers' = tiers
    BY <1>t, <1>4, RidesOwnedIs
  <2>5. \A b, c \in Here' : b # c => account'[b].mail # account'[c].mail
    BY <2>1, <2>2, <2>3, <2>4, <1>2 DEF AccountsSound, Here
  <2>6. "public" \in tiers
    BY DEF DriversIInv
  <2>7. \A b \in Here' : account'[b].tier \in tiers'
    BY <2>1, <2>2, <2>4, <2>6, <1>2 DEF AccountsSound, Here
  <2> QED BY <2>5, <2>7 DEF AccountsSound
<1>9. "public" \in tiers'
  BY <1>4 DEF DriversIInv
<1> QED BY <1>6, <1>7, <1>8, <1>9 DEF DriversIInv, RidesOwned, OwnersKept, AccountsSound

LEMMA SetPhoneStep ==
    ASSUME DriversIInv, NEW r \in Form, NEW a \in Account, NEW phone \in Text \cup {NoPhone},
           SetPhone(r, a, phone)
    PROVE  DriversIInv'
<1> DEFINE row == [account[a] EXCEPT !.phone = Strip(phone)]
           link == [NoForm EXCEPT !.pc = "link", !.id = a, !.phone = Strip(phone)]
<1>t. DriverTypeOK /\ RidesOwned
  BY DEF DriversIInv
<1>1. Strip(phone) \in Text \cup {NoPhone} /\ (phone # NoPhone => Strip(phone) \in Text)
  BY DriverKinds
<1>2. /\ row \in Row0 /\ row.mail = account[a].mail /\ row.tier = account[a].tier
      /\ row.here = account[a].here
  <2>1. account[a] \in Row0
    BY <1>t DEF DriverTypeOK
  <2> QED BY <2>1, <1>1 DEF Row0
<1>3. link \in FormStep /\ link.pc = "link" /\ link.id = a /\ link.phone = Strip(phone)
  <2>1. NoForm \in FormStep
    BY DriverKinds
  <2> QED BY <2>1, <1>1 DEF FormStep
<1>4. /\ forms' = forms + 1 /\ account' = [account EXCEPT ![a] = row]
      /\ UNCHANGED <<tiers, ride, first>>
  BY DEF SetPhone, NewForm
<1>5. \/ phone = NoPhone /\ form' = form /\ had' = had
      \/ /\ phone # NoPhone /\ form' = [form EXCEPT ![r] = link]
         /\ had' = [had EXCEPT ![a] = had[a] \cup {Strip(phone)}]
  BY DEF SetPhone
<1> HIDE DEF row, link
<1>p. form[r].pc # "link"
  BY DEF SetPhone, NewForm
<1>6. /\ DriverTypeOK' /\ HadGrows
      /\ \A q \in Form \ {r} : form'[q] = form[q]
      /\ form'[r].pc = "link" => form'[r].id = a /\ form'[r].phone \in had'[a]
  <2>1. CASE phone = NoPhone /\ form' = form /\ had' = had
    BY <2>1, <1>p, <1>t, <1>2, <1>4 DEF DriverTypeOK, HadGrows
  <2>2. CASE /\ phone # NoPhone /\ form' = [form EXCEPT ![r] = link]
             /\ had' = [had EXCEPT ![a] = had[a] \cup {Strip(phone)}]
    BY <2>2, <1>t, <1>1, <1>2, <1>3, <1>4 DEF DriverTypeOK, HadGrows
  <2> QED BY <1>5, <2>1, <2>2
<1>7. FormsSound' /\ ClosedSound' /\ OwnersKept'
  BY <1>4, <1>6, RidesRest
<1>8. AccountsSound'
  <2>1. \A b \in Account : /\ account'[b].mail = account[b].mail
                           /\ account'[b].tier = account[b].tier
                           /\ account'[b].here = account[b].here
    BY <1>4, <1>2, <1>t DEF DriverTypeOK
  <2>2. Here' = Here /\ tiers' = tiers /\ AccountsSound
    BY <2>1, <1>4, <1>t, RidesOwnedIs DEF Here
  <2> QED BY <2>1, <2>2 DEF AccountsSound, Here
<1>9. "public" \in tiers'
  BY <1>4 DEF DriversIInv
<1> QED BY <1>6, <1>7, <1>8, <1>9 DEF DriversIInv, RidesOwned, OwnersKept, AccountsSound

\* Nothing but the step of a form.
LEMMA FinishedStep ==
    ASSUME DriversIInv, NEW r \in Form, Finished(r),
           UNCHANGED <<account, tiers, ride, first, had, forms>>
    PROVE  DriversIInv'
<1>t. DriverTypeOK /\ RidesOwned
  BY DEF DriversIInv
<1>1. /\ form' \in [Form -> FormStep]
      /\ form'[r].pc = "idle" /\ \A q \in Form \ {r} : form'[q] = form[q]
  BY <1>t, FinishedIs
<1>2. DriverTypeOK'
  BY <1>1, <1>t DEF DriverTypeOK
<1>3. FormsSound' /\ ClosedSound' /\ OwnersKept'
  BY <1>1, <1>2, RidesRest DEF HadGrows
<1>4. AccountsSound' /\ "public" \in tiers'
  BY <1>t DEF RidesOwned, AccountsSound, Here, DriversIInv
<1> QED BY <1>2, <1>3, <1>4 DEF DriversIInv, RidesOwned, OwnersKept, AccountsSound

LEMMA LinkStep ==
    ASSUME DriversIInv, NEW r \in Form, LinkSessions(r) PROVE DriversIInv'
<1> DEFINE k == form[r]
           S == {s \in WithPhone(k.phone) : ride[s].owner = NoAccount}
<1>t. DriverTypeOK /\ RidesOwned /\ FormsSound /\ ClosedSound
  BY DEF DriversIInv
<1>1. /\ k.pc = "link" /\ Finished(r)
      /\ ride' = [s \in Ride |-> IF s \in S THEN [ride[s] EXCEPT !.owner = k.id] ELSE ride[s]]
      /\ first' = [s \in Ride |-> IF s \in S /\ first[s] = NoAccount THEN k.id ELSE first[s]]
      /\ UNCHANGED <<account, tiers, had, forms>>
  BY DEF LinkSessions, Own
<1>2. k.id \in Account /\ k.phone \in had[k.id]
  BY <1>t, <1>1 DEF FormsSound
<1>3. \A s \in S : s \in Ride /\ ride[s].open /\ ride[s].phone = k.phone
                   /\ ride[s].owner = NoAccount
  BY DEF WithPhone
<1> HIDE DEF S, k
<1>4. /\ form' \in [Form -> FormStep]
      /\ form'[r].pc = "idle" /\ \A q \in Form \ {r} : form'[q] = form[q]
  BY <1>t, <1>1, FinishedIs
<1>5. \A s \in Ride :
        /\ ride'[s] \in [open : BOOLEAN, phone : Text \cup {NoPhone},
                         owner : Account \cup {NoAccount}]
        /\ ride'[s].open = ride[s].open /\ ride'[s].phone = ride[s].phone
        /\ ride'[s].owner = IF s \in S THEN k.id ELSE ride[s].owner
  BY <1>1, <1>2, <1>t DEF DriverTypeOK
<1>6. \A s \in Ride : first'[s] = IF s \in S /\ first[s] = NoAccount THEN k.id ELSE first[s]
  BY <1>1
<1>7. DriverTypeOK'
  <2>1. ride' \in [Ride -> [open : BOOLEAN, phone : Text \cup {NoPhone},
                            owner : Account \cup {NoAccount}]]
    BY <1>1, <1>5
  <2>2. first' \in [Ride -> Account \cup {NoAccount}]
    BY <1>1, <1>2, <1>t DEF DriverTypeOK
  <2> QED BY <2>1, <2>2, <1>1, <1>4, <1>t DEF DriverTypeOK
<1>8. FormsSound'
  BY <1>1, <1>4, <1>t DEF FormsSound
<1>9. ClosedSound'
  BY <1>3, <1>5, <1>t DEF ClosedSound
<1>10. OwnersKept'
  <2> SUFFICES ASSUME NEW s \in Ride
               PROVE  /\ ride'[s].owner = first'[s]
                      /\ ride'[s].owner # NoAccount => ride'[s].phone \in had[ride'[s].owner]
    BY <1>1 DEF OwnersKept
  <2>1. /\ ride[s].owner = first[s]
        /\ ride[s].owner # NoAccount => ride[s].phone \in had[ride[s].owner]
    BY <1>t DEF RidesOwned
  <2> QED BY <2>1, <1>2, <1>3, <1>5, <1>6
<1>11. AccountsSound' /\ "public" \in tiers'
  BY <1>1, <1>t DEF RidesOwned, AccountsSound, Here, DriversIInv
<1> QED BY <1>7, <1>8, <1>9, <1>10, <1>11 DEF DriversIInv, RidesOwned, OwnersKept, AccountsSound

LEMMA OpenRideStep ==
    ASSUME DriversIInv, NEW s \in Ride, NEW phone \in Text \cup {NoPhone}, OpenRide(s, phone)
    PROVE  DriversIInv'
<1> DEFINE k == [open |-> TRUE, phone |-> phone, owner |-> NoAccount]
<1>t. DriverTypeOK /\ RidesOwned /\ FormsSound /\ ClosedSound
  BY DEF DriversIInv
<1>1. /\ ~ride[s].open /\ ride' = [ride EXCEPT ![s] = k]
      /\ UNCHANGED <<account, tiers, form, first, had, forms>>
  BY DEF OpenRide
<1>2. k \in [open : BOOLEAN, phone : Text \cup {NoPhone}, owner : Account \cup {NoAccount}]
  OBVIOUS
<1>3. k.open /\ k.owner = NoAccount /\ ride[s].owner = NoAccount
  BY <1>1, <1>t DEF ClosedSound
<1> HIDE DEF k
<1>4. DriverTypeOK'
  BY <1>1, <1>2, <1>t DEF DriverTypeOK
<1>5. ride'[s] = k /\ \A q \in Ride \ {s} : ride'[q] = ride[q]
  BY <1>1, <1>t DEF DriverTypeOK
<1>6. ClosedSound' /\ OwnersKept'
  BY <1>1, <1>3, <1>5, <1>t DEF ClosedSound, OwnersKept, RidesOwned
<1>7. FormsSound' /\ AccountsSound' /\ "public" \in tiers'
  BY <1>1, <1>t DEF FormsSound, RidesOwned, AccountsSound, Here, DriversIInv
<1> QED BY <1>4, <1>6, <1>7 DEF DriversIInv, RidesOwned, OwnersKept, AccountsSound

LEMMA TierSteps ==
    ASSUME DriversIInv, NEW t \in Tier,
           CreateTier(t) \/ \E a \in Account : SetTier(a, t)
    PROVE  DriversIInv'
<1>t. DriverTypeOK /\ RidesOwned /\ FormsSound /\ ClosedSound /\ "public" \in tiers
  BY DEF DriversIInv
<1>u. UNCHANGED <<ride, form, first, had, forms>>
  BY DEF CreateTier, SetTier
<1>f. FormsSound' /\ ClosedSound' /\ OwnersKept'
  BY <1>t, <1>u DEF FormsSound, ClosedSound, OwnersKept, RidesOwned
<1>1. CASE CreateTier(t)
  <2>1. DriverTypeOK'
    BY <1>1, <1>t, <1>u DEF CreateTier, DriverTypeOK
  <2>2. AccountsSound' /\ "public" \in tiers'
    BY <1>1, <1>t DEF CreateTier, RidesOwned, AccountsSound, Here
  <2> QED BY <2>1, <2>2, <1>f DEF DriversIInv, RidesOwned, OwnersKept, AccountsSound
<1>2. ASSUME NEW a \in Account, SetTier(a, t) PROVE DriversIInv'
  <2> DEFINE row == [account[a] EXCEPT !.tier = t]
  <2>1. /\ row \in Row0 /\ row.mail = account[a].mail /\ row.tier = t
        /\ row.here = account[a].here
    <3>1. account[a] \in Row0
      BY <1>t DEF DriverTypeOK
    <3> QED BY <3>1 DEF Row0
  <2>2. account' = [account EXCEPT ![a] = row] /\ tiers' = tiers /\ t \in tiers
    BY <1>2 DEF SetTier
  <2> HIDE DEF row
  <2>3. DriverTypeOK'
    BY <2>1, <2>2, <1>t, <1>u DEF DriverTypeOK
  <2>4. \A b \in Account : /\ account'[b].mail = account[b].mail
                           /\ account'[b].tier \in {account[b].tier, t}
                           /\ account'[b].here = account[b].here
    BY <2>1, <2>2, <1>t DEF DriverTypeOK
  <2>5. Here' = Here
    BY <2>4 DEF Here
  <2>6. AccountsSound' /\ "public" \in tiers'
    BY <2>2, <2>4, <2>5, <1>t DEF RidesOwned, AccountsSound, Here
  <2> QED BY <2>3, <2>6, <1>f DEF DriversIInv, RidesOwned, OwnersKept, AccountsSound
<1> QED BY <1>1, <1>2

LEMMA DriversStep == DriversIInv /\ [DriverNext]_driverVars => DriversIInv'
<1> SUFFICES ASSUME DriversIInv, [DriverNext]_driverVars PROVE DriversIInv'
  OBVIOUS
<1>1. ASSUME NEW r \in Form, InsertRefused(r) \/ FormCut(r) PROVE DriversIInv'
  BY <1>1, FinishedStep DEF InsertRefused, FormCut
<1>2. CASE UNCHANGED driverVars
  BY <1>2 DEF driverVars, DriversIInv, DriverTypeOK, FormsSound, ClosedSound, RidesOwned, Here
<1> QED BY <1>1, <1>2, RegisterStep, SetPhoneStep, InsertStep, LinkStep, OpenRideStep, TierSteps
    DEF DriverNext

LEMMA DriversInvariance == DriverSpec => []DriversIInv
<1>1. DriversIInv /\ [DriverNext]_driverVars => DriversIInv'
  BY DriversStep
<1> QED BY DriversInitIInv, <1>1, PTL DEF DriverSpec

\* However registrations and changes of number interleave and fail half-way, a session
\* keeps its first owner, who has had its number, and no two accounts share an
\* email (accounts.py:86-126 and 210-262).
THEOREM RidesKeepOwners == DriverSpec => []RidesOwned
<1>1. DriversIInv => RidesOwned
  BY DEF DriversIInv
<1> QED BY DriversInvariance, <1>1, PTL

-----------------------------------------------------------------------------
(* The inductive invariant of StaleCloser.                                 *)

\* A session the scan has on its lists or is closing, and those it has closed.
OnScan(c) == c \in scan.todo \/ c \in scan.marked \/ c = scan.at

\* A row is listed, or was updated, but not both, and only during a scan.
ScanSound ==
    /\ scan.pc = "idle" => scan = NoScan
    /\ scan.todo \cap scan.marked = {} /\ scan.at \notin scan.todo

\* Before its hash is written nothing else happens to a session.
OpeningSound ==
    \A c \in Charge :
        /\ charge[c].status = "none" =>
             /\ charge[c].meter = "fresh" /\ reading[c] = "idle" /\ stopping[c] = "idle"
             /\ c \notin opening \cup ended \cup billed /\ ~OnScan(c)
        /\ c \in opening => Active(c) /\ charge[c].meter = "fresh" /\ reading[c] = "idle"

\* What the scan has in its hands is active or was stopped under its eyes.
ListSound ==
    \A c \in Charge : OnScan(c) => c \notin opening /\ (Active(c) \/ c \in crossed)

\* A session that is or was being stopped is the handler's or the scan's.
StopSound ==
    \A c \in Charge :
        /\ stopping[c] # "idle" \/ c \in billed =>
             charge[c].status = "completed" \/ c \in crossed
        /\ stopping[c] # "idle" \/ c \in billed \cup ended =>
             charge[c].status \in {"completed", "Completed"}

\* A reading on the way, and a hash, of a session that is over are on record.
LateSound ==
    \A c \in Charge :
        /\ reading[c] # "idle" => Active(c) \/ stopping[c] = "live" \/ c \in late
        /\ c \in scan.marked \ {scan.at} /\ (reading[c] # "idle" \/ c \in lit) => c \in late

CloserIInv ==
    /\ CloserTypeOK /\ ScanSound /\ OpeningSound /\ ListSound /\ StopSound /\ LateSound
    /\ CloserSound

LEMMA CloserInitIInv == CloserInit => CloserIInv
<1> SUFFICES ASSUME CloserInit PROVE CloserIInv
  OBVIOUS
<1> USE CloserAssumption DEF CloserInit
<1>1. CloserTypeOK
  BY DEF CloserTypeOK, Metered, NoScan, Scan
<1>2. ScanSound
  BY DEF ScanSound, NoScan
<1>3. OpeningSound /\ ListSound
  BY DEF OpeningSound, ListSound, OnScan, NoScan, Active
<1>4. StopSound /\ LateSound /\ CloserSound
  BY DEF StopSound, LateSound, CloserSound, Active, NoScan
<1> QED BY <1>1, <1>2, <1>3, <1>4 DEF CloserIInv

-----------------------------------------------------------------------------
(* The same, session by session: a handler's step is about one.            *)

SessionOk(c) ==
    /\ charge[c].status = "none" =>
         /\ charge[c].meter = "fresh" /\ reading[c] = "idle" /\ stopping[c] = "idle"
         /\ c \notin opening \cup ended \cup billed /\ ~OnScan(c)
    /\ c \in opening => Active(c) /\ charge[c].meter = "fresh" /\ reading[c] = "idle"
    /\ OnScan(c) => c \notin opening /\ (Active(c) \/ c \in crossed)
    /\ stopping[c] # "idle" \/ c \in billed => charge[c].status = "completed" \/ c \in crossed
    /\ stopping[c] # "idle" \/ c \in billed \cup ended =>
         charge[c].status \in {"completed", "Completed"}
    /\ reading[c] # "idle" => Active(c) \/ stopping[c] = "live" \/ c \in late
    /\ c \in scan.marked \ {scan.at} /\ (reading[c] # "idle" \/ c \in lit) => c \in late
    /\ c \in ended => c \in billed \/ charge[c].status = "Completed"
    /\ Active(c) => c \in lit \cup opening \cup torn \cup (scan.marked \ {scan.at})
    /\ c \in lit => Active(c) \/ stopping[c] = "live" \/ c \in late

LEMMA SessionBySession ==
    ASSUME CloserTypeOK
    PROVE  CloserIInv <=> ScanSound /\ \A c \in Charge : SessionOk(c)
<1> USE DEF OpeningSound, ListSound, StopSound, LateSound, CloserSound, SessionOk
<1>1. CloserIInv => ScanSound /\ \A c \in Charge : SessionOk(c)
  <2> SUFFICES ASSUME CloserIInv, NEW c \in Charge PROVE SessionOk(c)
    BY DEF CloserIInv
  <2> QED BY DEF CloserIInv
<1>2. ASSUME ScanSound, \A c \in Charge : SessionOk(c) PROVE CloserIInv
  <2>1. billed \subseteq Charge /\ ended \subseteq Charge /\ lit \subseteq Charge
    BY DEF CloserTypeOK
  <2>2. OpeningSound /\ ListSound /\ StopSound /\ LateSound
    BY <1>2
  <2>3. CloserSound
    BY <1>2, <2>1
  <2> QED BY <1>2, <2>2, <2>3 DEF CloserIInv
<1> QED BY <1>1, <1>2

LEMMA SessionBySessionNext ==
    ASSUME CloserTypeOK', ScanSound', \A c \in Charge : SessionOk(c)'
    PROVE  CloserIInv'
<1> USE DEF OpeningSound, ListSound, StopSound, LateSound, CloserSound, SessionOk
<1>1. billed' \subseteq Charge /\ ended' \subseteq Charge /\ lit' \subseteq Charge
  BY DEF CloserTypeOK
<1>2. OpeningSound' /\ ListSound' /\ StopSound' /\ LateSound'
  OBVIOUS
<1>3. CloserSound'
  BY <1>1
<1> QED BY <1>2, <1>3 DEF CloserIInv

\* A session nothing was done to is as sound as it was.
Same(c) ==
    /\ charge'[c] = charge[c] /\ reading'[c] = reading[c] /\ stopping'[c] = stopping[c]
    /\ c \in lit' <=> c \in lit
    /\ c \in opening' <=> c \in opening
    /\ c \in billed' <=> c \in billed
    /\ c \in ended' <=> c \in ended
    /\ c \in crossed => c \in crossed'
    /\ c \in torn => c \in torn'
    /\ c \in late => c \in late'

LEMMA SameOk ==
    ASSUME NEW c \in Charge, SessionOk(c), Same(c), scan' = scan
    PROVE  SessionOk(c)'
BY DEF SessionOk, Same, OnScan, Active

\* A step of a handler of session c.
LEMMA HandlerStep ==
    ASSUME CloserIInv, CloserTypeOK', scan' = scan, NEW c \in Charge, SessionOk(c)',
           \A o \in Charge \ {c} : Same(o)
    PROVE  CloserIInv'
<1>1. ScanSound /\ \A o \in Charge : SessionOk(o)
  BY SessionBySession DEF CloserIInv
<1>2. ScanSound'
  BY <1>1 DEF ScanSound
<1>3. \A o \in Charge : SessionOk(o)'
  BY <1>1, SameOk
<1> QED BY <1>2, <1>3, SessionBySessionNext

LEMMA StartSteps ==
    ASSUME CloserIInv, NEW c \in Charge, StartCharge(c) \/ StartHash(c) \/ PlugChanges(c)
    PROVE  CloserIInv'
<1>t. CloserTypeOK /\ SessionOk(c)
  BY SessionBySession DEF CloserIInv
<1>r. charge[c].status \in {"none", "active", "completed", "Completed"}
      /\ charge[c].meter \in Metered
  BY <1>t DEF CloserTypeOK
<1>1. CASE StartCharge(c)
  <2> DEFINE row == [charge[c] EXCEPT !.status = "active"]
  <2>1. /\ row \in [status : {"none", "active", "completed", "Completed"}, meter : Metered]
        /\ row.status = "active" /\ row.meter = charge[c].meter
    BY <1>t DEF CloserTypeOK
  <2>2. /\ charge' = [charge EXCEPT ![c] = row] /\ charge[c].status = "none"
        /\ opening' = opening \cup {c}
        /\ UNCHANGED <<plugged, lit, reading, stopping, scan, billed, ended, crossed, torn,
                       late, scans, readings>>
    BY <1>1 DEF StartCharge
  <2> HIDE DEF row
  <2>3. CloserTypeOK'
    BY <2>1, <2>2, <1>t DEF CloserTypeOK
  <2>4. charge'[c] = row /\ \A o \in Charge \ {c} : Same(o)
    BY <2>2, <1>t DEF CloserTypeOK, Same
  <2>5. SessionOk(c)'
    BY <2>1, <2>2, <2>4, <1>t DEF SessionOk, Active, OnScan
  <2> QED BY <2>2, <2>3, <2>4, <2>5, HandlerStep
<1>2. CASE StartHash(c)
  <2>1. CloserTypeOK' /\ \A o \in Charge \ {c} : Same(o)
    BY <1>2, <1>t DEF StartHash, CloserTypeOK, Same
  <2>2. SessionOk(c)'
    BY <1>2, <1>t DEF StartHash, SessionOk, Active, OnScan
  <2> QED BY <1>2, <2>1, <2>2, HandlerStep DEF StartHash
<1>3. CASE PlugChanges(c)
  <2>1. CloserTypeOK' /\ (\A o \in Charge : Same(o)) /\ scan' = scan
    BY <1>3, <1>t DEF PlugChanges, handled, CloserTypeOK, Same
  <2>2. SessionOk(c)'
    BY <2>1, <1>t, SameOk
  <2> QED BY <2>1, <2>2, HandlerStep
<1> QED BY <1>1, <1>2, <1>3

LEMMA ReadingSteps ==
    ASSUME CloserIInv, NEW c \in Charge,
           \/ ReadingComes(c) \/ ReadingHash(c)
           \/ \E power \in {"strong", "weak", "none", "past"} : StoreReading(c, power)
    PROVE  CloserIInv'
<1>t. CloserTypeOK /\ SessionOk(c)
  BY SessionBySession DEF CloserIInv
<1>1. CASE ReadingComes(c)
  <2>1. CloserTypeOK'
    BY <1>1, <1>t DEF ReadingComes, CloserTypeOK
  <2>2. /\ reading'[c] = "store" /\ UNCHANGED scan
        /\ \A o \in Charge \ {c} : Same(o)
    BY <1>1, <1>t DEF ReadingComes, CloserTypeOK, Same
  <2>3. SessionOk(c)'
    BY <1>1, <2>2, <1>t DEF ReadingComes, SessionOk, Active, OnScan
  <2> QED BY <2>1, <2>2, <2>3, HandlerStep
<1>2. CASE ReadingHash(c)
  <2>1. CloserTypeOK'
    BY <1>2, <1>t DEF ReadingHash, CloserTypeOK
  <2>2. /\ reading'[c] = "idle" /\ UNCHANGED scan
        /\ \A o \in Charge \ {c} : Same(o)
    BY <1>2, <1>t DEF ReadingHash, CloserTypeOK, Same
  <2>3. SessionOk(c)'
    BY <1>2, <2>2, <1>t DEF ReadingHash, SessionOk, Active, OnScan
  <2> QED BY <2>1, <2>2, <2>3, HandlerStep
<1>3. ASSUME NEW power \in {"strong", "weak", "none", "past"}, StoreReading(c, power)
      PROVE  CloserIInv'
  <2> DEFINE m == IF power = "past" THEN charge[c].meter
                  ELSE IF power = "strong" \/ charge[c].meter = "fresh" THEN "fresh"
                  ELSE IF power = "weak" THEN "weak"
                  ELSE IF charge[c].meter = "quiet" THEN "pause" ELSE charge[c].meter
             row == [charge[c] EXCEPT !.meter = m]
  <2>1. charge[c] \in [status : {"none", "active", "completed", "Completed"}, meter : Metered]
    BY <1>t DEF CloserTypeOK
  <2>2. m \in Metered
    BY <2>1 DEF Metered
  <2>3. /\ charge' = [charge EXCEPT ![c] = row] /\ reading[c] = "store"
        /\ reading' = [reading EXCEPT ![c] = "live"]
        /\ UNCHANGED <<plugged, lit, opening, stopping, scan, billed, ended, crossed, torn,
                       late, scans, readings>>
    BY <1>3 DEF StoreReading
  <2> HIDE DEF m
  <2>4. /\ row \in [status : {"none", "active", "completed", "Completed"}, meter : Metered]
        /\ row.status = charge[c].status
    BY <2>1, <2>2
  <2> HIDE DEF row
  <2>5. CloserTypeOK'
    BY <2>3, <2>4, <1>t DEF CloserTypeOK
  <2>6. /\ charge'[c] = row /\ reading'[c] = "live"
        /\ \A o \in Charge \ {c} : Same(o)
    BY <2>3, <1>t DEF CloserTypeOK, Same
  <2>7. SessionOk(c)'
    BY <2>3, <2>4, <2>6, <1>t DEF SessionOk, Active, OnScan
  <2> QED BY <2>3, <2>5, <2>6, <2>7, HandlerStep
<1> QED BY <1>1, <1>2, <1>3

LEMMA StopSteps ==
    ASSUME CloserIInv, NEW c \in Charge,
           StopRow(c) \/ StopFindsNone(c) \/ StopHash(c) \/ StopBill(c) \/ MinutesPass(c)
    PROVE  CloserIInv'
<1>t. CloserTypeOK /\ SessionOk(c)
  BY SessionBySession DEF CloserIInv
<1>c. charge[c] \in [status : {"none", "active", "completed", "Completed"}, meter : Metered]
  BY <1>t DEF CloserTypeOK
<1>1. CASE StopRow(c)
  <2> DEFINE row == [charge[c] EXCEPT !.status = "completed"]
  <2>1. /\ row \in [status : {"none", "active", "completed", "Completed"}, meter : Metered]
        /\ row.status = "completed"
    BY <1>c
  <2>2. /\ charge' = [charge EXCEPT ![c] = row] /\ Active(c) /\ stopping[c] = "idle"
        /\ c \notin ended \cup opening \cup scan.marked
        /\ stopping' = [stopping EXCEPT ![c] = "live"]
        /\ crossed' = IF c \in scan.todo \/ scan.at = c THEN crossed \cup {c} ELSE crossed
        /\ UNCHANGED <<plugged, lit, opening, reading, scan, billed, ended, torn, late, scans,
                       readings>>
    BY <1>1 DEF StopRow, Listed
  <2> HIDE DEF row
  <2>3. CloserTypeOK'
    BY <2>1, <2>2, <1>t DEF CloserTypeOK
  <2>4. /\ charge'[c] = row /\ stopping'[c] = "live"
        /\ \A o \in Charge \ {c} : Same(o)
    BY <2>2, <1>t DEF CloserTypeOK, Same
  <2>5. SessionOk(c)'
    BY <2>1, <2>2, <2>4, <1>t DEF SessionOk, Active, OnScan
  <2> QED BY <2>2, <2>3, <2>4, <2>5, HandlerStep
<1>2. CASE StopFindsNone(c)
  <2>1. CloserTypeOK' /\ \A o \in Charge \ {c} : Same(o)
    BY <1>2, <1>t DEF StopFindsNone, CloserTypeOK, Same
  <2>2. SessionOk(c)'
    BY <1>2, <1>t DEF StopFindsNone, SessionOk, Active, OnScan
  <2> QED BY <1>2, <2>1, <2>2, HandlerStep DEF StopFindsNone
<1>3. CASE StopHash(c)
  <2>1. CloserTypeOK'
    BY <1>3, <1>t DEF StopHash, CloserTypeOK
  <2>2. stopping'[c] = "bill" /\ \A o \in Charge \ {c} : Same(o)
    BY <1>3, <1>t DEF StopHash, CloserTypeOK, Same
  <2>3. SessionOk(c)'
    BY <1>3, <2>2, <1>t DEF StopHash, SessionOk, Active, OnScan
  <2> QED BY <1>3, <2>1, <2>2, <2>3, HandlerStep DEF StopHash
<1>4. CASE StopBill(c)
  <2>1. CloserTypeOK'
    BY <1>4, <1>t DEF StopBill, CloserTypeOK
  <2>2. stopping'[c] = "idle" /\ \A o \in Charge \ {c} : Same(o)
    BY <1>4, <1>t DEF StopBill, CloserTypeOK, Same
  <2>3. SessionOk(c)'
    BY <1>4, <2>2, <1>t DEF StopBill, SessionOk, Active, OnScan
  <2> QED BY <1>4, <2>1, <2>2, <2>3, HandlerStep DEF StopBill
<1>5. CASE MinutesPass(c)
  <2>1. PICK m \in Metered : charge' = [charge EXCEPT ![c].meter = m]
    BY <1>5 DEF MinutesPass
  <2> DEFINE row == [charge[c] EXCEPT !.meter = m]
  <2>2. /\ row \in [status : {"none", "active", "completed", "Completed"}, meter : Metered]
        /\ row.status = charge[c].status
    BY <1>c
  <2>3. /\ charge' = [charge EXCEPT ![c] = row] /\ Active(c) /\ c \notin opening
        /\ UNCHANGED <<plugged, lit, opening, reading, stopping, scan, billed, ended, crossed,
                       torn, late, scans, readings>>
    BY <1>5, <2>1 DEF MinutesPass, handled
  <2> HIDE DEF row
  <2>4. CloserTypeOK'
    BY <2>2, <2>3, <1>t DEF CloserTypeOK
  <2>5. charge'[c] = row /\ \A o \in Charge \ {c} : Same(o)
    BY <2>3, <1>t DEF CloserTypeOK, Same
  <2>6. SessionOk(c)'
    BY <2>2, <2>3, <2>5, <1>t DEF SessionOk, Active, OnScan
  <2> QED BY <2>3, <2>4, <2>5, <2>6, HandlerStep
<1> QED BY <1>1, <1>2, <1>3, <1>4, <1>5

-----------------------------------------------------------------------------
(* The scan.                                                               *)

\* What the scan does when it has its list, before it writes: only its own variables
\* and, when it closes a session, the hash.
LEMMA ListSteps ==
    ASSUME CloserIInv,
           \/ ScanQuiet \/ ScanWeak \/ MarkClosed \/ \E c \in Charge : LookAtPlug(c)
    PROVE  CloserIInv'
<1>t. CloserTypeOK /\ ScanSound /\ \A o \in Charge : SessionOk(o)
  BY SessionBySession DEF CloserIInv
<1>k. scan \in Scan /\ NoCharge \notin Charge
  BY <1>t, CloserAssumption DEF CloserTypeOK
<1>u. UNCHANGED <<charge, plugged, lit, opening, reading, stopping, billed, ended, crossed,
                  torn, late, readings>>
  BY DEF ScanQuiet, ScanWeak, MarkClosed, LookAtPlug, handled
<1>s. ASSUME CloserTypeOK', ScanSound',
             \A o \in Charge : /\ OnScan(o)' => OnScan(o) \/ (Active(o) /\ o \notin opening)
                               /\ o \in scan.marked \ {scan.at} => o \in scan'.marked \ {scan'.at}
                               /\ o \in scan'.marked \ {scan'.at} => o \in scan.marked \ {scan.at}
      PROVE  CloserIInv'
  <2>1. \A o \in Charge : SessionOk(o)'
    BY <1>s, <1>t, <1>u DEF SessionOk, Active
  <2> QED BY <1>s, <2>1, SessionBySessionNext
<1>1. CASE ScanQuiet
  <2> DEFINE quiet == {o \in Charge : Active(o) /\ charge[o].meter = "quiet"}
             next == [NoScan EXCEPT !.pc = "first", !.todo = quiet, !.listed = quiet]
  <2>1. quiet \subseteq Charge /\ \A o \in quiet : Active(o) /\ o \notin opening
    BY <1>t DEF SessionOk
  <2>2. scan' = next /\ scans' = scans + 1 /\ scan = NoScan
    BY <1>1, <1>t DEF ScanQuiet, ScanSound
  <2> HIDE DEF quiet
  <2>3. /\ next \in Scan /\ next.pc = "first" /\ next.todo = quiet
        /\ next.marked = {} /\ next.at = NoCharge
    BY <2>1 DEF Scan, NoScan
  <2> HIDE DEF next
  <2>4. CloserTypeOK'
    BY <2>2, <2>3, <1>u, <1>t DEF CloserTypeOK
  <2>5. ScanSound'
    BY <2>1, <2>2, <2>3, <1>k DEF ScanSound
  <2> QED BY <2>1, <2>2, <2>3, <2>4, <2>5, <1>k, <1>s DEF OnScan, NoScan
<1>2. CASE ScanWeak
  <2> DEFINE weak == {o \in Charge : Active(o) /\ charge[o].meter = "weak"}
             rest == weak \ (scan.listed \cup scan.marked)
             next == [scan EXCEPT !.pc = "second", !.todo = rest]
  <2>1. rest \subseteq Charge \ scan.marked /\ \A o \in rest : Active(o) /\ o \notin opening
    BY <1>t DEF SessionOk
  <2>2. scan' = next /\ scans' = scans /\ scan.at = NoCharge
    BY <1>2 DEF ScanWeak
  <2> HIDE DEF rest
  <2>3. /\ next \in Scan /\ next.pc = "second" /\ next.todo = rest
        /\ next.marked = scan.marked /\ next.at = scan.at
    BY <2>1, <1>k DEF Scan
  <2> HIDE DEF next
  <2>4. CloserTypeOK'
    BY <2>2, <2>3, <1>u, <1>t DEF CloserTypeOK
  <2>5. ScanSound'
    BY <2>1, <2>2, <2>3, <1>k DEF ScanSound
  <2> QED BY <2>1, <2>2, <2>3, <2>4, <2>5, <1>k, <1>s DEF OnScan
<1>3. CASE MarkClosed
  <2> DEFINE next == [scan EXCEPT !.marked = scan.marked \cup {scan.at}]
  <2>1. scan' = next /\ scans' = scans /\ scan.at # NoCharge /\ scan.at \notin scan.marked
    BY <1>3 DEF MarkClosed
  <2>2. scan.at \in Charge
    BY <2>1, <1>k DEF Scan
  <2>3. /\ next \in Scan /\ next.pc = scan.pc /\ next.todo = scan.todo
        /\ next.marked = scan.marked \cup {scan.at} /\ next.at = scan.at
    BY <2>2, <1>k DEF Scan
  <2> HIDE DEF next
  <2>4. CloserTypeOK'
    BY <2>1, <2>3, <1>u, <1>t DEF CloserTypeOK
  <2>5. ScanSound'
    BY <2>1, <2>3, <1>t, <1>k DEF ScanSound, NoScan
  <2> QED BY <2>1, <2>3, <2>4, <2>5, <1>s DEF OnScan
<1>4. ASSUME NEW c \in Charge, LookAtPlug(c) PROVE CloserIInv'
  <2> DEFINE at == IF c \in plugged \ Charge201 THEN NoCharge ELSE c
             next == [scan EXCEPT !.todo = scan.todo \ {c}, !.at = at]
  <2>1. /\ scan' = next /\ scans' = scans /\ scan.pc # "idle" /\ scan.at = NoCharge
        /\ c \in scan.todo
    BY <1>4 DEF LookAtPlug
  <2>2. at \in {c, NoCharge}
    OBVIOUS
  <2> HIDE DEF at
  <2>3. /\ next \in Scan /\ next.pc = scan.pc /\ next.todo = scan.todo \ {c}
        /\ next.marked = scan.marked /\ next.at = at
    BY <2>2, <1>k DEF Scan
  <2> HIDE DEF next
  <2>4. CloserTypeOK'
    BY <2>1, <2>3, <1>u, <1>t DEF CloserTypeOK
  <2>5. ScanSound'
    BY <2>1, <2>2, <2>3, <1>t, <1>k DEF ScanSound, Scan
  <2>6. c \notin scan.marked /\ NoCharge \notin scan.marked
    BY <2>1, <1>t, <1>k DEF ScanSound, Scan
  <2> QED BY <2>1, <2>2, <2>3, <2>4, <2>5, <2>6, <1>s DEF OnScan
<1> QED BY <1>1, <1>2, <1>3, <1>4

LEMMA DropLiveStep == ASSUME CloserIInv, DropLive PROVE CloserIInv'
<1> DEFINE next == [scan EXCEPT !.at = NoCharge]
           a == scan.at
<1>t. CloserTypeOK /\ ScanSound /\ \A o \in Charge : SessionOk(o)
  BY SessionBySession DEF CloserIInv
<1>k. scan \in Scan /\ NoCharge \notin Charge
  BY <1>t, CloserAssumption DEF CloserTypeOK
<1>1. /\ a \in scan.marked /\ scan' = next /\ lit' = lit \ {a}
      /\ late' = IF reading[a] # "idle" THEN late \cup {a} ELSE late
      /\ UNCHANGED <<charge, plugged, opening, reading, stopping, billed, ended, crossed,
                     torn, scans, readings>>
  BY DEF DropLive, handled
<1>2. a \in Charge
  BY <1>1, <1>k DEF Scan
<1>3. /\ next \in Scan /\ next.pc = scan.pc /\ next.todo = scan.todo
      /\ next.marked = scan.marked /\ next.at = NoCharge
  BY <1>k DEF Scan
<1>o. OnScan(a) /\ a = scan.at
  BY <1>1 DEF OnScan
<1> HIDE DEF next, a
<1>4. CloserTypeOK'
  BY <1>1, <1>2, <1>3, <1>t DEF CloserTypeOK
<1>5. ScanSound'
  BY <1>1, <1>2, <1>3, <1>t, <1>k, <1>o DEF ScanSound, Scan, NoScan
<1>6. \A o \in Charge : OnScan(o)' => OnScan(o)
  BY <1>1, <1>3, <1>k DEF OnScan
<1>7. ASSUME NEW o \in Charge PROVE SessionOk(o)'
  <2>1. SessionOk(o)
    BY <1>t
  <2>2. o = a => o \in scan'.marked \ {scan'.at} /\ o \notin lit'
                 /\ (reading[o] # "idle" => o \in late')
    BY <1>1, <1>2, <1>3, <1>k
  <2>3. o # a => /\ o \in scan'.marked \ {scan'.at} <=> o \in scan.marked \ {scan.at}
                 /\ o \in lit' <=> o \in lit
    BY <1>1, <1>3, <1>k, <1>o
  <2>4. (o \in late => o \in late') /\ (OnScan(o)' => OnScan(o))
    BY <1>1, <1>6
  <2>5. UNCHANGED <<charge, opening, reading, stopping, billed, ended, crossed, torn>>
    BY <1>1
  <2> QED BY <2>1, <2>2, <2>3, <2>4, <2>5 DEF SessionOk, Active
<1> QED BY <1>4, <1>5, <1>7, SessionBySessionNext

LEMMA ScanEnds == ASSUME CloserIInv, ScanCommits \/ ScanFails PROVE CloserIInv'
<1>t. CloserTypeOK /\ ScanSound /\ \A o \in Charge : SessionOk(o)
  BY SessionBySession DEF CloserIInv
<1>k. scan \in Scan /\ NoCharge \notin Charge /\ NoScan \in Scan
  BY <1>t, CloserAssumption DEF CloserTypeOK, NoScan, Scan
<1>n. /\ scan' = NoScan
      /\ UNCHANGED <<plugged, lit, opening, reading, stopping, billed, ended, crossed, late,
                     scans, readings>>
  BY DEF ScanCommits, ScanFails, handled
<1>1. ScanSound' /\ \A o \in Charge : ~OnScan(o)'
  BY <1>n, <1>k DEF ScanSound, NoScan, OnScan
<1>m. scan'.marked = {}
  BY <1>n DEF NoScan
<1>2. CASE ScanCommits
  <2>1. /\ scan.at = NoCharge /\ torn' = torn
        /\ charge' = [c \in Charge |-> IF c \in scan.marked
                                       THEN [charge[c] EXCEPT !.status = "Completed"]
                                       ELSE charge[c]]
    BY <1>2 DEF ScanCommits
  <2>2. \A o \in Charge :
          /\ charge'[o] \in [status : {"none", "active", "completed", "Completed"},
                             meter : Metered]
          /\ o \in scan.marked => charge'[o].status = "Completed"
          /\ o \notin scan.marked => charge'[o] = charge[o]
    BY <2>1, <1>t DEF CloserTypeOK
  <2>3. CloserTypeOK'
    <3>1. charge' \in [Charge -> [status : {"none", "active", "completed", "Completed"},
                                  meter : Metered]]
      BY <2>1, <2>2
    <3> QED BY <3>1, <2>1, <1>n, <1>k, <1>t DEF CloserTypeOK
  <2>4. ASSUME NEW o \in Charge PROVE SessionOk(o)'
    <3>1. SessionOk(o)
      BY <1>t
    <3>2. CASE o \in scan.marked
      <4>1. o \in scan.marked \ {scan.at} /\ OnScan(o)
        BY <3>2, <2>1, <1>k DEF OnScan
      <4>2. charge'[o].status = "Completed"
        BY <3>2, <2>2
      <4> QED BY <3>1, <4>1, <4>2, <1>1, <1>m, <1>n DEF SessionOk, Active
    <3>3. CASE o \notin scan.marked
      <4>1. charge'[o] = charge[o]
        BY <3>3, <2>2
      <4> QED BY <3>1, <3>3, <4>1, <2>1, <1>1, <1>m, <1>n DEF SessionOk, Active
    <3> QED BY <3>2, <3>3
  <2> QED BY <1>1, <2>3, <2>4, SessionBySessionNext
<1>3. CASE ScanFails
  <2>1. charge' = charge /\ torn' = torn \cup (scan.marked \ {scan.at})
    BY <1>3 DEF ScanFails
  <2>2. CloserTypeOK'
    BY <2>1, <1>n, <1>k, <1>t DEF CloserTypeOK, Scan
  <2>3. ASSUME NEW o \in Charge PROVE SessionOk(o)'
    <3>1. SessionOk(o)
      BY <1>t
    <3> QED BY <3>1, <2>1, <1>1, <1>m, <1>n DEF SessionOk, Active
  <2> QED BY <1>1, <2>2, <2>3, SessionBySessionNext
<1> QED BY <1>2, <1>3

LEMMA CloserStep == CloserIInv /\ [CloserNext]_closerVars => CloserIInv'
<1> SUFFICES ASSUME CloserIInv, [CloserNext]_closerVars PROVE CloserIInv'
  OBVIOUS
<1>1. CASE UNCHANGED closerVars
  <2>1. CloserTypeOK /\ ScanSound /\ \A c \in Charge : SessionOk(c)
    BY SessionBySession DEF CloserIInv
  <2>2. CloserTypeOK' /\ ScanSound'
    BY <2>1, <1>1 DEF closerVars, CloserTypeOK, ScanSound
  <2>3. \A c \in Charge : SessionOk(c)'
    BY <2>1, <1>1 DEF closerVars, SessionOk, OnScan, Active
  <2> QED BY <2>2, <2>3, SessionBySessionNext
<1> QED BY <1>1, StartSteps, ReadingSteps, StopSteps, ListSteps, DropLiveStep, ScanEnds
    DEF CloserNext

LEMMA CloserInvariance == CloserSpec => []CloserIInv
<1>1. CloserIInv /\ [CloserNext]_closerVars => CloserIInv'
  BY CloserStep
<1> QED BY CloserInitIInv, <1>1, PTL DEF CloserSpec

\* A session the closer takes is never billed as well unless it stopped under the
\* scan's eyes, and hash and row of a session agree but for a scan that was rolled
\* back and a late reading, for any number of scans, sessions and readings
\* (stale_sessions.py:26-145, ocpp16/meter.py:141-186, ocpp16/session.py:127-186).
THEOREM CloserIsSound == CloserSpec => []CloserSound
<1>1. CloserIInv => CloserSound
  BY DEF CloserIInv
<1> QED BY CloserInvariance, <1>1, PTL

-----------------------------------------------------------------------------
(* The inductive invariant of LiveFeed.                                    *)

\* The last entry a stream is done with.
Behind(c) == group[c].cursor - Len(follow[c].batch)

\* A stream holds the last entries its group was given; those it missed are older.
StreamOk(c) ==
    /\ follow[c].pc # "read" =>
         follow[c].batch = <<>> /\ got[c] = <<>> /\ missed[c] = {}
    /\ group[c].cursor <= Len(feed) /\ since[c] <= Len(feed)
    /\ follow[c].pc = "read" => since[c] <= Behind(c)
    /\ follow[c].pc # "read" => group[c].cursor = 0
    /\ \A k \in DOMAIN follow[c].batch : follow[c].batch[k] = Behind(c) + k
    /\ \A e \in missed[c] : e <= Behind(c)

\* What a client was sent, in order: what its stream is done with but for what
\* it missed.
Due(c, e) == e \in (since[c] + 1) .. Behind(c) /\ e \notin missed[c] /\ Wanted(c, e)

SentOk(c) ==
    follow[c].pc = "read" =>
       /\ \A k \in DOMAIN got[c] : Due(c, got[c][k])
       /\ \A e \in Nat : Due(c, e) => \E k \in DOMAIN got[c] : got[c][k] = e
       /\ \A j, k \in DOMAIN got[c] : j < k => got[c][j] < got[c][k]

StreamsSound == \A c \in Client : StreamOk(c) /\ SentOk(c)

\* A snapshot under way that was stored has a row of its own.
SiteOk(s) ==
    LET stored == IF post[s].pc \in {"bus", "answer"} /\ post[s].db THEN 1 ELSE 0
        under  == IF post[s].pc \in {"bus", "answer"} THEN 1 ELSE 0
    IN  /\ told[s].ok + stored <= samples[s]
        /\ samples[s] <= told[s].ok + told[s].other + under

SitesSound == \A s \in Site : SiteOk(s)

FeedIInv == FeedTypeOK /\ StreamsSound /\ SitesSound

GroupRow == [here : BOOLEAN, cursor : Nat]
PostRow0 == [pc : {"idle", "db", "bus", "answer"}, db : BOOLEAN]
ToldRow == [ok : Nat, other : Nat]

\* The type invariant, stream by stream and site by site.
StreamTypeOK ==
    /\ feed \in Seq(Topic) /\ oldest \in Nat \ {0}
    /\ follow \in [Client -> Stream] /\ group \in [Client -> GroupRow]
    /\ got \in [Client -> Seq(Entries)] /\ since \in [Client -> Nat]
    /\ missed \in [Client -> SUBSET Entries]
    /\ left \in BOOLEAN

SiteTypeOK ==
    /\ post \in [Site -> PostRow0] /\ samples \in [Site -> Nat] /\ told \in [Site -> ToldRow]

LEMMA FeedTypeIs == FeedTypeOK <=> StreamTypeOK /\ SiteTypeOK /\ breaks \in Nat
BY DEF FeedTypeOK, StreamTypeOK, SiteTypeOK, Stream, GroupRow, PostRow0, ToldRow

LEMMA FeedKinds ==
    /\ NoFollow \in Stream /\ NoFollow.pc = "off" /\ NoFollow.batch = <<>>
    /\ NoGroup \in GroupRow /\ NoGroup.cursor = 0
    /\ <<>> \in Seq(Entries) /\ Len(<<>>) = 0
BY DEF NoFollow, Stream, NoGroup, GroupRow

LEMMA FeedInitIInv == FeedInit => FeedIInv
<1> SUFFICES ASSUME FeedInit PROVE FeedIInv
  OBVIOUS
<1> USE FeedAssumption, FeedKinds DEF FeedInit
<1>1. StreamTypeOK
  <2>1. feed = <<>> /\ oldest = 1 /\ left \in BOOLEAN
    OBVIOUS
  <2>2. follow \in [Client -> Stream] /\ group \in [Client -> GroupRow]
    OBVIOUS
  <2>3. got \in [Client -> Seq(Entries)] /\ since \in [Client -> Nat]
    OBVIOUS
  <2>4. missed \in [Client -> SUBSET Entries]
    OBVIOUS
  <2>5. feed \in Seq(Topic)
    BY <2>1, EmptySeq
  <2> QED BY <2>1, <2>2, <2>3, <2>4, <2>5 DEF StreamTypeOK
<1>2. SiteTypeOK /\ breaks \in Nat
  BY DEF SiteTypeOK, PostRow0, ToldRow
<1>3. StreamsSound
  BY DEF StreamsSound, StreamOk, SentOk, Behind
<1>4. SitesSound
  BY DEF SitesSound, SiteOk
<1> QED BY <1>1, <1>2, <1>3, <1>4, FeedTypeIs DEF FeedIInv

-----------------------------------------------------------------------------
(* The streams of the clients.                                             *)

\* Entries are appended, never changed.
FeedGrows ==
    /\ feed' \in Seq(Topic) /\ oldest' \in Nat \ {0}
    /\ Len(feed) <= Len(feed')
    /\ \A e \in Entries : feed'[e] = feed[e]

LEMMA AddEntryGrows ==
    ASSUME StreamTypeOK, NEW t \in Topic, AddEntry(t) PROVE FeedGrows
<1>1. oldest' \in Nat \ {0}
  BY FeedAssumption DEF AddEntry, StreamTypeOK
<1>2. feed' = Append(feed, t) /\ feed \in Seq(Topic)
  BY DEF AddEntry, StreamTypeOK
<1>3. Len(feed') = Len(feed) + 1 /\ \A e \in 1..Len(feed) : feed'[e] = feed[e]
  BY <1>2
<1> QED BY <1>1, <1>2, <1>3 DEF FeedGrows, Entries

LEMMA StreamRows ==
    ASSUME StreamTypeOK, NEW c \in Client
    PROVE  /\ follow[c] \in Stream /\ group[c] \in GroupRow
           /\ follow[c].batch \in Seq(Entries) /\ Len(follow[c].batch) \in Nat
           /\ group[c].cursor \in Nat /\ got[c] \in Seq(Entries)
           /\ since[c] \in Nat /\ missed[c] \subseteq Entries
           /\ Len(feed) \in Nat /\ Behind(c) \in Int
<1>1. follow[c] \in Stream /\ group[c] \in GroupRow /\ got[c] \in Seq(Entries)
      /\ since[c] \in Nat /\ missed[c] \subseteq Entries /\ Len(feed) \in Nat
  BY DEF StreamTypeOK
<1>2. follow[c].batch \in Seq(Entries) /\ group[c].cursor \in Nat
  BY <1>1 DEF Stream, GroupRow
<1>3. Len(follow[c].batch) \in Nat
  BY <1>2
<1> QED BY <1>1, <1>2, <1>3 DEF Behind

\* A client nothing is done to, while the stream grows or stays.
LEMMA StreamKeeps ==
    ASSUME StreamTypeOK, FeedGrows, NEW c \in Client, StreamOk(c), SentOk(c),
           follow'[c] = follow[c], group'[c] = group[c], got'[c] = got[c],
           since'[c] = since[c], missed'[c] = missed[c]
    PROVE  StreamOk(c)' /\ SentOk(c)'
<1>1. Behind(c)' = Behind(c) /\ Behind(c) <= Len(feed) /\ Len(feed') \in Nat
  BY StreamRows DEF Behind, StreamOk, FeedGrows
<1>2. StreamOk(c)'
  BY <1>1, StreamRows DEF StreamOk, FeedGrows
<1>3. \A e \in (since[c] + 1) .. Behind(c) : Wanted(c, e)' <=> Wanted(c, e)
  <2>1. ASSUME NEW e \in (since[c] + 1) .. Behind(c) PROVE feed'[e] = feed[e]
    <3>1. since[c] \in Nat /\ Behind(c) \in Int /\ Len(feed) \in Nat
      BY StreamRows
    <3>2. e \in Entries
      BY <3>1, <1>1 DEF Entries
    <3> QED BY <3>2 DEF FeedGrows
  <2>2. Want(c)' = Want(c)
    BY DEF Want
  <2> QED BY <2>1, <2>2 DEF Wanted
<1>4. \A e : Due(c, e)' <=> Due(c, e)
  BY <1>1, <1>3, StreamRows DEF Due
<1>5. SentOk(c)'
  BY <1>4 DEF SentOk
<1> QED BY <1>2, <1>5

LEMMA SeqsGrow ==
    ASSUME StreamTypeOK, FeedGrows
    PROVE  /\ Entries \subseteq Entries' /\ Seq(Entries) \subseteq Seq(Entries')
           /\ Stream \subseteq Stream'
<1>1. Entries \subseteq Entries'
  BY DEF Entries, FeedGrows, StreamTypeOK
<1>2. ASSUME NEW s \in Seq(Entries) PROVE s \in Seq(Entries')
  <2>1. Len(s) \in Nat /\ s \in [1..Len(s) -> Entries]
    OBVIOUS
  <2>2. s \in [1..Len(s) -> Entries']
    BY <2>1, <1>1
  <2> QED BY <2>1, <2>2
<1> QED BY <1>1, <1>2 DEF Stream

\* Whoever publishes leaves the streams of the clients as they are.
LEMMA PublishKeeps ==
    ASSUME StreamTypeOK, StreamsSound, FeedGrows, UNCHANGED streams
    PROVE  StreamTypeOK' /\ StreamsSound'
<1>1. StreamTypeOK'
  BY SeqsGrow DEF StreamTypeOK, streams, FeedGrows, GroupRow
<1>2. StreamsSound'
  BY StreamKeeps DEF StreamsSound, streams
<1> QED BY <1>1, <1>2

LEMMA NoPublish ==
    ASSUME StreamTypeOK, UNCHANGED <<feed, oldest>>
    PROVE  FeedGrows /\ Entries' = Entries /\ Stream' = Stream
BY DEF FeedGrows, Entries, StreamTypeOK, Stream

\* A step of client c and of nobody else.
LEMMA ClientStep ==
    ASSUME StreamTypeOK, StreamsSound, UNCHANGED <<feed, oldest>>, NEW c \in Client,
           \A d \in Client \ {c} :
             /\ follow'[d] = follow[d] /\ group'[d] = group[d] /\ got'[d] = got[d]
             /\ since'[d] = since[d] /\ missed'[d] = missed[d],
           StreamOk(c)', SentOk(c)'
    PROVE  StreamsSound'
BY NoPublish, StreamKeeps DEF StreamsSound

\* What a client asked for does not change while it is answered.
AsksSame(c) == follow'[c].asked = follow[c].asked /\ follow'[c].types = follow[c].types

LEMMA WantedSame ==
    ASSUME NEW c \in Client, AsksSame(c), feed' = feed
    PROVE  \A e : Wanted(c, e)' <=> Wanted(c, e)
BY DEF AsksSame, Wanted, Want

LEMMA FollowStep ==
    ASSUME StreamTypeOK, StreamsSound, NEW c \in Client, NEW A \in SUBSET Filter,
           NEW types \in BOOLEAN, Follow(c, A, types)
    PROVE  StreamTypeOK' /\ StreamsSound'
<1> DEFINE row == [NoFollow EXCEPT !.pc = "answer", !.asked = A, !.types = types]
<1>1. /\ row \in Stream /\ row.pc = "answer" /\ row.batch = <<>>
  BY FeedKinds DEF Stream
<1>2. /\ follow[c].pc = "off" /\ follow' = [follow EXCEPT ![c] = row]
      /\ UNCHANGED <<feed, oldest, group, got, since, missed, left>>
  BY DEF Follow
<1> HIDE DEF row
<1>3. StreamTypeOK'
  BY <1>1, <1>2, NoPublish DEF StreamTypeOK
<1>4. follow'[c] = row /\ \A d \in Client \ {c} : follow'[d] = follow[d]
  BY <1>2 DEF StreamTypeOK
<1>5. StreamOk(c)
  BY DEF StreamsSound
<1>6. StreamOk(c)' /\ SentOk(c)'
  BY <1>1, <1>2, <1>4, <1>5 DEF StreamOk, SentOk, Behind
<1> QED BY <1>2, <1>3, <1>4, <1>6, ClientStep

LEMMA RespondStep ==
    ASSUME StreamTypeOK, StreamsSound, NEW c \in Client, Respond(c)
    PROVE  StreamTypeOK' /\ StreamsSound'
<1> DEFINE row == [follow[c] EXCEPT !.pc = "join"]
<1>1. row \in Stream /\ row.pc = "join" /\ row.batch = follow[c].batch
  BY StreamRows DEF Stream
<1>2. /\ follow[c].pc = "answer" /\ follow' = [follow EXCEPT ![c] = row]
      /\ since' = [since EXCEPT ![c] = Len(feed)]
      /\ UNCHANGED <<feed, oldest, group, got, missed, left>>
  BY DEF Respond
<1> HIDE DEF row
<1>3. StreamTypeOK'
  BY <1>1, <1>2, StreamRows, NoPublish DEF StreamTypeOK
<1>4. /\ follow'[c] = row /\ since'[c] = Len(feed)
      /\ \A d \in Client \ {c} : follow'[d] = follow[d] /\ since'[d] = since[d]
  BY <1>2 DEF StreamTypeOK
<1>5. StreamOk(c) /\ Len(feed) \in Nat
  BY StreamRows DEF StreamsSound
<1>6. StreamOk(c)' /\ SentOk(c)'
  BY <1>1, <1>2, <1>4, <1>5 DEF StreamOk, SentOk, Behind
<1> QED BY <1>2, <1>3, <1>4, <1>6, ClientStep

\* The group starts at the end of the stream: what was published since the answer
\* is missed.
LEMMA JoinStep ==
    ASSUME StreamTypeOK, StreamsSound, NEW c \in Client, Join(c)
    PROVE  StreamTypeOK' /\ StreamsSound'
<1> DEFINE row == [follow[c] EXCEPT !.pc = "read"]
           place == [here |-> TRUE, cursor |-> Len(feed)]
<1>1. row \in Stream /\ row.pc = "read" /\ row.batch = follow[c].batch
  BY StreamRows DEF Stream
<1>2. place \in GroupRow /\ place.cursor = Len(feed)
  BY StreamRows DEF GroupRow
<1>3. /\ follow[c].pc = "join" /\ follow' = [follow EXCEPT ![c] = row]
      /\ group' = [group EXCEPT ![c] = place]
      /\ missed' = [missed EXCEPT ![c] = (since[c] + 1) .. Len(feed)]
      /\ UNCHANGED <<feed, oldest, got, since, left>>
  BY DEF Join, JoinAt
<1> HIDE DEF row, place
<1>n. Len(feed) \in Nat /\ since[c] \in Nat /\ since[c] <= Len(feed)
  BY StreamRows DEF StreamsSound, StreamOk
<1>m. (since[c] + 1) .. Len(feed) \subseteq Entries
  BY <1>n DEF Entries
<1>4. StreamTypeOK'
  BY <1>1, <1>2, <1>3, <1>m, NoPublish DEF StreamTypeOK
<1>5. /\ follow'[c] = row /\ group'[c] = place /\ missed'[c] = (since[c] + 1) .. Len(feed)
      /\ \A d \in Client \ {c} : /\ follow'[d] = follow[d] /\ group'[d] = group[d]
                                 /\ missed'[d] = missed[d]
  BY <1>3 DEF StreamTypeOK
<1>6. follow[c].batch = <<>> /\ got[c] = <<>>
  BY <1>3 DEF StreamsSound, StreamOk
<1>7. Behind(c)' = Len(feed)
  BY <1>1, <1>2, <1>5, <1>6, <1>n, FeedKinds DEF Behind
<1>8. StreamOk(c)'
  <2>1. \A e \in missed'[c] : e <= Len(feed)
    BY <1>5, <1>n
  <2> QED BY <1>1, <1>2, <1>3, <1>5, <1>6, <1>7, <1>n, <2>1 DEF StreamOk
<1>9. SentOk(c)'
  BY <1>3, <1>5, <1>6, <1>7, <1>n DEF SentOk, Due
<1> QED BY <1>3, <1>4, <1>5, <1>8, <1>9, ClientStep

LEMMA ReadStep ==
    ASSUME StreamTypeOK, StreamsSound, NEW c \in Client, ReadFeed(c)
    PROVE  StreamTypeOK' /\ StreamsSound'
<1> DEFINE at    == group[c].cursor
           next  == IF at + 1 < oldest THEN oldest ELSE at + 1
           last  == IF next + ReadCount - 1 < Len(feed) THEN next + ReadCount - 1 ELSE Len(feed)
           batch == [k \in 1 .. (last + 1 - next) |-> next + k - 1]
           place == [group[c] EXCEPT !.cursor = last]
           row   == [follow[c] EXCEPT !.batch = batch]
<1>1. /\ follow[c].pc = "read" /\ follow[c].batch = <<>> /\ next <= Len(feed)
      /\ group' = [group EXCEPT ![c] = place]
      /\ \/ /\ follow' = [follow EXCEPT ![c] = row]
            /\ missed' = [missed EXCEPT ![c] = missed[c] \cup ((at + 1) .. (next - 1))]
         \/ /\ missed' = [missed EXCEPT ![c] = missed[c] \cup ((at + 1) .. (next - 1))
                                                      \cup (next .. last)]
            /\ follow' = follow
      /\ UNCHANGED <<feed, oldest, got, since, left>>
  BY DEF ReadFeed
<1>2. StreamOk(c) /\ SentOk(c)
  BY DEF StreamsSound
<1>3. /\ at \in Nat /\ next \in Nat /\ last \in Nat /\ oldest \in Nat
      /\ at < next /\ next <= last /\ last <= Len(feed) /\ Len(feed) \in Nat
  <2>1. at \in Nat /\ oldest \in Nat /\ ReadCount \in Nat \ {0} /\ Len(feed) \in Nat
    BY StreamRows, FeedAssumption DEF StreamTypeOK
  <2> HIDE DEF at
  <2>2. next \in Nat /\ at < next
    BY <2>1
  <2>3. next <= Len(feed)
    BY <1>1
  <2> HIDE DEF next
  <2> QED BY <2>1, <2>2, <2>3
<1>4. Behind(c) = at /\ since[c] <= at /\ since[c] \in Nat /\ got[c] \in Seq(Entries)
  BY <1>1, <1>2, <1>3, StreamRows, FeedKinds DEF Behind, StreamOk
<1> HIDE DEF next, last
<1>5. /\ batch \in Seq(Entries) /\ Len(batch) = last + 1 - next
      /\ DOMAIN batch = 1 .. (last + 1 - next)
      /\ \A k \in 1 .. (last + 1 - next) : batch[k] = next - 1 + k
  <2>1. batch \in [1 .. (last + 1 - next) -> Entries] /\ last + 1 - next \in Nat
    BY <1>3 DEF Entries
  <2>2. batch \in Seq(Entries)
    BY <2>1
  <2>3. DOMAIN batch = 1 .. (last + 1 - next)
    OBVIOUS
  <2>4. Len(batch) = last + 1 - next
    BY <2>1, <2>2, <2>3, LenProperties
  <2>5. ASSUME NEW k \in 1 .. (last + 1 - next) PROVE batch[k] = next - 1 + k
    BY <1>3
  <2> QED BY <2>2, <2>3, <2>4, <2>5
<1> HIDE DEF batch
<1>6. place \in GroupRow /\ place.cursor = last
  BY <1>3, StreamRows DEF GroupRow
<1>7. /\ row \in Stream /\ row.pc = follow[c].pc /\ row.batch = batch
      /\ row.asked = follow[c].asked /\ row.types = follow[c].types
  BY <1>5, StreamRows DEF Stream
<1> HIDE DEF at, row, place
<1>8. /\ (at + 1) .. (next - 1) \subseteq Entries /\ next .. last \subseteq Entries
      /\ missed[c] \subseteq Entries
  BY <1>3, StreamRows DEF Entries
<1>9. StreamTypeOK'
  BY <1>1, <1>6, <1>7, <1>8, NoPublish DEF StreamTypeOK
<1>10. group'[c] = place
  BY <1>1 DEF StreamTypeOK
<1>11. \A d \in Client \ {c} :
         /\ follow'[d] = follow[d] /\ group'[d] = group[d] /\ got'[d] = got[d]
         /\ since'[d] = since[d] /\ missed'[d] = missed[d]
  BY <1>1 DEF StreamTypeOK
<1>w. \A e : AsksSame(c) => (Wanted(c, e)' <=> Wanted(c, e))
  BY <1>1, WantedSame
\* Entries the client will be sent, or those that were trimmed only.
<1>12. ASSUME NEW end \in {next - 1, last}, Behind(c)' = end,
              follow'[c].pc = "read", AsksSame(c),
              missed'[c] = missed[c] \cup ((at + 1) .. end)
       PROVE  SentOk(c)'
  <2>1. end \in Nat /\ at <= end /\ end <= Len(feed)
    BY <1>3
  <2>2. ASSUME NEW e \in Nat PROVE Due(c, e)' <=> Due(c, e)
    <3>1. Due(c, e) <=> e \in (since[c] + 1) .. at /\ e \notin missed[c] /\ Wanted(c, e)
      BY <1>4 DEF Due
    <3>2. Due(c, e)' <=> /\ e \in (since[c] + 1) .. end
                         /\ e \notin missed[c] \cup ((at + 1) .. end) /\ Wanted(c, e)'
      BY <1>1, <1>12 DEF Due
    <3>3. e \in (since[c] + 1) .. end => e \in Entries
      BY <1>3, <1>4, <2>1 DEF Entries
    <3>4. /\ e \in (since[c] + 1) .. at => e \in (since[c] + 1) .. end /\ e \notin (at + 1) .. end
          /\ e \in (since[c] + 1) .. end /\ e \notin (at + 1) .. end => e \in (since[c] + 1) .. at
      BY <1>3, <1>4, <2>1
    <3>5. e \in (since[c] + 1) .. end => (Wanted(c, e)' <=> Wanted(c, e))
      BY <3>3, <1>12, <1>w
    <3> QED BY <3>1, <3>2, <3>4, <3>5
  <2>3. \A k \in DOMAIN got[c] : got[c][k] \in Nat
    BY <1>4 DEF Entries
  <2> QED BY <1>1, <1>2, <2>2, <2>3 DEF SentOk
<1>13. CASE /\ follow' = [follow EXCEPT ![c] = row]
            /\ missed' = [missed EXCEPT ![c] = missed[c] \cup ((at + 1) .. (next - 1))]
  <2>1. follow'[c] = row /\ missed'[c] = missed[c] \cup ((at + 1) .. (next - 1))
    BY <1>13 DEF StreamTypeOK
  <2>2. Behind(c)' = next - 1
    <3>1. Behind(c)' = group'[c].cursor - Len(follow'[c].batch)
      BY DEF Behind
    <3>2. group'[c].cursor = last /\ follow'[c].batch = batch
      BY <2>1, <1>6, <1>7, <1>10
    <3>3. last - (last + 1 - next) = next - 1
      BY <1>3
    <3> QED BY <3>1, <3>2, <3>3, <1>5
  <2>3. StreamOk(c)'
    <3>1. group'[c].cursor <= Len(feed') /\ since'[c] <= Behind(c)'
      BY <1>1, <1>3, <1>4, <1>6, <1>10, <2>2
    <3>2. \A k \in DOMAIN follow'[c].batch : follow'[c].batch[k] = Behind(c)' + k
      BY <1>5, <1>7, <2>1, <2>2
    <3>3. \A e \in missed'[c] : e <= Behind(c)'
      <4>1. \A e \in missed[c] : e <= at /\ e \in Nat
        BY <1>2, <1>4, <1>8 DEF StreamOk, Entries
      <4> QED BY <4>1, <1>3, <2>1, <2>2
    <3>4. follow'[c].pc = "read" /\ since'[c] <= Len(feed')
      BY <1>1, <1>2, <1>7, <2>1 DEF StreamOk
    <3> QED BY <3>1, <3>2, <3>3, <3>4 DEF StreamOk
  <2>4. SentOk(c)'
    BY <1>1, <1>7, <1>12, <2>1, <2>2 DEF AsksSame
  <2> QED BY <1>1, <1>9, <1>11, <2>3, <2>4, ClientStep
<1>14. CASE /\ missed' = [missed EXCEPT ![c] = missed[c] \cup ((at + 1) .. (next - 1))
                                                      \cup (next .. last)]
            /\ follow' = follow
  <2>1. missed'[c] = missed[c] \cup ((at + 1) .. (next - 1)) \cup (next .. last)
    BY <1>14 DEF StreamTypeOK
  <2>2. ((at + 1) .. (next - 1)) \cup (next .. last) = (at + 1) .. last
    BY <1>3
  <2>3. Behind(c)' = last
    BY <1>1, <1>3, <1>6, <1>10, <1>14, FeedKinds DEF Behind
  <2>4. StreamOk(c)'
    <3>1. group'[c].cursor <= Len(feed') /\ since'[c] <= Behind(c)'
      BY <1>1, <1>3, <1>4, <1>6, <1>10, <2>3
    <3>2. \A k \in DOMAIN follow'[c].batch : follow'[c].batch[k] = Behind(c)' + k
      BY <1>1, <1>14
    <3>3. \A e \in missed'[c] : e <= Behind(c)'
      <4>1. \A e \in missed[c] : e <= at /\ e \in Nat
        BY <1>2, <1>4, <1>8 DEF StreamOk, Entries
      <4> QED BY <4>1, <1>3, <2>1, <2>3
    <3>4. follow'[c].pc = "read" /\ since'[c] <= Len(feed')
      BY <1>1, <1>2, <1>14 DEF StreamOk
    <3> QED BY <3>1, <3>2, <3>3, <3>4 DEF StreamOk
  <2>5. SentOk(c)'
    <3>1. missed'[c] = missed[c] \cup ((at + 1) .. last)
      BY <2>1, <2>2
    <3> QED BY <1>1, <1>12, <1>14, <2>3, <3>1 DEF AsksSame
  <2> QED BY <1>1, <1>9, <1>11, <2>4, <2>5, ClientStep
<1> QED BY <1>1, <1>13, <1>14

LEMMA SendStep ==
    ASSUME StreamTypeOK, StreamsSound, NEW c \in Client, SendEntry(c)
    PROVE  StreamTypeOK' /\ StreamsSound'
<1> DEFINE b   == follow[c].batch
           e   == Head(b)
           row == [follow[c] EXCEPT !.batch = Tail(b)]
           new == IF Wanted(c, e) THEN Append(got[c], e) ELSE got[c]
<1>1. /\ b # <<>> /\ follow' = [follow EXCEPT ![c] = row]
      /\ got' = [got EXCEPT ![c] = new]
      /\ UNCHANGED <<feed, oldest, group, since, missed, left>>
  <2>1. got' = IF Wanted(c, e) THEN [got EXCEPT ![c] = Append(got[c], e)] ELSE got
    BY DEF SendEntry
  <2>2. got' = [got EXCEPT ![c] = new]
    BY <2>1 DEF StreamTypeOK
  <2> QED BY <2>2 DEF SendEntry
<1>2. StreamOk(c) /\ SentOk(c)
  BY DEF StreamsSound
<1>3. b \in Seq(Entries) /\ Len(b) \in Nat \ {0} /\ Behind(c) \in Int
  BY <1>1, StreamRows
<1>4. /\ Behind(c) = group[c].cursor - Len(b) /\ follow[c].pc = "read"
      /\ \A k \in 1..Len(b) : b[k] = Behind(c) + k
  BY <1>1, <1>2, <1>3 DEF StreamOk, Behind
<1>5. e = Behind(c) + 1 /\ e \in Entries /\ e \in Nat
  BY <1>3, <1>4 DEF Entries
<1>6. /\ Tail(b) \in Seq(Entries) /\ Len(Tail(b)) = Len(b) - 1
      /\ \A k \in 1..(Len(b) - 1) : Tail(b)[k] = b[k + 1]
  BY <1>1, <1>3
<1>7. /\ row \in Stream /\ row.pc = "read" /\ row.batch = Tail(b)
      /\ row.asked = follow[c].asked /\ row.types = follow[c].types
  BY <1>4, <1>6, StreamRows DEF Stream
<1>8. new \in Seq(Entries) /\ got[c] \in Seq(Entries)
  BY <1>5, StreamRows
<1>n. /\ Wanted(c, e) => new = Append(got[c], e)
      /\ ~Wanted(c, e) => new = got[c]
  OBVIOUS
<1> HIDE DEF row, new, e, b
<1>9. StreamTypeOK'
  BY <1>1, <1>7, <1>8, NoPublish DEF StreamTypeOK
<1>10. /\ follow'[c] = row /\ got'[c] = new
       /\ \A d \in Client \ {c} : follow'[d] = follow[d] /\ got'[d] = got[d]
  BY <1>1 DEF StreamTypeOK
<1>11. Behind(c)' = e /\ since[c] \in Nat /\ since[c] <= Behind(c)
  BY <1>1, <1>2, <1>3, <1>4, <1>5, <1>6, <1>7, <1>10, StreamRows DEF Behind, StreamOk
<1>12. StreamOk(c)'
  <2>1. \A k \in DOMAIN Tail(b) : Tail(b)[k] = e + k
    <3> SUFFICES ASSUME NEW k \in 1..(Len(b) - 1) PROVE Tail(b)[k] = e + k
      BY <1>6, LenProperties
    <3>1. k + 1 \in 1..Len(b) /\ k \in Int
      BY <1>3
    <3>2. Tail(b)[k] = Behind(c) + (k + 1)
      BY <3>1, <1>4, <1>6
    <3> QED BY <3>1, <3>2, <1>3, <1>5
  <2>2. \A m \in missed[c] : m <= e
    BY <1>2, <1>3, <1>5, StreamRows DEF StreamOk, Entries
  <2>3. group'[c].cursor <= Len(feed') /\ since'[c] <= Behind(c)'
    BY <1>1, <1>2, <1>3, <1>5, <1>11 DEF StreamOk
  <2>4. \A k \in DOMAIN follow'[c].batch : follow'[c].batch[k] = Behind(c)' + k
    BY <2>1, <1>7, <1>10, <1>11
  <2>5. \A m \in missed'[c] : m <= Behind(c)'
    BY <2>2, <1>1, <1>11
  <2>6. follow'[c].pc = "read" /\ since'[c] <= Len(feed')
    BY <1>1, <1>2, <1>7, <1>10 DEF StreamOk
  <2> QED BY <2>3, <2>4, <2>5, <2>6 DEF StreamOk
<1>13. e \notin missed[c]
  BY <1>2, <1>3, <1>5, StreamRows DEF StreamOk, Entries
<1>14. \A x \in Nat : Wanted(c, x)' <=> Wanted(c, x)
  BY <1>1, <1>7, <1>10, WantedSame DEF AsksSame
<1>15. \A x \in Nat : Due(c, x)' <=> Due(c, x) \/ (x = e /\ Wanted(c, e))
  BY <1>1, <1>3, <1>5, <1>11, <1>13, <1>14 DEF Due
<1>16. /\ \A k \in DOMAIN got[c] : got[c][k] \in Nat /\ got[c][k] < e /\ Due(c, got[c][k])
       /\ \A x \in Nat : Due(c, x) => \E k \in DOMAIN got[c] : got[c][k] = x
       /\ \A j, k \in DOMAIN got[c] : j < k => got[c][j] < got[c][k]
  <2>1. \A k \in DOMAIN got[c] : got[c][k] \in Nat
    BY <1>8 DEF Entries
  <2>2. \A x \in Nat : Due(c, x) => x < e
    BY <1>3, <1>5 DEF Due
  <2> QED BY <2>1, <2>2, <1>2, <1>4 DEF SentOk
<1>17. SentOk(c)'
  <2>1. CASE Wanted(c, e)
    <3>1. /\ new = Append(got[c], e) /\ Len(got[c]) \in Nat
          /\ DOMAIN new = 1..(Len(got[c]) + 1) /\ DOMAIN got[c] = 1..Len(got[c])
          /\ new[Len(got[c]) + 1] = e
          /\ \A k \in 1..Len(got[c]) : new[k] = got[c][k]
      BY <2>1, <1>8, <1>n
    <3>d. ASSUME NEW x \in Nat PROVE Due(c, x)' <=> Due(c, x) \/ x = e
      BY <2>1, <1>15
    <3>2. ASSUME NEW k \in DOMAIN got'[c] PROVE Due(c, got[c][k])'
      <4>1. PICK x \in Nat : x = got'[c][k] /\ (Due(c, x) \/ x = e)
        BY <1>5, <1>10, <1>16, <3>1
      <4>2. Due(c, x)'
        BY <4>1, <3>d
      <4> QED BY <4>1, <4>2 DEF Due, Wanted, Want
    <3>3. \A x \in Nat : Due(c, x)' => \E k \in DOMAIN new : new[k] = x
      <4> SUFFICES ASSUME NEW x \in Nat, Due(c, x)' PROVE \E k \in DOMAIN new : new[k] = x
        OBVIOUS
      <4>1. CASE x = e
        BY <4>1, <3>1
      <4>2. CASE Due(c, x)
        <5>1. PICK k \in DOMAIN got[c] : got[c][k] = x
          BY <4>2, <1>16
        <5> QED BY <5>1, <3>1
      <4> QED BY <4>1, <4>2, <1>15
    <3>4. \A j, k \in DOMAIN new : j < k => new[j] < new[k]
      BY <3>1, <1>16
    <3> QED BY <3>2, <3>3, <3>4, <1>10 DEF SentOk
  <2>2. CASE ~Wanted(c, e)
    BY <2>2, <1>n, <1>10, <1>15, <1>16 DEF SentOk
  <2> QED BY <2>1, <2>2
<1> QED BY <1>1, <1>9, <1>10, <1>12, <1>17, ClientStep

LEMMA LeaveStep ==
    ASSUME StreamTypeOK, StreamsSound, NEW c \in Client, ClientLeaves(c)
    PROVE  StreamTypeOK' /\ StreamsSound'
<1> DEFINE row == [follow[c] EXCEPT !.away = TRUE]
<1>1. /\ row \in Stream /\ row.pc = follow[c].pc /\ row.batch = follow[c].batch
      /\ row.asked = follow[c].asked /\ row.types = follow[c].types
  BY StreamRows DEF Stream
<1>2. /\ follow' = [follow EXCEPT ![c] = row]
      /\ UNCHANGED <<feed, oldest, group, got, since, missed, left>>
  BY DEF ClientLeaves
<1> HIDE DEF row
<1>3. StreamTypeOK'
  BY <1>1, <1>2, NoPublish DEF StreamTypeOK
<1>4. follow'[c] = row /\ \A d \in Client \ {c} : follow'[d] = follow[d]
  BY <1>2 DEF StreamTypeOK
<1>5. StreamOk(c) /\ SentOk(c)
  BY DEF StreamsSound
<1>w. \A e : Wanted(c, e)' <=> Wanted(c, e)
  BY <1>1, <1>2, <1>4, WantedSame DEF AsksSame
<1>b. Behind(c)' = Behind(c)
  BY <1>1, <1>2, <1>4 DEF Behind
<1>d. \A e : Due(c, e)' <=> Due(c, e)
  BY <1>2, <1>b, <1>w DEF Due
<1>6. StreamOk(c)' /\ SentOk(c)'
  BY <1>1, <1>2, <1>4, <1>5, <1>b, <1>d DEF StreamOk, SentOk
<1> QED BY <1>2, <1>3, <1>4, <1>6, ClientStep

\* A stream that ends, or never starts, is forgotten.
LEMMA StreamEndsStep ==
    ASSUME StreamTypeOK, StreamsSound, NEW c \in Client, StreamEnds(c) \/ JoinFails(c)
    PROVE  StreamTypeOK' /\ StreamsSound'
<1>1. /\ follow' = [follow EXCEPT ![c] = NoFollow]
      /\ group' = [group EXCEPT ![c] = NoGroup]
      /\ got' = [got EXCEPT ![c] = <<>>]
      /\ since' = [since EXCEPT ![c] = 0]
      /\ missed' = [missed EXCEPT ![c] = {}]
      /\ UNCHANGED <<feed, oldest>>
  BY DEF StreamEnds, JoinFails, Forgotten
<1>2. left' \in BOOLEAN
  BY DEF StreamEnds, JoinFails, StreamTypeOK
<1>3. StreamTypeOK'
  BY <1>1, <1>2, FeedKinds, NoPublish DEF StreamTypeOK
<1>4. /\ follow'[c] = NoFollow /\ group'[c] = NoGroup /\ got'[c] = <<>> /\ since'[c] = 0
      /\ missed'[c] = {}
  BY <1>1 DEF StreamTypeOK
<1>5. \A d \in Client \ {c} :
        /\ follow'[d] = follow[d] /\ group'[d] = group[d] /\ got'[d] = got[d]
        /\ since'[d] = since[d] /\ missed'[d] = missed[d]
  BY <1>1 DEF StreamTypeOK
<1>6. StreamOk(c)' /\ SentOk(c)'
  <2>1. Behind(c)' = 0 /\ Len(feed) \in Nat
    <3>1. Len(follow'[c].batch) = 0 /\ group'[c].cursor = 0
      BY <1>4, FeedKinds, Zenon
    <3>2. Behind(c)' = 0
      BY <3>1 DEF Behind
    <3> QED BY <3>2 DEF StreamTypeOK
  <2> QED BY <1>1, <1>4, <2>1, FeedKinds DEF StreamOk, SentOk
<1> QED BY <1>1, <1>3, <1>5, <1>6, ClientStep

LEMMA DeathOfStreams ==
    ASSUME StreamTypeOK, ProcessDies PROVE StreamTypeOK' /\ StreamsSound'
<1>1. /\ follow' = [c \in Client |-> NoFollow] /\ group' = [c \in Client |-> NoGroup]
      /\ got' = [c \in Client |-> <<>>] /\ since' = [c \in Client |-> 0]
      /\ missed' = [c \in Client |-> {}]
      /\ UNCHANGED <<feed, oldest>>
      /\ left' = (left \/ \E c \in Client : group[c].here)
  BY DEF ProcessDies
<1>2. StreamTypeOK'
  <2>1. left' \in BOOLEAN
    BY <1>1
  <2> QED BY <1>1, <2>1, FeedKinds, NoPublish DEF StreamTypeOK
<1>3. StreamsSound'
  <2> SUFFICES ASSUME NEW c \in Client PROVE StreamOk(c)' /\ SentOk(c)'
    BY DEF StreamsSound
  <2>1. Behind(c)' = 0 /\ Len(feed) \in Nat
    BY <1>1, FeedKinds DEF Behind, StreamTypeOK
  <2> QED BY <1>1, <2>1, FeedKinds DEF StreamOk, SentOk
<1> QED BY <1>2, <1>3

-----------------------------------------------------------------------------
(* The sites.                                                              *)

\* A step of site s.
LEMMA SiteStep ==
    ASSUME SitesSound, NEW s \in Site, SiteOk(s)',
           \A o \in Site \ {s} :
             post'[o] = post[o] /\ samples'[o] = samples[o] /\ told'[o] = told[o]
    PROVE  SitesSound'
BY DEF SitesSound, SiteOk

LEMMA SiteRows ==
    ASSUME SiteTypeOK, NEW s \in Site
    PROVE  /\ post[s] \in PostRow0 /\ told[s] \in ToldRow /\ samples[s] \in Nat
           /\ told[s].ok \in Nat /\ told[s].other \in Nat
BY DEF SiteTypeOK, ToldRow

LEMMA PostStep ==
    ASSUME SiteTypeOK, SitesSound, NEW s \in Site,
           PostStarts(s) \/ PostRow(s) \/ PostEntry(s) \/ PostAnswer(s)
    PROVE  SiteTypeOK' /\ SitesSound'
<1>k. SiteOk(s)
  BY DEF SitesSound
<1>r. /\ post[s] \in PostRow0 /\ told[s] \in ToldRow /\ samples[s] \in Nat
      /\ told[s].ok \in Nat /\ told[s].other \in Nat
  BY SiteRows
<1>1. CASE PostStarts(s)
  <2>1. /\ post' = [post EXCEPT ![s] = [pc |-> "db", db |-> FALSE]]
        /\ post[s].pc = "idle" /\ UNCHANGED <<samples, told>>
    BY <1>1 DEF PostStarts
  <2>2. SiteTypeOK' /\ post'[s] = [pc |-> "db", db |-> FALSE]
    BY <2>1 DEF SiteTypeOK, PostRow0
  <2>3. SiteOk(s)'
    BY <1>k, <2>1, <2>2 DEF SiteOk
  <2> QED BY <2>1, <2>2, <2>3, SiteStep DEF SiteTypeOK
<1>2. CASE PostRow(s)
  <2>1. PICK ok \in BOOLEAN :
          /\ post' = [post EXCEPT ![s] = [pc |-> "bus", db |-> ok]]
          /\ samples' \in {samples, [samples EXCEPT ![s] = samples[s] + 1]}
          /\ ok => samples' = [samples EXCEPT ![s] = samples[s] + 1]
    <3>1. CASE post' = [post EXCEPT ![s] = [pc |-> "bus", db |-> TRUE]]
      BY <1>2, <3>1 DEF PostRow
    <3>2. CASE post' = [post EXCEPT ![s] = [pc |-> "bus", db |-> FALSE]]
      BY <1>2, <3>2 DEF PostRow
    <3> QED BY <1>2, <3>1, <3>2 DEF PostRow
  <2>2. post[s].pc = "db" /\ told' = told
    BY <1>2 DEF PostRow
  <2>3. /\ SiteTypeOK' /\ post'[s] = [pc |-> "bus", db |-> ok]
        /\ samples'[s] \in {samples[s], samples[s] + 1}
        /\ ok => samples'[s] = samples[s] + 1
    BY <2>1, <2>2, <1>r DEF SiteTypeOK, PostRow0
  <2>4. SiteOk(s)'
    BY <1>k, <1>r, <2>2, <2>3 DEF SiteOk
  <2>5. \A o \in Site \ {s} : post'[o] = post[o] /\ samples'[o] = samples[o]
    BY <2>1 DEF SiteTypeOK
  <2> QED BY <2>2, <2>3, <2>4, <2>5, SiteStep
<1>3. CASE PostEntry(s)
  <2> DEFINE row == [post[s] EXCEPT !.pc = "answer"]
  <2>1. row \in PostRow0 /\ row.pc = "answer" /\ row.db = post[s].db
    BY <1>r DEF PostRow0
  <2>2. /\ post' = [post EXCEPT ![s] = row] /\ post[s].pc = "bus"
        /\ UNCHANGED <<samples, told>>
    BY <1>3 DEF PostEntry
  <2> HIDE DEF row
  <2>3. SiteTypeOK' /\ post'[s] = row
    BY <2>1, <2>2 DEF SiteTypeOK
  <2>4. SiteOk(s)'
    BY <1>k, <2>1, <2>2, <2>3 DEF SiteOk
  <2> QED BY <2>2, <2>3, <2>4, SiteStep DEF SiteTypeOK
<1>4. CASE PostAnswer(s)
  <2> DEFINE row == IF post[s].db THEN [told[s] EXCEPT !.ok = told[s].ok + 1]
                    ELSE [told[s] EXCEPT !.other = told[s].other + 1]
  <2>1. /\ row \in ToldRow
        /\ row.ok = IF post[s].db THEN told[s].ok + 1 ELSE told[s].ok
        /\ row.other = IF post[s].db THEN told[s].other ELSE told[s].other + 1
    BY <1>r DEF ToldRow
  <2>2. /\ post' = [post EXCEPT ![s] = [pc |-> "idle", db |-> FALSE]]
        /\ told' = [told EXCEPT ![s] = row] /\ post[s].pc = "answer" /\ samples' = samples
    BY <1>4 DEF PostAnswer
  <2> HIDE DEF row
  <2>3. /\ SiteTypeOK' /\ post'[s] = [pc |-> "idle", db |-> FALSE] /\ told'[s] = row
    BY <2>1, <2>2 DEF SiteTypeOK, PostRow0
  <2>4. SiteOk(s)'
    BY <1>k, <1>r, <2>1, <2>2, <2>3 DEF SiteOk
  <2> QED BY <2>2, <2>3, <2>4, SiteStep DEF SiteTypeOK
<1> QED BY <1>1, <1>2, <1>3, <1>4

LEMMA DeathOfPosts ==
    ASSUME SiteTypeOK, SitesSound, ProcessDies PROVE SiteTypeOK' /\ SitesSound'
<1>1. /\ told' = [s \in Site |-> IF post[s].pc = "idle" THEN told[s]
                                 ELSE [told[s] EXCEPT !.other = told[s].other + 1]]
      /\ post' = [s \in Site |-> [pc |-> "idle", db |-> FALSE]] /\ samples' = samples
  BY DEF ProcessDies
<1>2. \A s \in Site :
        /\ told'[s] \in ToldRow /\ told'[s].ok = told[s].ok
        /\ told'[s].other = IF post[s].pc = "idle" THEN told[s].other ELSE told[s].other + 1
  BY <1>1, SiteRows DEF ToldRow
<1>3. SiteTypeOK'
  BY <1>1, <1>2 DEF SiteTypeOK, PostRow0
<1>4. SitesSound'
  <2> SUFFICES ASSUME NEW s \in Site PROVE SiteOk(s)'
    BY DEF SitesSound
  <2>1. SiteOk(s) /\ post'[s].pc = "idle" /\ samples'[s] = samples[s]
    BY <1>1 DEF SitesSound
  <2> QED BY <2>1, <1>2, SiteRows DEF SiteOk
<1> QED BY <1>3, <1>4

LEMMA FeedStep == FeedIInv /\ [FeedNext]_feedVars => FeedIInv'
<1> SUFFICES ASSUME FeedIInv, [FeedNext]_feedVars PROVE FeedIInv'
  OBVIOUS
<1>t. /\ StreamTypeOK /\ SiteTypeOK /\ breaks \in Nat
      /\ StreamsSound /\ SitesSound
  BY FeedTypeIs DEF FeedIInv
<1>q. ASSUME StreamTypeOK', SiteTypeOK', StreamsSound', SitesSound',
             breaks' = breaks \/ Breaks
      PROVE  FeedIInv'
  <2>1. breaks' \in Nat
    BY <1>q, <1>t DEF Breaks
  <2> QED BY <1>q, <2>1, FeedTypeIs DEF FeedIInv, FeedTypeOK, StreamTypeOK, SiteTypeOK,
             Stream, GroupRow, PostRow0, ToldRow
<1>p. ASSUME FeedGrows, UNCHANGED streams PROVE StreamTypeOK' /\ StreamsSound'
  BY <1>p, <1>t, PublishKeeps
<1>s. ASSUME UNCHANGED sites PROVE SiteTypeOK' /\ SitesSound'
  BY <1>s, <1>t DEF sites, SiteTypeOK, SitesSound, SiteOk
<1>1. CASE PublishOther
  <2>1. FeedGrows
    BY <1>1, <1>t, AddEntryGrows DEF PublishOther
  <2> QED BY <1>1, <2>1, <1>p, <1>s, <1>q DEF PublishOther, streams
<1>2. CASE ProcessDies
  BY <1>2, <1>t, <1>q, DeathOfStreams, DeathOfPosts DEF ProcessDies
<1>3. ASSUME NEW s \in Site, PostStarts(s) \/ PostRow(s) \/ PostEntry(s) \/ PostAnswer(s)
      PROVE  FeedIInv'
  <2>1. s \in Topic
    BY FeedAssumption
  <2>2. FeedGrows
    BY <1>3, <1>t, <2>1, AddEntryGrows, NoPublish
       DEF PostStarts, PostRow, PostEntry, PostAnswer
  <2>3. UNCHANGED streams
    BY <1>3 DEF PostStarts, PostRow, PostEntry, PostAnswer
  <2>4. breaks' = breaks \/ Breaks
    BY <1>3 DEF PostStarts, PostRow, PostEntry, PostAnswer
  <2>5. SiteTypeOK' /\ SitesSound'
    BY <1>3, <1>t, PostStep
  <2> QED BY <2>2, <2>3, <2>4, <2>5, <1>p, <1>q DEF streams
<1>4. ASSUME NEW c \in Client,
             \/ \E A \in SUBSET Filter, types \in BOOLEAN : Follow(c, A, types)
             \/ ChargerLive(c) \/ SessionLive(c) \/ Respond(c) \/ Join(c)
             \/ SendEntry(c) \/ ClientLeaves(c)
      PROVE  FeedIInv'
  <2>1. UNCHANGED sites /\ breaks' = breaks
    BY <1>4 DEF Follow, ChargerLive, SessionLive, Respond, Join, JoinAt, SendEntry,
                ClientLeaves
  <2>2. ChargerLive(c) \/ SessionLive(c) =>
          \E A \in SUBSET Filter, types \in BOOLEAN : Follow(c, A, types)
    BY DEF ChargerLive, SessionLive
  <2>3. StreamTypeOK' /\ StreamsSound'
    BY <1>4, <2>2, <1>t, FollowStep, RespondStep, JoinStep, SendStep, LeaveStep
  <2> QED BY <2>1, <2>3, <1>s, <1>q
<1>5. ASSUME NEW c \in Client, ReadFeed(c) PROVE FeedIInv'
  <2>1. UNCHANGED sites /\ (breaks' = breaks \/ Breaks)
    BY <1>5 DEF ReadFeed
  <2> QED BY <1>5, <2>1, <1>t, <1>s, <1>q, ReadStep
<1>6. ASSUME NEW c \in Client, StreamEnds(c) \/ JoinFails(c) PROVE FeedIInv'
  <2>1. UNCHANGED sites /\ (breaks' = breaks \/ Breaks)
    BY <1>6 DEF StreamEnds, JoinFails
  <2> QED BY <1>6, <2>1, <1>t, <1>s, <1>q, StreamEndsStep
<1>7. CASE UNCHANGED feedVars
  <2>1. UNCHANGED <<feed, oldest>> /\ UNCHANGED streams /\ UNCHANGED sites
        /\ breaks' = breaks
    BY <1>7 DEF feedVars, streams, sites
  <2> QED BY <2>1, <1>t, <1>p, <1>s, <1>q, NoPublish
<1> QED BY <1>1, <1>2, <1>3, <1>4, <1>5, <1>6, <1>7 DEF FeedNext

LEMMA FeedInvariance == FeedSpec => []FeedIInv
<1>1. FeedIInv /\ [FeedNext]_feedVars => FeedIInv'
  BY FeedStep
<1> QED BY FeedInitIInv, <1>1, PTL DEF FeedSpec

\* The filter that is left of what a client asked for lets through what it can count
\* on, and nothing else.
LEMMA PromisedIsWanted ==
    ASSUME StreamTypeOK, NEW c \in Client, NEW e \in Entries
    PROVE  Promised(c, e) <=> Wanted(c, e)
<1> DEFINE A == follow[c].asked
<1>1. A \subseteq Topic \cup {Unknown} /\ feed[e] \in Topic /\ follow[c].types \in BOOLEAN
  BY StreamRows DEF Stream, Filter, Entries, StreamTypeOK
<1>2. feed[e] # Unknown
  BY <1>1, FeedAssumption
<1>3. CASE follow[c].types
  <2>1. Want(c) = A \ {Unknown}
    BY <1>3 DEF Want
  <2>2. Want(c) = {} <=> A \cap Topic = {}
    BY <1>1, <2>1, FeedAssumption
  <2> QED BY <1>1, <1>2, <1>3, <2>1, <2>2 DEF Promised, Wanted
<1>4. CASE ~follow[c].types
  BY <1>4 DEF Promised, Wanted, Want
<1> QED BY <1>3, <1>4

\* A client gets every entry it can count on from the moment it was answered, once
\* and in order and nothing else, but for what was published while its group was
\* being created, what Redis trimmed and what a lost answer took; and every snapshot
\* that was answered with ok has a row, for any number of clients, sites and entries
\* (events.py:46-119, bus.py:49-156, ems.py:95-169).
THEOREM FeedIsSound == FeedSpec => []FeedSound
<1>1. FeedIInv => FeedSound
  <2> SUFFICES ASSUME FeedIInv PROVE FeedSound
    OBVIOUS
  <2>t. StreamTypeOK /\ SiteTypeOK
    BY FeedTypeIs DEF FeedIInv
  <2>1. ASSUME NEW c \in Client, follow[c].pc = "read"
        PROVE  /\ {got[c][k] : k \in DOMAIN got[c]} =
                    {e \in DoneWith(c) \ missed[c] : Promised(c, e)}
               /\ \A j, k \in DOMAIN got[c] : j < k => got[c][j] < got[c][k]
    <3>1. StreamOk(c) /\ SentOk(c)
      BY DEF FeedIInv, StreamsSound
    <3>2. DoneWith(c) = (since[c] + 1) .. Behind(c)
      <4>1. CASE follow[c].batch = <<>>
        BY <4>1, <2>t, StreamRows, FeedKinds DEF DoneWith, Behind
      <4>2. CASE follow[c].batch # <<>>
        <5>1. Head(follow[c].batch) = Behind(c) + 1
          BY <4>2, <3>1, <2>t, StreamRows DEF StreamOk
        <5> QED BY <4>2, <5>1, <2>t, StreamRows DEF DoneWith
      <4> QED BY <4>1, <4>2
    <3>e. DoneWith(c) \subseteq Entries
      BY <3>1, <3>2, <2>t, StreamRows DEF StreamOk, Behind, Entries
    <3>p. \A e \in DoneWith(c) : Promised(c, e) <=> Wanted(c, e)
      BY <3>e, <2>t, PromisedIsWanted
    <3>3. \A e : e \in {x \in DoneWith(c) \ missed[c] : Promised(c, x)} <=> Due(c, e)
      BY <3>2, <3>p DEF Due
    <3>4. \A e : Due(c, e) => e \in Nat
      BY <2>t, StreamRows DEF Due
    <3>5. /\ \A k \in DOMAIN got[c] : Due(c, got[c][k])
          /\ \A e \in Nat : Due(c, e) => \E k \in DOMAIN got[c] : got[c][k] = e
          /\ \A j, k \in DOMAIN got[c] : j < k => got[c][j] < got[c][k]
      BY <2>1, <3>1 DEF SentOk
    <3> QED BY <3>3, <3>4, <3>5
  <2>2. ASSUME NEW s \in Site
        PROVE  LET under == IF post[s].pc \in {"bus", "answer"} THEN 1 ELSE 0
               IN  /\ told[s].ok <= samples[s]
                   /\ samples[s] <= told[s].ok + told[s].other + under
    <3>1. SiteOk(s)
      BY DEF FeedIInv, SitesSound
    <3> QED BY <3>1, <2>t, SiteRows DEF SiteOk
  <2> QED BY <2>1, <2>2 DEF FeedSound
<1> QED BY FeedInvariance, <1>1, PTL

-----------------------------------------------------------------------------
(* The four together.                                                      *)

\* Whichever of them moves, every row, hash, stream, step and history variable is
\* of its kind (charger_commands.py:182-300, accounts.py:86-262,
\* stale_sessions.py:26-145, events.py:46-109).
THEOREM ServicesTypeCorrect == ServicesSpec => []ServicesTypeOK
<1> DEFINE I == FleetIInv /\ DriversIInv /\ CloserIInv /\ FeedIInv
<1>1. ServicesInit => I
  BY FleetInitIInv, DriversInitIInv, CloserInitIInv, FeedInitIInv DEF ServicesInit
<1>2. I /\ [ServicesNext]_services => I'
  <2>1. [ServicesNext]_services => /\ [FleetNext]_fleetVars /\ [DriverNext]_driverVars
                                   /\ [CloserNext]_closerVars /\ [FeedNext]_feedVars
    BY DEF ServicesNext, services, Resting
  <2> QED BY <2>1, FleetStep, DriversStep, CloserStep, FeedStep
<1>3. I => ServicesTypeOK
  BY DEF FleetIInv, DriversIInv, CloserIInv, FeedIInv, ServicesTypeOK
<1> QED BY <1>1, <1>2, <1>3, PTL DEF ServicesSpec

\* Whichever of them moves, what was shown of each of the four holds
\* (charger_commands.py:182-300, accounts.py:86-262, stale_sessions.py:26-145,
\* events.py:46-109).
THEOREM ServicesAreSound ==
  ServicesSpec => [](FleetSound /\ RidesOwned /\ CloserSound /\ FeedSound)
<1>1. ServicesInit => FleetInit /\ DriverInit /\ CloserInit /\ FeedInit
  BY DEF ServicesInit
<1>2. [ServicesNext]_services => /\ [FleetNext]_fleetVars /\ [DriverNext]_driverVars
                                 /\ [CloserNext]_closerVars /\ [FeedNext]_feedVars
  BY DEF ServicesNext, services, Resting
<1>3. ServicesSpec => FleetSpec /\ DriverSpec /\ CloserSpec /\ FeedSpec
  BY <1>1, <1>2, PTL DEF ServicesSpec, FleetSpec, DriverSpec, CloserSpec, FeedSpec
<1> QED BY <1>3, FleetIsSound, RidesKeepOwners, CloserIsSound, FeedIsSound, PTL
=============================================================================
