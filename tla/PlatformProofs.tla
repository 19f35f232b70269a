--------------------------- MODULE PlatformProofs ---------------------------
(***************************************************************************)
(* Proofs about the services around charging: Settings, Pricing,           *)
(* LoginCodes, SetupWizard, Pki, Backups and Profiles, for any number of   *)
(* requests, settings, prices, codes, steps, certificates, records,        *)
(* crashes and registrations.                                              *)
(***************************************************************************)
EXTENDS MCPlatform, Integers, FiniteSetTheorems, SequenceTheorems,
        WellFoundedInduction, TLAPS

-----------------------------------------------------------------------------
(* The settings cache.  What a request is about to cache is the row, or a  *)
(* write came in between.                                                  *)

CachingSound ==
    \A r \in Reader : reader[r].pc \in {"fill", "refresh"} => reader[r].val = row \/ raced

\* An update has something to put.
UpdatesSound == \A r \in Reader : reader[r].update => reader[r].sent # Defaults

SettingsIInv == SettingsTypeOK /\ UpdatesSound /\ CachingSound /\ SettingCacheFresh

LEMMA SettingsInitIInv == SettingsInit => SettingsIInv
<1> SUFFICES ASSUME SettingsInit PROVE SettingsIInv
  OBVIOUS
<1>1. Defaults \in Value
  BY DEF Defaults, Value
<1>2. NoReader \in ReaderStep
  BY <1>1 DEF NoReader, ReaderStep
<1> QED
  BY <1>1, <1>2 DEF SettingsInit, SettingsIInv, SettingsTypeOK, CachingSound,
     UpdatesSound, SettingCacheFresh, NoReader

\* What a request has when it was answered: nothing more to do, or the value to put.
LEMMA GotType ==
  ASSUME NEW k \in ReaderStep, NEW v \in Value, k.update => k.sent # Defaults
  PROVE  Got(k, v) \in ReaderStep /\ Got(k, v).pc \in {"idle", "put"}
<1>1. Defaults \in Value /\ NoReader \in ReaderStep /\ NoReader.pc = "idle"
  BY DEF Defaults, Value, NoReader, ReaderStep
<1>2. CASE ~k.update
  BY <1>1, <1>2 DEF Got
<1>3. CASE k.update
  <2>1. k.sent \in [secret : Secret \cup {Mask}, plain : Plain]
    BY <1>3 DEF ReaderStep
  <2>2. Merge(v, k.sent) \in Value
    BY <2>1 DEF Merge, Value
  <2> QED BY <1>3, <2>2 DEF Got, ReaderStep
<1> QED BY <1>2, <1>3

\* A step that writes neither the row nor the entry, after which the request of r
\* is k: it may not begin to cache what is not the row.
LEMMA ReaderStepIInv ==
  ASSUME SettingsIInv, NEW r \in Reader, NEW k \in ReaderStep,
         reader' = [reader EXCEPT ![r] = k],
         UNCHANGED <<row, entry, raced>>, updates' \in Nat,
         k.update => k.sent # Defaults,
         k.pc # "refresh", reader[r].pc # "refresh",
         k.pc = "fill" => k.val = row
  PROVE  SettingsIInv'
<1> USE DEF SettingsIInv
<1>1. SettingsTypeOK'
  BY DEF SettingsTypeOK
<1>2. UpdatesSound' /\ CachingSound'
  BY DEF UpdatesSound, CachingSound, SettingsTypeOK
<1>3. \A q \in Reader : reader[q].pc = "refresh" => reader'[q].pc = "refresh"
  BY DEF SettingsTypeOK
<1>4. SettingCacheFresh'
  BY <1>3 DEF SettingCacheFresh
<1> QED BY <1>1, <1>2, <1>4

LEMMA AskForIInv ==
  ASSUME SettingsIInv, NEW r \in Reader, NEW k \in ReaderStep, AskFor(r, k),
         reader[r].pc = "idle", UNCHANGED <<row, entry, raced>>, updates' \in Nat,
         k.update => k.sent # Defaults
  PROVE  SettingsIInv'
<1>1. CASE entry.fresh
  <2>1. Got(k, entry.val) \in ReaderStep /\ Got(k, entry.val).pc \in {"idle", "put"}
    BY GotType DEF SettingsIInv, SettingsTypeOK
  <2>2. Got(k, entry.val).update => Got(k, entry.val).sent # Defaults
    BY DEF Got, NoReader, ReaderStep
  <2> QED
    BY <1>1, <2>1, <2>2, ReaderStepIInv DEF AskFor
<1>2. CASE ~entry.fresh
  <2>1. [k EXCEPT !.pc = "load"] \in ReaderStep
    BY DEF ReaderStep
  <2>2. /\ [k EXCEPT !.pc = "load"].pc = "load"
        /\ [k EXCEPT !.pc = "load"].update = k.update
        /\ [k EXCEPT !.pc = "load"].sent = k.sent
    BY DEF ReaderStep
  <2> QED
    BY <1>2, <2>1, <2>2, ReaderStepIInv DEF AskFor
<1> QED BY <1>1, <1>2

LEMMA SettingsNextIInv == SettingsIInv /\ [SettingsNext]_settingsVars => SettingsIInv'
<1> SUFFICES ASSUME SettingsIInv, [SettingsNext]_settingsVars PROVE SettingsIInv'
  OBVIOUS
<1> USE SettingsAssumption
<1>0. /\ SettingsTypeOK /\ UpdatesSound /\ CachingSound /\ SettingCacheFresh
      /\ Defaults \in Value /\ NoReader \in ReaderStep /\ NoReader.pc = "idle"
      /\ NoReader.update = FALSE
  BY DEF SettingsIInv, Defaults, Value, NoReader, ReaderStep
<1>1. ASSUME NEW r \in Reader, GetSetting(r) PROVE SettingsIInv'
  BY <1>0, <1>1, AskForIInv DEF GetSetting, SettingsTypeOK
<1>2. ASSUME NEW r \in Reader, GetAll(r) PROVE SettingsIInv'
  <2> DEFINE k == [NoReader EXCEPT !.pc = "fill", !.val = row]
  <2>1. k \in ReaderStep /\ k.pc = "fill" /\ k.val = row /\ ~k.update
    BY <1>0 DEF NoReader, ReaderStep, SettingsTypeOK
  <2>2. reader' = [reader EXCEPT ![r] = k]
    BY <1>2 DEF GetAll
  <2> HIDE DEF k
  <2> QED BY <1>0, <1>2, <2>1, <2>2, ReaderStepIInv DEF GetAll, SettingsTypeOK
<1>3. ASSUME NEW r \in Reader, reader[r].pc = "load", NEW v \in Value,
             reader' = [reader EXCEPT ![r] = Got(@, v)],
             UNCHANGED <<row, entry, raced, updates>>
      PROVE  SettingsIInv'
  <2> DEFINE k == Got(reader[r], v)
  <2>1. k \in ReaderStep /\ k.pc \in {"idle", "put"}
    BY <1>0, GotType DEF UpdatesSound, SettingsTypeOK
  <2>2. k.update => k.sent # Defaults
    BY <1>0 DEF Got, NoReader, ReaderStep, UpdatesSound, SettingsTypeOK
  <2>3. reader' = [reader EXCEPT ![r] = k]
    BY <1>3
  <2> HIDE DEF k
  <2> QED BY <1>0, <1>3, <2>1, <2>2, <2>3, ReaderStepIInv DEF SettingsTypeOK
<1>4. ASSUME NEW r \in Reader, Load(r) PROVE SettingsIInv'
  <2>1. CASE row = Defaults
    BY <1>0, <1>3, <1>4, <2>1 DEF Load
  <2>2. CASE row # Defaults
    <3> DEFINE k == [reader[r] EXCEPT !.pc = "fill", !.val = row]
    <3>1. k \in ReaderStep
      BY <1>0 DEF ReaderStep, SettingsTypeOK
    <3>2. k.pc = "fill" /\ k.val = row /\ k.update = reader[r].update /\ k.sent = reader[r].sent
      BY <1>0 DEF ReaderStep, SettingsTypeOK
    <3>3. reader' = [reader EXCEPT ![r] = k]
      BY <1>4, <2>2 DEF Load
    <3>4. k.update => k.sent # Defaults
      BY <1>0, <3>2 DEF UpdatesSound
    <3> HIDE DEF k
    <3> QED BY <1>0, <1>4, <3>1, <3>2, <3>3, <3>4, ReaderStepIInv DEF Load, SettingsTypeOK
  <2> QED BY <2>1, <2>2
<1>5. ASSUME NEW r \in Reader, LoadFails(r) PROVE SettingsIInv'
  BY <1>0, <1>3, <1>5 DEF LoadFails
<1>6. ASSUME NEW r \in Reader, Fill(r) PROVE SettingsIInv'
  <2> DEFINE k == Got(reader[r], reader[r].val)
  <2>0. reader[r] \in ReaderStep /\ reader[r].val \in Value
    BY <1>0 DEF SettingsTypeOK, ReaderStep
  <2>1. k \in ReaderStep /\ k.pc \in {"idle", "put"}
    BY <1>0, <2>0, GotType DEF UpdatesSound
  <2>2. k.update => k.sent # Defaults
    BY <1>0, <2>0 DEF Got, NoReader, ReaderStep, UpdatesSound
  <2>3. reader' = [reader EXCEPT ![r] = k] /\ reader[r].pc = "fill"
        /\ entry' = [val |-> reader[r].val, fresh |-> TRUE]
        /\ UNCHANGED <<row, raced, updates>>
    BY <1>6 DEF Fill
  <2> HIDE DEF k
  <2>4. SettingsTypeOK'
    BY <1>0, <2>0, <2>1, <2>3 DEF SettingsTypeOK
  <2>5. UpdatesSound' /\ CachingSound'
    BY <1>0, <2>1, <2>2, <2>3 DEF UpdatesSound, CachingSound, SettingsTypeOK
  <2>6. SettingCacheFresh'
    BY <1>0, <2>3 DEF SettingCacheFresh, CachingSound
  <2> QED BY <2>4, <2>5, <2>6 DEF SettingsIInv
<1>7. ASSUME NEW r \in Reader, PutSetting(r) PROVE SettingsIInv'
  <2> USE <1>7 DEF PutSetting
  <2>0. reader[r] \in ReaderStep /\ reader[r].val \in Value
    BY <1>0 DEF SettingsTypeOK, ReaderStep
  <2>1. [reader[r] EXCEPT !.pc = "refresh"] \in ReaderStep
    BY <2>0 DEF ReaderStep
  <2>2. /\ reader'[r].pc = "refresh" /\ reader'[r].val = row'
        /\ reader'[r].update = reader[r].update /\ reader'[r].sent = reader[r].sent
    BY <1>0, <2>0 DEF SettingsTypeOK, ReaderStep
  <2>3. SettingsTypeOK'
    BY <1>0, <2>0, <2>1 DEF SettingsTypeOK, Caching
  <2>4. UpdatesSound'
    BY <1>0, <2>2 DEF UpdatesSound, SettingsTypeOK
  <2>5. CachingSound'
    BY <1>0, <2>2 DEF CachingSound, Caching, SettingsTypeOK
  <2>6. SettingCacheFresh'
    BY <2>2 DEF SettingCacheFresh
  <2> QED BY <2>3, <2>4, <2>5, <2>6 DEF SettingsIInv
<1>8. ASSUME NEW r \in Reader, Refresh(r) PROVE SettingsIInv'
  <2> USE <1>8 DEF Refresh
  <2>0. reader[r].val \in Value
    BY <1>0 DEF SettingsTypeOK, ReaderStep
  <2>1. SettingsTypeOK'
    BY <1>0, <2>0 DEF SettingsTypeOK
  <2>2. UpdatesSound' /\ CachingSound'
    BY <1>0 DEF UpdatesSound, CachingSound, SettingsTypeOK
  <2>3. SettingCacheFresh'
    BY <1>0 DEF SettingCacheFresh, CachingSound
  <2> QED BY <2>1, <2>2, <2>3 DEF SettingsIInv
<1>9. ASSUME Expire PROVE SettingsIInv'
  <2> USE <1>9 DEF Expire
  <2>1. entry' \in [val : Value, fresh : BOOLEAN] /\ ~entry'.fresh
    BY <1>0 DEF SettingsTypeOK
  <2>2. raced' \in BOOLEAN
    BY DEF Caching
  <2>3. SettingsTypeOK'
    BY <1>0, <2>1, <2>2 DEF SettingsTypeOK
  <2>4. UpdatesSound' /\ CachingSound'
    BY <1>0 DEF UpdatesSound, CachingSound, Caching
  <2>5. SettingCacheFresh'
    BY <2>1 DEF SettingCacheFresh
  <2> QED BY <2>3, <2>4, <2>5 DEF SettingsIInv
<1>10. ASSUME NEW r \in Reader, NEW secret \in Secret \cup {Mask}, NEW plain \in Plain,
              UpdateSetting(r, secret, plain)
       PROVE  SettingsIInv'
  <2> DEFINE new == [secret |-> secret, plain |-> plain]
             k == [NoReader EXCEPT !.update = TRUE, !.sent = new]
  <2>1. new \in [secret : Secret \cup {Mask}, plain : Plain] /\ new # Defaults
    BY DEF Defaults
  <2>2. k \in ReaderStep /\ k.sent = new
    BY <1>0, <2>1 DEF NoReader, ReaderStep
  <2>3. AskFor(r, k) /\ updates' \in Nat
    BY <1>0, <1>10 DEF UpdateSetting, SettingsTypeOK
  <2> HIDE DEF k, new
  <2> QED BY <1>0, <1>10, <2>1, <2>2, <2>3, AskForIInv DEF UpdateSetting
<1>11. CASE UNCHANGED settingsVars
  BY <1>11 DEF settingsVars, SettingsIInv, SettingsTypeOK, UpdatesSound, CachingSound,
     SettingCacheFresh
<1> QED
  BY <1>1, <1>2, <1>4, <1>5, <1>6, <1>7, <1>8, <1>9, <1>10, <1>11 DEF SettingsNext

LEMMA SettingsInvariance == SettingsSpec => []SettingsIInv
<1> QED BY SettingsInitIInv, SettingsNextIInv, PTL DEF SettingsSpec

\* A request that reads a setting from the cache sees the last update, unless the
\* update has still to refresh the entry or another request was about to fill it:
\* for any number of requests, and reads that fail (state/settings.py:21-98,
\* api/settings.py:86-154).
THEOREM SettingsAreFresh == SettingsSpec => []SettingCacheFresh
<1>1. SettingsIInv => SettingCacheFresh
  BY DEF SettingsIInv
<1> QED BY SettingsInvariance, <1>1, PTL

-----------------------------------------------------------------------------
(* The spot price.  What a request has read of the configuration is so, as *)
(* long as the configuration was not written under it.                     *)

QuoteOk(q) ==
    LET k == quote[q]
    IN  /\ k.pc = "price" => k.manual = conf.manual
        /\ k.pc = "fetch" => SpotUrl /\ ~conf.manual
        /\ k.pc \in {"fetch", "keep"} =>
             \/ k.from = "manual" /\ k.price = conf.price
             \/ k.from = "network" /\ SpotUrl /\ ~conf.manual

QuotesSound == late \/ \A q \in Quote : QuoteOk(q)

PricingIInv == PricingTypeOK /\ QuotesSound /\ SpotFresh

LEMMA PricingInitIInv == PricingInit => PricingIInv
<1> SUFFICES ASSUME PricingInit PROVE PricingIInv
  OBVIOUS
<1>1. AnyPrice \in Price
  BY DEF AnyPrice, PricingInit, Conf
<1>2. PricingTypeOK
  BY <1>1 DEF PricingInit, PricingTypeOK, NoQuote, NoManager, QuoteStep, ManagerStep, Conf
<1>3. QuotesSound /\ SpotFresh
  BY DEF PricingInit, QuotesSound, QuoteOk, SpotFresh, NoQuote
<1> QED BY <1>2, <1>3 DEF PricingIInv

\* A step of one request that leaves the cached price alone.
LEMMA QuoteStepIInv ==
  ASSUME PricingIInv, NEW q \in Quote, NEW k \in QuoteStep,
         quote' = [quote EXCEPT ![q] = k],
         UNCHANGED <<conf, spot, manager, late, changes>>,
         late \/ (/\ k.pc = "price" => k.manual = conf.manual
                  /\ k.pc = "fetch" => SpotUrl /\ ~conf.manual
                  /\ k.pc \in {"fetch", "keep"} =>
                       \/ k.from = "manual" /\ k.price = conf.price
                       \/ k.from = "network" /\ SpotUrl /\ ~conf.manual)
  PROVE  PricingIInv'
<1> USE DEF PricingIInv
<1>1. PricingTypeOK'
  BY DEF PricingTypeOK
<1>2. QuotesSound'
  <2>1. \A p \in Quote \ {q} : quote'[p] = quote[p]
    BY DEF PricingTypeOK
  <2>2. quote'[q] = k
    BY DEF PricingTypeOK
  <2> QED BY <2>1, <2>2 DEF QuotesSound, QuoteOk
<1>3. SpotFresh'
  BY DEF SpotFresh
<1> QED BY <1>1, <1>2, <1>3

\* The configuration written under no request leaves every request idle.
LEMMA IdleQuotes ==
  ASSUME ~Busy(Quote)
  PROVE  \A q \in Quote : quote[q].pc \notin {"price", "fetch", "keep"}
BY DEF Busy

LEMMA PricingNextIInv == PricingIInv /\ [PricingNext]_pricingVars => PricingIInv'
<1> SUFFICES ASSUME PricingIInv, [PricingNext]_pricingVars PROVE PricingIInv'
  OBVIOUS
<1> USE PricingAssumption
<1>0. PricingTypeOK /\ QuotesSound /\ SpotFresh
  BY DEF PricingIInv
<1>a. AnyPrice \in Price
  BY <1>0 DEF PricingTypeOK, Conf, AnyPrice
<1>b. NoQuote \in QuoteStep /\ NoQuote.pc = "idle"
      /\ NoManager \in ManagerStep
  BY <1>a DEF NoQuote, QuoteStep, NoManager, ManagerStep, Conf
<1>c. \A q \in Quote : quote[q] \in QuoteStep
  BY <1>0 DEF PricingTypeOK
<1>d. conf \in Conf /\ conf.manual \in BOOLEAN /\ conf.price \in Price
  BY <1>0 DEF PricingTypeOK, Conf
<1>1. ASSUME NEW q \in Quote, GetSpotPrice(q) PROVE PricingIInv'
  <2> DEFINE k == [quote[q] EXCEPT !.pc = "source"]
  <2>1. k \in QuoteStep /\ k.pc = "source"
    BY <1>c DEF QuoteStep
  <2>2. quote' = [quote EXCEPT ![q] = k] /\ UNCHANGED <<conf, spot, manager, late, changes>>
    BY <1>1 DEF GetSpotPrice
  <2> HIDE DEF k
  <2> QED BY <2>1, <2>2, QuoteStepIInv
<1>2. ASSUME NEW q \in Quote, ReadSource(q) PROVE PricingIInv'
  <2> DEFINE k == [quote[q] EXCEPT !.pc = "price", !.manual = conf.manual]
  <2>1. k \in QuoteStep /\ k.pc = "price" /\ k.manual = conf.manual
    BY <1>c, <1>d DEF QuoteStep
  <2>2. quote' = [quote EXCEPT ![q] = k] /\ UNCHANGED <<conf, spot, manager, late, changes>>
    BY <1>0, <1>2 DEF ReadSource, PricingTypeOK
  <2> HIDE DEF k
  <2> QED BY <2>1, <2>2, QuoteStepIInv
<1>3. ASSUME NEW q \in Quote, ReadManual(q) PROVE PricingIInv'
  <2> DEFINE k == [quote[q] EXCEPT !.price = conf.price, !.from = "manual",
                     !.pc = IF SpotUrl /\ ~quote[q].manual THEN "fetch" ELSE "keep"]
  <2>1. k \in QuoteStep /\ k.from = "manual" /\ k.price = conf.price
        /\ (k.pc = "fetch" => SpotUrl /\ ~quote[q].manual) /\ k.pc # "price"
    BY <1>c, <1>d DEF QuoteStep
  <2>2. quote' = [quote EXCEPT ![q] = k] /\ UNCHANGED <<conf, spot, manager, late, changes>>
    BY <1>0, <1>3 DEF ReadManual, PricingTypeOK
  <2>3. late \/ quote[q].manual = conf.manual
    BY <1>0, <1>3 DEF ReadManual, QuotesSound, QuoteOk
  <2> HIDE DEF k
  <2> QED BY <2>1, <2>2, <2>3, QuoteStepIInv
<1>4. ASSUME NEW q \in Quote, Fetch(q) PROVE PricingIInv'
  <2> DEFINE k == [quote[q] EXCEPT !.pc = "keep", !.price = AnyPrice, !.from = "network"]
  <2>1. k \in QuoteStep /\ k.pc = "keep" /\ k.from = "network"
    BY <1>a, <1>c DEF QuoteStep
  <2>2. quote' = [quote EXCEPT ![q] = k] /\ UNCHANGED <<conf, spot, manager, late, changes>>
    BY <1>0, <1>4 DEF Fetch, PricingTypeOK
  <2>3. late \/ (SpotUrl /\ ~conf.manual)
    BY <1>0, <1>4 DEF Fetch, QuotesSound, QuoteOk
  <2> HIDE DEF k
  <2> QED BY <2>1, <2>2, <2>3, QuoteStepIInv
<1>5. ASSUME NEW q \in Quote, FetchFails(q) PROVE PricingIInv'
  <2> DEFINE k == [quote[q] EXCEPT !.pc = "keep"]
  <2>1. k \in QuoteStep /\ k.pc = "keep" /\ k.from = quote[q].from /\ k.price = quote[q].price
    BY <1>c DEF QuoteStep
  <2>2. quote' = [quote EXCEPT ![q] = k] /\ UNCHANGED <<conf, spot, manager, late, changes>>
    BY <1>0, <1>5 DEF FetchFails, PricingTypeOK
  <2>3. \/ late
        \/ quote[q].from = "manual" /\ quote[q].price = conf.price
        \/ quote[q].from = "network" /\ SpotUrl /\ ~conf.manual
    BY <1>0, <1>5 DEF FetchFails, QuotesSound, QuoteOk
  <2> HIDE DEF k
  <2> QED BY <2>1, <2>2, <2>3, QuoteStepIInv
<1>6. ASSUME NEW q \in Quote, Keep(q) PROVE PricingIInv'
  <2> USE <1>6 DEF Keep
  <2>1. PricingTypeOK'
    BY <1>0, <1>b, <1>c DEF PricingTypeOK, QuoteStep
  <2>2. QuotesSound'
    BY <1>0, <1>b DEF QuotesSound, QuoteOk, PricingTypeOK
  <2>3. \/ late
        \/ quote[q].from = "manual" /\ quote[q].price = conf.price
        \/ quote[q].from = "network" /\ SpotUrl /\ ~conf.manual
    BY <1>0 DEF QuotesSound, QuoteOk
  <2>4. SpotFresh'
    BY <2>3 DEF SpotFresh
  <2> QED BY <2>1, <2>2, <2>4 DEF PricingIInv
\* An entry that is gone, by time or by the operator, ends what was late.
<1>7. ASSUME spot' = [spot EXCEPT !.fresh = FALSE], late' = (late /\ Busy(Quote)),
             manager' \in [Manager -> ManagerStep], UNCHANGED <<conf, quote, changes>>
      PROVE  PricingIInv'
  <2> USE <1>7
  <2>1. spot' \in [price : Price, from : {"manual", "network"}, fresh : BOOLEAN]
        /\ ~spot'.fresh
    BY <1>0 DEF PricingTypeOK
  <2>2. late' \in BOOLEAN
    BY DEF Busy
  <2>3. PricingTypeOK'
    BY <1>0, <2>1, <2>2 DEF PricingTypeOK
  <2>4. QuotesSound'
    BY <1>0, IdleQuotes DEF QuotesSound, QuoteOk
  <2> QED BY <2>1, <2>3, <2>4 DEF PricingIInv, SpotFresh
<1>8. ASSUME SpotExpires PROVE PricingIInv'
  BY <1>0, <1>7, <1>8 DEF SpotExpires, PricingTypeOK
<1>9. ASSUME NEW m \in Manager, DropSpot(m) PROVE PricingIInv'
  <2>1. manager' \in [Manager -> ManagerStep]
    BY <1>0, <1>b, <1>9 DEF DropSpot, PricingTypeOK
  <2> QED BY <1>7, <1>9, <2>1 DEF DropSpot
<1>10. ASSUME NEW m \in Manager, NEW first \in {"source", "price"}, NEW to \in Conf,
              NEW both \in BOOLEAN, Change(m, first, to, both)
       PROVE  PricingIInv'
  <2> USE <1>10 DEF Change
  <2>1. [pc |-> first, to |-> to, both |-> both] \in ManagerStep
    BY DEF ManagerStep
  <2>2. PricingTypeOK'
    BY <1>0, <2>1 DEF PricingTypeOK
  <2>3. QuotesSound'
    BY <1>0 DEF QuotesSound, QuoteOk
  <2>4. manager'[m].pc # "idle"
    BY <1>0 DEF PricingTypeOK
  <2>5. SpotFresh'
    BY <2>4 DEF SpotFresh
  <2> QED BY <2>2, <2>3, <2>5 DEF PricingIInv
<1>11. ASSUME NEW m \in Manager, WriteKey(m) PROVE PricingIInv'
  <2> USE <1>11 DEF WriteKey
  <2>0. manager[m] \in ManagerStep /\ manager[m].to \in Conf
    BY <1>0 DEF PricingTypeOK, ManagerStep
  <2>1. conf' \in Conf
    BY <1>d, <2>0 DEF Conf
  <2> DEFINE other == IF manager[m].pc = "source" THEN "price" ELSE "source"
             k == [manager[m] EXCEPT !.pc = IF manager[m].both THEN other ELSE "drop",
                                     !.both = FALSE]
  <2>2. k \in ManagerStep /\ k.pc # "idle"
    BY <2>0 DEF ManagerStep
  <2>3. manager' = [manager EXCEPT ![m] = k]
    BY <1>0 DEF PricingTypeOK
  <2>4. late' \in BOOLEAN /\ UNCHANGED <<spot, quote, changes>>
    BY DEF Busy
  <2> HIDE DEF k
  <2>5. PricingTypeOK'
    <3>1. manager' \in [Manager -> ManagerStep]
      BY <1>0, <2>2, <2>3 DEF PricingTypeOK
    <3> QED BY <1>0, <2>1, <2>4, <3>1 DEF PricingTypeOK
  <2>6. QuotesSound'
    BY IdleQuotes DEF QuotesSound, QuoteOk
  <2>7. manager'[m].pc # "idle"
    BY <1>0, <2>2, <2>3 DEF PricingTypeOK
  <2>8. SpotFresh'
    BY <2>7 DEF SpotFresh
  <2> QED BY <2>5, <2>6, <2>8 DEF PricingIInv
<1>12. ASSUME NEW m \in Manager, ChangeFails(m) PROVE PricingIInv'
  BY <1>0, <1>b, <1>12 DEF ChangeFails, PricingIInv, PricingTypeOK, QuotesSound, SpotFresh
<1>13. CASE UNCHANGED pricingVars
  BY <1>0, <1>13 DEF pricingVars, PricingIInv, PricingTypeOK, QuotesSound, QuoteOk, SpotFresh
<1> QED
  BY <1>1, <1>2, <1>3, <1>4, <1>5, <1>6, <1>8, <1>9, <1>10, <1>11, <1>12, <1>13
     DEF PricingNext

LEMMA PricingInvariance == PricingSpec => []PricingIInv
<1> QED BY PricingInitIInv, PricingNextIInv, PTL DEF PricingSpec

\* A cached price that is still fresh is the operator's, or one of the network
\* while the operator allows it, unless an update was under way, was cut short or
\* overlapped the request that read it (pricing.py:37-268).
THEOREM SpotObeysOperator == PricingSpec => []SpotFresh
<1>1. PricingIInv => SpotFresh
  BY DEF PricingIInv
<1> QED BY PricingInvariance, <1>1, PTL

-----------------------------------------------------------------------------
(* The login codes.  As long as requests do not overlap, one verification  *)
(* is under way at a time, and what it has read is what the key holds.     *)

EntryOk(e) ==
    LET k == attempt[e].key
    IN  attempt[e].pc # "idle" =>
          /\ k.code = sent /\ k.code \in Code /\ k.attempts = misses[sent] + 1
          /\ grants[sent] = 0
          /\ attempt[e].pc = "miss" => k.attempts <= MaxAttempts
          /\ \A d \in Attempt : attempt[d].pc # "idle" => d = e

\* A key holds a code that was sent; so does what a verification has read.
KeysSound ==
    /\ otp # NoKey => otp.code \in 1..sent
    /\ \A e \in Attempt : attempt[e].pc # "idle" => attempt[e].key.code \in 1..sent

\* The code in force was never accepted, and its attempts are the wrong entries.
InForce == otp # NoKey => otp.code = sent /\ grants[sent] = 0 /\ otp.attempts = misses[sent]

CodesCounted ==
    \A c \in Code : /\ c > sent => grants[c] = 0 /\ misses[c] = 0
                    /\ ~mixed => grants[c] <= 1 /\ misses[c] <= MaxAttempts

CodesIInv ==
    /\ CodeTypeOK /\ KeysSound /\ CodesCounted
    /\ ~mixed => InForce /\ \A e \in Attempt : EntryOk(e)

LEMMA CodesInitIInv == CodeInit => CodesIInv
<1> SUFFICES ASSUME CodeInit PROVE CodesIInv
  OBVIOUS
<1> USE CodeAssumption DEF CodeInit
<1>1. NoKey \in Key
  BY DEF NoKey, Key
<1>2. CodeTypeOK
  BY <1>1 DEF CodeTypeOK, NoEntry, Code
<1>3. KeysSound /\ InForce /\ \A e \in Attempt : EntryOk(e)
  BY DEF KeysSound, InForce, EntryOk, NoEntry
<1>4. CodesCounted
  BY DEF CodesCounted, Code, MaxAttempts
<1> QED BY <1>2, <1>3, <1>4 DEF CodesIInv

LEMMA CodesNextIInv == CodesIInv /\ [CodeNext]_codeVars => CodesIInv'
<1> SUFFICES ASSUME CodesIInv, [CodeNext]_codeVars PROVE CodesIInv'
  OBVIOUS
<1> USE CodeAssumption DEF MaxAttempts, Code
<1>0. CodeTypeOK /\ KeysSound /\ CodesCounted
      /\ (~mixed => InForce /\ \A e \in Attempt : EntryOk(e))
  BY DEF CodesIInv
<1>a. /\ NoKey \in Key /\ NoEntry.pc = "idle"
      /\ NoEntry \in [pc : {"idle", "grant", "refuse", "miss"}, key : Key]
      /\ NoKey.code = 0
  BY DEF NoKey, Key, NoEntry
<1>b. \A e \in Attempt : /\ attempt[e].key \in Key /\ attempt[e].key.code \in Code \cup {0}
                         /\ attempt[e].key.attempts \in Nat
  BY <1>0 DEF CodeTypeOK, Key
<1>c. otp.code \in Code \cup {0} /\ otp.attempts \in Nat /\ otp \in Key
  BY <1>0 DEF CodeTypeOK, Key
<1>1. ASSUME SendOtp PROVE CodesIInv'
  <2> USE <1>1 DEF SendOtp
  <2>1. otp' \in Key /\ otp'.code = sent' /\ otp'.attempts = 0 /\ sent' \in Code
    BY <1>0 DEF CodeTypeOK, Key
  <2>2. mixed' \in BOOLEAN
    BY DEF Entering
  <2>3. CodeTypeOK'
    BY <1>0, <2>1, <2>2 DEF CodeTypeOK
  <2>4. KeysSound'
    BY <1>0, <2>1 DEF KeysSound, CodeTypeOK
  <2>5. ~mixed' => ~mixed /\ \A e \in Attempt : attempt[e].pc = "idle"
    BY <1>0 DEF Entering, CodeTypeOK
  <2>6. CodesCounted'
    BY <1>0, <2>5 DEF CodesCounted, CodeTypeOK
  <2>7. InForce'
    BY <1>0, <2>1 DEF InForce, CodesCounted, CodeTypeOK
  <2>8. ~mixed' => \A e \in Attempt : EntryOk(e)'
    BY <2>5 DEF EntryOk
  <2> QED BY <2>3, <2>4, <2>6, <2>7, <2>8 DEF CodesIInv
<1>2. ASSUME OtpExpires PROVE CodesIInv'
  BY <1>0, <1>2, <1>a DEF OtpExpires, CodesIInv, CodeTypeOK, KeysSound, CodesCounted, InForce, EntryOk
<1>3. ASSUME NEW e \in Attempt, NEW right \in BOOLEAN, VerifyOtp(e, right) PROVE CodesIInv'
  <2> DEFINE k == [otp EXCEPT !.attempts = @ + 1]
             a == [key |-> k, pc |-> IF k.attempts > MaxAttempts THEN "refuse"
                                     ELSE IF right THEN "grant" ELSE "miss"]
  <2>1. /\ k \in Key /\ k.code = otp.code /\ k.attempts = otp.attempts + 1
    BY <1>c DEF Key
  <2>2. /\ a \in [pc : {"idle", "grant", "refuse", "miss"}, key : Key]
        /\ a.pc # "idle" /\ a.key = k /\ (a.pc = "miss" => k.attempts <= MaxAttempts)
    BY <1>c, <2>1
  <2>3. attempt' = [attempt EXCEPT ![e] = a] /\ otp # NoKey
        /\ attempt[e].pc = "idle" /\ UNCHANGED <<otp, sent, grants, misses>>
    BY <1>3 DEF VerifyOtp
  <2> HIDE DEF a, k
  <2>4. attempt'[e] = a /\ \A d \in Attempt \ {e} : attempt'[d] = attempt[d]
    BY <1>0, <2>3 DEF CodeTypeOK
  <2>5. mixed' \in BOOLEAN /\ entries' \in Nat
    BY <1>0, <1>3 DEF VerifyOtp, Entering, CodeTypeOK
  <2>6. CodeTypeOK'
    BY <1>0, <2>2, <2>3, <2>5 DEF CodeTypeOK
  <2>7. KeysSound'
    BY <1>0, <2>1, <2>2, <2>3, <2>4 DEF KeysSound
  <2>8. ~mixed' => ~mixed /\ \A d \in Attempt \ {e} : attempt[d].pc = "idle"
    BY <1>0, <1>3 DEF VerifyOtp, Entering, CodeTypeOK
  <2>9. CodesCounted'
    BY <1>0, <2>3, <2>8 DEF CodesCounted
  <2>10. ~mixed' => InForce'
    BY <1>0, <2>3, <2>8 DEF InForce
  <2>11. ~mixed' => EntryOk(e)'
    <3>1. otp.code \in Code
      BY <1>0, <2>3 DEF KeysSound, CodeTypeOK
    <3> QED BY <1>0, <2>1, <2>2, <2>3, <2>4, <2>8, <3>1 DEF EntryOk, InForce
  <2>12. ~mixed' => \A d \in Attempt \ {e} : EntryOk(d)'
    BY <2>4, <2>8 DEF EntryOk
  <2> QED BY <2>6, <2>7, <2>9, <2>10, <2>11, <2>12 DEF CodesIInv
\* The request of e ends.
<1>4. ASSUME NEW e \in Attempt, attempt' = [attempt EXCEPT ![e] = NoEntry]
      PROVE  /\ attempt' \in [Attempt -> [pc : {"idle", "grant", "refuse", "miss"}, key : Key]]
             /\ attempt'[e].pc = "idle"
             /\ \A d \in Attempt \ {e} : attempt'[d] = attempt[d]
  BY <1>0, <1>4, <1>a DEF CodeTypeOK
<1>e. ASSUME NEW e \in Attempt, attempt[e].pc # "idle", ~mixed
      PROVE  \A d \in Attempt \ {e} : attempt[d].pc = "idle"
  BY <1>0, <1>e DEF EntryOk
<1>5. ASSUME NEW e \in Attempt, Grant(e) PROVE CodesIInv'
  <2> USE <1>5 DEF Grant
  <2>1. attempt[e].key.code \in Code /\ attempt[e].key.code \in 1..sent
    BY <1>0 DEF KeysSound, CodeTypeOK
  <2>2. CodeTypeOK'
    BY <1>0, <1>4, <1>a, <2>1 DEF CodeTypeOK
  <2>3. KeysSound'
    BY <1>0, <1>4 DEF KeysSound
  <2>4. ~mixed => attempt[e].key.code = sent /\ grants[sent] = 0
    BY <1>0 DEF EntryOk
  <2>5. CodesCounted'
    <3> SUFFICES ASSUME NEW c \in Code
                 PROVE  /\ c > sent => grants'[c] = 0 /\ misses[c] = 0
                        /\ ~mixed => grants'[c] <= 1 /\ misses[c] <= MaxAttempts
      BY DEF CodesCounted
    <3>1. CASE c = attempt[e].key.code
      <4>1. grants'[c] = grants[c] + 1
        BY <1>0, <3>1 DEF CodeTypeOK
      <4>2. ~(c > sent)
        BY <1>0, <2>1, <3>1 DEF CodeTypeOK
      <4> QED BY <1>0, <2>4, <3>1, <4>1, <4>2 DEF CodesCounted, CodeTypeOK
    <3>2. CASE c # attempt[e].key.code
      BY <1>0, <3>2 DEF CodesCounted, CodeTypeOK
    <3> QED BY <3>1, <3>2
  <2>6. InForce' /\ (~mixed' => \A d \in Attempt : EntryOk(d)')
    BY <1>4, <1>e DEF InForce, EntryOk
  <2> QED BY <2>2, <2>3, <2>5, <2>6 DEF CodesIInv
<1>6. ASSUME NEW e \in Attempt, Refuse(e) PROVE CodesIInv'
  <2> USE <1>6 DEF Refuse
  <2>1. CodeTypeOK' /\ KeysSound' /\ CodesCounted'
    BY <1>0, <1>4, <1>a DEF CodeTypeOK, KeysSound, CodesCounted
  <2>2. InForce' /\ (~mixed' => \A d \in Attempt : EntryOk(d)')
    BY <1>4, <1>e DEF InForce, EntryOk
  <2> QED BY <2>1, <2>2 DEF CodesIInv
<1>7. ASSUME NEW e \in Attempt, Miss(e) PROVE CodesIInv'
  <2> USE <1>7 DEF Miss, KeepKey
  <2>1. attempt[e].key.code \in Code /\ attempt[e].key.code \in 1..sent
    BY <1>0 DEF KeysSound, CodeTypeOK
  <2>2. CodeTypeOK'
    <3>1. otp' \in Key
      BY <1>b
    <3>2. misses' \in [Code -> Nat]
      BY <1>0, <2>1 DEF CodeTypeOK
    <3> QED BY <1>0, <1>4, <3>1, <3>2 DEF CodeTypeOK
  <2>3. KeysSound'
    BY <1>0, <1>4, <2>1 DEF KeysSound
  <2>4. ~mixed => /\ attempt[e].key.code = sent /\ grants[sent] = 0
                  /\ attempt[e].key.attempts = misses[sent] + 1
                  /\ attempt[e].key.attempts <= 5
    BY <1>0 DEF EntryOk
  <2>5. CodesCounted'
    <3> SUFFICES ASSUME NEW c \in Code
                 PROVE  /\ c > sent => grants[c] = 0 /\ misses'[c] = 0
                        /\ ~mixed => grants[c] <= 1 /\ misses'[c] <= 5
      BY DEF CodesCounted
    <3>1. CASE c = attempt[e].key.code
      <4>1. misses'[c] = misses[c] + 1
        BY <1>0, <3>1 DEF CodeTypeOK
      <4>2. ~(c > sent)
        BY <1>0, <3>1, <2>1 DEF CodeTypeOK
      <4> QED BY <1>0, <2>4, <3>1, <4>1, <4>2 DEF CodesCounted, CodeTypeOK
    <3>2. CASE c # attempt[e].key.code
      BY <1>0, <3>2 DEF CodesCounted, CodeTypeOK
    <3> QED BY <3>1, <3>2
  <2>6. ~mixed' => InForce'
    BY <1>0, <2>1, <2>4 DEF InForce, CodeTypeOK
  <2>7. ~mixed' => \A d \in Attempt : EntryOk(d)'
    BY <1>4, <1>e DEF EntryOk
  <2> QED BY <2>2, <2>3, <2>5, <2>6, <2>7 DEF CodesIInv
<1>8. ASSUME NEW e \in Attempt, EntryCut(e) PROVE CodesIInv'
  <2> USE <1>8 DEF EntryCut
  <2>1. CodeTypeOK' /\ KeysSound' /\ CodesCounted'
    BY <1>0, <1>4, <1>a DEF CodeTypeOK, KeysSound, CodesCounted
  <2>2. ~mixed' => InForce' /\ \A d \in Attempt : EntryOk(d)'
    BY <1>0, <1>4, <1>e DEF InForce, EntryOk
  <2> QED BY <2>1, <2>2 DEF CodesIInv
<1>9. CASE UNCHANGED codeVars
  BY <1>0, <1>9 DEF codeVars, CodesIInv, CodeTypeOK, KeysSound, CodesCounted, InForce, EntryOk
<1> QED
  BY <1>1, <1>2, <1>3, <1>5, <1>6, <1>7, <1>8, <1>9 DEF CodeNext

LEMMA CodesInvariance == CodeSpec => []CodesIInv
<1> QED BY CodesInitIInv, CodesNextIInv, PTL DEF CodeSpec

\* A code logs in once, is answered as wrong at most five times, and is not undone
\* by an older one, as long as requests for the number do not overlap: for any
\* number of codes and of requests, which may be cut anywhere
\* (public_auth.py:51-111).
THEOREM CodesAreSpent == CodeSpec => []CodesSpent
<1>1. CodesIInv => CodesSpent
  BY DEF CodesIInv, CodesSpent, CodesCounted, InForce
<1> QED BY CodesInvariance, <1>1, PTL

-----------------------------------------------------------------------------
(* The setup wizard.  A request is at a step of its kind; the data of a    *)
(* flat step is there before its flag; and while there is no administrator *)
(* only requests to create the first one are under way.                    *)

AdminBusy(v) == visit[v].pc # "idle" /\ visit[v].step = "admin"

VisitOk(v) ==
    LET k == visit[v]
    IN  /\ k.pc = "idle" => k = NoVisit
        /\ k.pc = "insert" => k.step = "admin"
        /\ k.pc = "data" => k.step \in Flat
        /\ k.pc = "flag" /\ k.step \in Flat => k.step \in saved \/ k.step = "pki"
        /\ k.pc = "last" => k.step \notin Flat
        /\ AdminBusy(v) => k.mail \in AdminMail
        /\ k.step # "admin" => AdminExists

\* Requests to create the first administrator that do not overlap find none.
FirstAlone ==
    rushed \/ /\ \A v, w \in Visitor : AdminBusy(v) /\ AdminBusy(w) => v = w
              /\ (\E v \in Visitor : AdminBusy(v)) => admins = {}
              /\ \A a, b \in admins : a = b

AdminSaved == AdminExists => "admin" \in saved

SetupIInv ==
    /\ SetupTypeOK /\ (\A v \in Visitor : VisitOk(v))
    /\ FirstAlone /\ AdminSaved /\ FlagHasData /\ AdminFirst

LEMMA SetupInitIInv == SetupInit => SetupIInv
<1> SUFFICES ASSUME SetupInit PROVE SetupIInv
  OBVIOUS
<1> USE SetupAssumption DEF SetupInit
<1>1. NoVisit \in Visit /\ NoVisit.pc = "idle" /\ NoVisit.step = "admin"
  BY DEF NoVisit, Visit, Steps
<1>2. SetupTypeOK
  BY <1>1 DEF SetupTypeOK
<1>3. \A v \in Visitor : VisitOk(v)
  BY <1>1 DEF VisitOk, AdminBusy
<1>4. FirstAlone /\ AdminSaved /\ FlagHasData /\ AdminFirst
  BY <1>1 DEF FirstAlone, AdminBusy, AdminSaved, AdminExists, FlagHasData, AdminFirst
<1> QED BY <1>2, <1>3, <1>4 DEF SetupIInv

LEMMA SetupNextIInv == SetupIInv /\ [SetupNext]_setupVars => SetupIInv'
<1> SUFFICES ASSUME SetupIInv, [SetupNext]_setupVars PROVE SetupIInv'
  OBVIOUS
<1> USE SetupAssumption
<1>0. /\ SetupTypeOK /\ (\A v \in Visitor : VisitOk(v))
      /\ FirstAlone /\ AdminSaved /\ FlagHasData /\ AdminFirst
  BY DEF SetupIInv
<1>a. NoVisit \in Visit /\ NoVisit.pc = "idle" /\ NoVisit.step = "admin"
  BY DEF NoVisit, Visit, Steps
<1>b. \A v \in Visitor : visit[v] \in Visit /\ visit[v].step \in Steps
  BY <1>0 DEF SetupTypeOK, Visit
\* The request of v becomes k, and what is said of it carries over to k; the
\* others' visits are what they were.
<1>c. ASSUME NEW v \in Visitor, NEW k \in Visit, visit' = [visit EXCEPT ![v] = k],
             saved \subseteq saved', admins \subseteq admins'
      PROVE  /\ visit' \in [Visitor -> Visit] /\ visit'[v] = k
             /\ \A w \in Visitor \ {v} : visit'[w] = visit[w] /\ VisitOk(w)'
             /\ \A w \in Visitor \ {v} : AdminBusy(w)' <=> AdminBusy(w)
  <2>1. /\ visit' \in [Visitor -> Visit] /\ visit'[v] = k
        /\ \A w \in Visitor \ {v} : visit'[w] = visit[w]
    BY <1>0, <1>c DEF SetupTypeOK
  <2>2. \A w \in Visitor \ {v} : VisitOk(w)'
    BY <1>0, <1>c, <2>1 DEF VisitOk, AdminBusy, AdminExists
  <2> QED BY <2>1, <2>2 DEF AdminBusy
<1>d. ASSUME NEW v \in Visitor, Leave(v)
      PROVE  visit' = [visit EXCEPT ![v] = NoVisit] /\ NoVisit \in Visit
  BY <1>a, <1>d DEF Leave
<1>e. ASSUME NEW v \in Visitor, NEW pc \in {"idle", "insert", "flag", "data", "last"},
             Goto(v, pc)
      PROVE  /\ visit' = [visit EXCEPT ![v] = [visit[v] EXCEPT !.pc = pc]]
             /\ [visit[v] EXCEPT !.pc = pc] \in Visit
             /\ [visit[v] EXCEPT !.pc = pc].pc = pc
             /\ [visit[v] EXCEPT !.pc = pc].step = visit[v].step
             /\ [visit[v] EXCEPT !.pc = pc].mail = visit[v].mail
  BY <1>b, <1>e DEF Goto, Visit
\* A request that ends, or goes on without writing anything but, maybe, a flag.
<1>f. ASSUME NEW v \in Visitor, NEW k \in Visit, visit' = [visit EXCEPT ![v] = k],
             UNCHANGED <<saved, admins, rushed>>, visits' \in Nat,
             cut \subseteq cut', cut' \subseteq Steps,
             flag' \in [Steps -> {"none", "done", "skipped"}],
             k = NoVisit \/ (/\ k.step = visit[v].step /\ k.mail = visit[v].mail
                             /\ visit[v].pc # "idle" /\ k.pc \in {"flag", "last"}
                             /\ k.pc = "flag" => k.step \notin Flat
                             /\ k.pc = "last" => k.step \notin Flat),
             \A s \in Steps \ {"pki"} : flag'[s] = "done" =>
               \/ s \in saved \/ s \in cut'
               \/ k.pc = "last" /\ k.step = s
               \/ \E w \in Visitor \ {v} : visit[w].pc = "last" /\ visit[w].step = s
      PROVE  SetupIInv'
  <2>1. /\ visit' \in [Visitor -> Visit] /\ visit'[v] = k
        /\ \A w \in Visitor \ {v} : visit'[w] = visit[w] /\ VisitOk(w)'
        /\ \A w \in Visitor \ {v} : AdminBusy(w)' <=> AdminBusy(w)
    BY <1>c, <1>f
  <2>2. SetupTypeOK'
    BY <1>0, <1>f, <2>1 DEF SetupTypeOK
  <2>3. VisitOk(v)'
    <3>1. CASE k = NoVisit
      BY <1>a, <2>1, <3>1 DEF VisitOk, AdminBusy
    <3>2. CASE k # NoVisit
      BY <1>0, <1>f, <2>1, <3>2 DEF VisitOk, AdminBusy, AdminExists
    <3> QED BY <3>1, <3>2
  <2>4. AdminBusy(v)' => AdminBusy(v)
    BY <1>a, <1>f, <2>1 DEF AdminBusy
  <2>5. FirstAlone'
    BY <1>0, <1>f, <2>1, <2>4 DEF FirstAlone
  <2>6. AdminSaved' /\ AdminFirst'
    BY <1>0, <1>f DEF AdminSaved, AdminFirst, AdminExists
  <2>7. FlagHasData'
    BY <1>f, <2>1 DEF FlagHasData
  <2> QED BY <2>1, <2>2, <2>3, <2>5, <2>6, <2>7 DEF SetupIInv
<1>g. \A v \in Visitor : \A s \in Steps \ {"pki"} : flag[s] = "done" /\ visit[v].pc # "last" =>
          \/ s \in saved \/ s \in cut
          \/ \E w \in Visitor \ {v} : visit[w].pc = "last" /\ visit[w].step = s
  BY <1>0 DEF FlagHasData
<1>1. ASSUME NEW v \in Visitor, NEW mail \in AdminMail, SetupAdmin(v, mail) PROVE SetupIInv'
  <2> DEFINE k == [pc |-> "insert", step |-> "admin", mail |-> mail]
  <2>1. k \in Visit /\ k.pc = "insert" /\ k.step = "admin" /\ k.mail = mail
    BY DEF Visit, Steps
  <2>2. /\ visit' = [visit EXCEPT ![v] = k] /\ admins = {} /\ visit[v].pc = "idle"
        /\ UNCHANGED <<flag, saved, admins, cut>>
        /\ visits' \in Nat
    BY <1>0, <1>1 DEF SetupAdmin, NewVisit, AdminExists, SetupTypeOK
  <2> HIDE DEF k
  <2>3. /\ visit' \in [Visitor -> Visit] /\ visit'[v] = k
        /\ \A w \in Visitor \ {v} : visit'[w] = visit[w] /\ VisitOk(w)'
        /\ \A w \in Visitor \ {v} : AdminBusy(w)' <=> AdminBusy(w)
    BY <1>c, <2>1, <2>2
  <2>4. rushed' \in BOOLEAN /\ (~rushed' => ~rushed /\ \A w \in Visitor \ {v} : ~AdminBusy(w))
    BY <1>0, <1>1 DEF SetupAdmin, OnAdmin, AdminBusy, SetupTypeOK
  <2>5. SetupTypeOK'
    BY <1>0, <2>2, <2>3, <2>4 DEF SetupTypeOK
  <2>6. VisitOk(v)'
    BY <2>1, <2>3 DEF VisitOk, AdminBusy
  <2>7. FirstAlone'
    BY <1>0, <2>2, <2>3, <2>4 DEF FirstAlone
  <2>8. AdminSaved' /\ AdminFirst'
    BY <1>0, <2>2 DEF AdminSaved, AdminFirst, AdminExists
  <2>9. FlagHasData'
    BY <1>g, <2>2, <2>3 DEF FlagHasData
  <2> QED BY <2>3, <2>5, <2>6, <2>7, <2>8, <2>9 DEF SetupIInv
<1>2. ASSUME NEW v \in Visitor, NEW s \in Nested \cup Flat, SetupStep(v, s) PROVE SetupIInv'
  <2> DEFINE k == [visit[v] EXCEPT !.step = s, !.pc = IF s \in Nested THEN "flag" ELSE "data"]
  <2>1. /\ k \in Visit /\ k.step = s /\ k.mail = visit[v].mail
        /\ k.pc = IF s \in Nested THEN "flag" ELSE "data"
    BY <1>b DEF Visit, Steps
  <2>b. visit' = [visit EXCEPT ![v] = k]
    BY <1>0, <1>2 DEF SetupStep, SetupTypeOK
  <2>c. UNCHANGED <<flag, saved, admins, rushed, cut>>
    BY <1>2 DEF SetupStep
  <2>d. admins # {} /\ visit[v].pc = "idle" /\ visits' \in Nat
    BY <1>0, <1>2 DEF SetupStep, NewVisit, AdminExists, SetupTypeOK
  <2>2. /\ visit' = [visit EXCEPT ![v] = k] /\ admins # {} /\ visit[v].pc = "idle"
        /\ UNCHANGED <<flag, saved, admins, rushed, cut>>
        /\ visits' \in Nat
    BY <2>b, <2>c, <2>d
  <2>a. s # "admin" /\ (s \in Flat => k.pc = "data")
    BY <2>1
  <2> HIDE DEF k
  <2>3. /\ visit' \in [Visitor -> Visit] /\ visit'[v] = k
        /\ \A w \in Visitor \ {v} : visit'[w] = visit[w] /\ VisitOk(w)'
        /\ \A w \in Visitor \ {v} : AdminBusy(w)' <=> AdminBusy(w)
    BY <1>c, <2>1, <2>2
  <2>4. ~AdminBusy(v)'
    BY <2>1, <2>3, <2>a DEF AdminBusy
  <2>5. SetupTypeOK'
    BY <1>0, <2>2, <2>3 DEF SetupTypeOK
  <2>6. VisitOk(v)'
    BY <2>1, <2>2, <2>3, <2>4, <2>a DEF VisitOk, AdminExists
  <2>7. FirstAlone'
    BY <1>0, <2>2, <2>3, <2>4 DEF FirstAlone
  <2>8. AdminSaved' /\ AdminFirst'
    BY <1>0, <2>2 DEF AdminSaved, AdminFirst, AdminExists
  <2>9. FlagHasData'
    BY <1>g, <2>2, <2>3 DEF FlagHasData
  <2> QED BY <2>3, <2>5, <2>6, <2>7, <2>8, <2>9 DEF SetupIInv
<1>3. ASSUME NEW v \in Visitor, InsertAdmin(v) PROVE SetupIInv'
  <2>1. visit[v].pc = "insert" /\ UNCHANGED <<flag, saved, admins, rushed, cut, visits>>
        /\ (Leave(v) \/ Goto(v, "flag"))
    BY <1>3 DEF InsertAdmin
  <2>2. visit[v].step = "admin"
    BY <1>0, <2>1 DEF VisitOk
  <2>3. CASE Leave(v)
    BY <1>0, <1>d, <1>f, <1>g, <2>1, <2>3 DEF SetupTypeOK
  <2>4. CASE Goto(v, "flag")
    <3> DEFINE k == [visit[v] EXCEPT !.pc = "flag"]
    <3>1. /\ visit' = [visit EXCEPT ![v] = k] /\ k \in Visit /\ k.pc = "flag"
          /\ k.step = visit[v].step /\ k.mail = visit[v].mail
      BY <1>e, <2>4
    <3> HIDE DEF k
    <3>2. k.step \notin Flat /\ visits' \in Nat /\ cut' \subseteq Steps
          /\ flag' \in [Steps -> {"none", "done", "skipped"}]
      BY <1>0, <2>1, <2>2, <3>1 DEF SetupTypeOK
    <3> QED BY <1>f, <1>g, <2>1, <3>1, <3>2
  <2> QED BY <2>1, <2>3, <2>4
<1>4. ASSUME NEW v \in Visitor, SaveData(v) PROVE SetupIInv'
  <2> USE <1>4 DEF SaveData
  <2> DEFINE k == [visit[v] EXCEPT !.pc = "flag"]
  <2>1. /\ visit' = [visit EXCEPT ![v] = k] /\ k \in Visit /\ k.pc = "flag"
        /\ k.step = visit[v].step /\ k.mail = visit[v].mail
    BY <1>e
  <2> HIDE DEF k
  <2>2. visit[v].step \in Flat /\ visit[v].step # "admin" /\ AdminExists
    BY <1>0 DEF VisitOk
  <2>3. saved \subseteq saved' /\ saved' \subseteq Steps
        /\ (visit[v].step \in saved' \/ visit[v].step = "pki")
    BY <1>0, <1>b DEF SetupTypeOK
  <2>4. /\ visit' \in [Visitor -> Visit] /\ visit'[v] = k
        /\ \A w \in Visitor \ {v} : visit'[w] = visit[w] /\ VisitOk(w)'
        /\ \A w \in Visitor \ {v} : AdminBusy(w)' <=> AdminBusy(w)
    BY <1>c, <2>1, <2>3
  <2>5. SetupTypeOK'
    BY <1>0, <2>3, <2>4 DEF SetupTypeOK
  <2>6. VisitOk(v)' /\ ~AdminBusy(v)'
    BY <2>1, <2>2, <2>3, <2>4 DEF VisitOk, AdminBusy, AdminExists
  <2>7. FirstAlone'
    BY <1>0, <2>4, <2>6 DEF FirstAlone
  <2>8. AdminSaved' /\ AdminFirst'
    BY <1>0, <2>2, <2>3 DEF AdminSaved, AdminFirst, AdminExists
  <2>9. FlagHasData'
    BY <1>g, <2>3, <2>4 DEF FlagHasData
  <2> QED BY <2>4, <2>5, <2>6, <2>7, <2>8, <2>9 DEF SetupIInv
<1>5. ASSUME NEW v \in Visitor, SetStepFlag(v) PROVE SetupIInv'
  <2> USE <1>5 DEF SetStepFlag
  <2>1. flag' \in [Steps -> {"none", "done", "skipped"}]
        /\ \A s \in Steps \ {visit[v].step} : flag'[s] = flag[s]
    BY <1>0, <1>b DEF SetupTypeOK
  <2>2. CASE visit[v].step \in Flat
    <3>1. visit[v].step \in saved \/ visit[v].step = "pki"
      BY <1>0, <2>2 DEF VisitOk
    <3> QED BY <1>0, <1>d, <1>f, <1>g, <2>1, <2>2, <3>1 DEF SetupTypeOK
  <2>3. CASE visit[v].step \notin Flat
    <3> DEFINE k == [visit[v] EXCEPT !.pc = "last"]
    <3>1. /\ visit' = [visit EXCEPT ![v] = k] /\ k \in Visit /\ k.pc = "last"
          /\ k.step = visit[v].step /\ k.mail = visit[v].mail
      BY <1>e, <2>3
    <3> HIDE DEF k
    <3>2. \A s \in Steps \ {"pki"} : flag'[s] = "done" =>
             \/ s \in saved \/ s \in cut'
             \/ k.pc = "last" /\ k.step = s
             \/ \E w \in Visitor \ {v} : visit[w].pc = "last" /\ visit[w].step = s
      BY <1>g, <2>1, <3>1
    <3>3. visits' \in Nat /\ cut' \subseteq Steps
      BY <1>0 DEF SetupTypeOK
    <3> QED BY <1>f, <2>1, <2>3, <3>1, <3>2, <3>3
  <2> QED BY <2>2, <2>3
<1>6. ASSUME NEW v \in Visitor, CommitData(v) PROVE SetupIInv'
  <2> USE <1>6 DEF CommitData
  <2>1. visit' = [visit EXCEPT ![v] = NoVisit]
    BY <1>d
  <2>2. /\ saved \subseteq saved' /\ saved' \subseteq Steps /\ visit[v].step \in saved'
        /\ admins \subseteq admins'
    BY <1>0, <1>b DEF SetupTypeOK
  <2>3. /\ visit' \in [Visitor -> Visit] /\ visit'[v] = NoVisit
        /\ \A w \in Visitor \ {v} : visit'[w] = visit[w] /\ VisitOk(w)'
        /\ \A w \in Visitor \ {v} : AdminBusy(w)' <=> AdminBusy(w)
    BY <1>a, <1>c, <2>1, <2>2
  <2>4. VisitOk(v)' /\ ~AdminBusy(v)'
    BY <1>a, <2>3 DEF VisitOk, AdminBusy
  <2>5. visit[v].step = "admin" => visit[v].mail \in AdminMail /\ AdminBusy(v)
    BY <1>0 DEF VisitOk, AdminBusy
  <2>6. SetupTypeOK'
    BY <1>0, <2>2, <2>3, <2>5 DEF SetupTypeOK
  <2>7. FirstAlone'
    <3>1. CASE visit[v].step = "admin"
      <4>a. rushed \/ admins = {}
        BY <1>0, <2>5, <3>1 DEF FirstAlone
      <4>b. admins' = admins \cup {visit[v].mail} /\ (rushed' <=> rushed)
        BY <3>1
      <4>1. rushed \/ admins' = {visit[v].mail}
        BY <4>a, <4>b
      <4>2. rushed \/ \A w \in Visitor : ~AdminBusy(w)'
        BY <1>0, <2>3, <2>4, <2>5, <3>1 DEF FirstAlone
      <4> QED BY <4>1, <4>2 DEF FirstAlone
    <3>2. CASE visit[v].step # "admin"
      BY <1>0, <2>3, <2>4, <3>2 DEF FirstAlone
    <3> QED BY <3>1, <3>2
  <2>8. AdminExists' /\ "admin" \in saved'
    <3>1. CASE visit[v].step = "admin"
      BY <2>2, <3>1 DEF AdminExists
    <3>2. CASE visit[v].step # "admin"
      BY <1>0, <2>2, <3>2 DEF VisitOk, AdminExists, AdminSaved
    <3> QED BY <3>1, <3>2
  <2>9. FlagHasData'
    BY <1>0, <2>2, <2>3 DEF FlagHasData
  <2> QED BY <2>3, <2>4, <2>6, <2>7, <2>8, <2>9 DEF SetupIInv, AdminSaved, AdminFirst
<1>7. ASSUME NEW v \in Visitor, NEW s \in Steps, SkipStep(v, s) PROVE SetupIInv'
  <2> USE <1>7 DEF SkipStep
  <2>1. SetupTypeOK'
    BY <1>0 DEF SetupTypeOK, NewVisit
  <2>2. FlagHasData'
    BY <1>0 DEF FlagHasData, SetupTypeOK
  <2>3. (\A w \in Visitor : VisitOk(w)') /\ FirstAlone' /\ AdminSaved' /\ AdminFirst'
    BY <1>0 DEF VisitOk, AdminBusy, FirstAlone, AdminSaved, AdminFirst, AdminExists
  <2> QED BY <2>1, <2>2, <2>3 DEF SetupIInv
<1>8. ASSUME NEW v \in Visitor, VisitFails(v) PROVE SetupIInv'
  <2>1. cut \subseteq cut' /\ cut' \subseteq Steps
        /\ (visit[v].pc = "last" => visit[v].step \in cut')
    BY <1>0, <1>8, <1>b DEF VisitFails, SetupTypeOK
  <2>2. \A s \in Steps \ {"pki"} : flag[s] = "done" =>
          \/ s \in saved \/ s \in cut'
          \/ \E w \in Visitor \ {v} : visit[w].pc = "last" /\ visit[w].step = s
    BY <1>0, <2>1 DEF FlagHasData
  <2> QED BY <1>0, <1>8, <1>d, <1>f, <2>1, <2>2 DEF VisitFails, SetupTypeOK
<1>9. CASE UNCHANGED setupVars
  BY <1>0, <1>9 DEF setupVars, SetupIInv, SetupTypeOK, VisitOk, AdminBusy, FirstAlone,
     AdminSaved, AdminFirst, AdminExists, FlagHasData
<1> QED
  BY <1>1, <1>2, <1>3, <1>4, <1>5, <1>6, <1>7, <1>8, <1>9 DEF SetupNext

LEMMA SetupInvariance == SetupSpec => []SetupIInv
<1> QED BY SetupInitIInv, SetupNextIInv, PTL DEF SetupSpec

LEMMA AtMostOne == ASSUME NEW S, \A a, b \in S : a = b PROVE Cardinality(S) <= 1
<1>1. CASE S = {}
  BY <1>1, FS_EmptySet
<1>2. CASE S # {}
  <2> PICK a \in S : TRUE
    BY <1>2
  <2>1. S = {a}
    OBVIOUS
  <2> QED BY <2>1, FS_Singleton
<1> QED BY <1>1, <1>2

\* The platform is set up by one administrator and what is shown as done is done,
\* whatever steps are taken, skipped, repeated or cut, and however many visitors
\* the wizard has (admin_setup.py:51-403).
THEOREM SetupIsSound == SetupSpec => []SetupSound
<1>1. SetupIInv => SetupSound
  <2> SUFFICES ASSUME SetupIInv PROVE SetupSound
    OBVIOUS
  <2>1. FlagHasData /\ AdminFirst
    BY DEF SetupIInv
  <2>2. CASE rushed
    BY <2>1, <2>2 DEF SetupSound
  <2>3. CASE ~rushed
    <3>1. \A a, b \in admins : a = b
      BY <2>3 DEF SetupIInv, FirstAlone
    <3>2. Cardinality(admins) <= 1
      BY <3>1, AtMostOne
    <3> QED BY <2>1, <3>2 DEF SetupSound
  <2> QED BY <2>2, <2>3
<1> QED BY SetupInvariance, <1>1, PTL

-----------------------------------------------------------------------------
(* The certificate authority.  The CAs are made in one order, each of them *)
(* once; what a certificate is verified against is never written again.    *)

FilesSound ==
    /\ Present("cpo") => Present("root")
    /\ Present("mo") => Present("cpo")
    /\ Present("user") => Present("mo")
    /\ \A c \in Ca : Present(c) => /\ files[c].crt = files[c].key
                                   /\ files[c].by = files["root"].crt

\* Where the starting process is, the CAs it has passed are there and the ones
\* to come are not.
BootSound ==
    /\ \A c \in Ca :
         boot \in {<<"key", c>>, <<"crt", c>>} =>
           /\ ~Present(c)
           /\ c = "cpo" => Present("root")
           /\ c = "mo" => Present("cpo")
           /\ c = "user" => Present("mo")
           /\ boot = <<"crt", c>> => files[c].key # 0
    /\ boot[1] \in {"key", "crt", "down"} \/ boot = Up
    /\ boot = Up => \A c \in Ca : Present(c)
    /\ \A r \in Req : req[r].pc # "idle" => boot = Up

SignedSound == \A s \in Serial : signed[s] # 0 => \E c \in Ca : files[c].crt = signed[s]

\* A row is of a serial that was signed, and of no request that has yet to
\* record one; the user CA's rows of a platform user are those of a user there is.
RowOk(s) ==
    /\ certs[s].status = "none" => certs[s] = NoCert
    /\ certs[s].status # "none" => signed[s] # 0
    /\ certs[s].kind = "user" => /\ certs[s].via = NoOne
                                 /\ certs[s].holder \in Email
                                 /\ users[certs[s].holder].status # "absent"
    /\ certs[s].via # NoOne => setup[certs[s].via].state # "none"

UserOk(e) ==
    users[e].status = "active" =>
      users[e].serial \in Serial /\ certs[users[e].serial].status # "none"

RowsListed == RevocationsListed /\ (\A s \in Serial : RowOk(s)) /\ (\A e \in Email : UserOk(e))

\* What a request holds is still so: the serial it has yet to record is nobody
\* else's, the rows it is to revoke are there, and the user it read is as it was
\* unless another request for the user was under way.
ReqOk(r) ==
    LET k == req[r]
        e == k.holder
    IN  /\ k.pc = "idle" => k = NoReq
        /\ k.pc = "record" => /\ k.serial \in Serial /\ signed[k.serial] # 0
                              /\ certs[k.serial].status = "none"
                              /\ k.kind # "user"
                              /\ \A q \in Req \ {r} : req[q].pc = "record" =>
                                                        req[q].serial # k.serial
        /\ k.via # NoOne => /\ k.pc \in {"record", "mark"}
                            /\ setup[k.via].state # "none"
                            /\ e = setup[k.via].email
        /\ k.pc = "mark" => /\ k.via # NoOne /\ k.serial \in Serial
                            /\ certs[k.serial].status # "none"
                            /\ certs[k.serial].via = k.via /\ certs[k.serial].holder = e
        /\ k.pc \in {"issue", "revoke"} =>
             /\ e \in Email /\ users[e].status # "absent"
             /\ e \notin torn =>
                  /\ k.pc = "revoke" => users[e].status = "active"
                  /\ k.todo = IF users[e].status = "active" THEN {users[e].serial} ELSE {}
        /\ \A s \in k.todo : certs[s].status # "none"

ReqsSound == \A r \in Req : ReqOk(r)

\* A token of no overlapping or cut request has one request, and one certificate.
TokenOk(t) ==
    /\ setup[t].state = "used" =>
         /\ setup[t].serial \in Serial
         /\ certs[setup[t].serial].status # "none" /\ certs[setup[t].serial].via = t
         /\ certs[setup[t].serial].holder = setup[t].email
    /\ t \notin torn =>
         /\ \A q, r \in InWizard(t) : q = r
         /\ \A s, u \in Serial : certs[s].via = t /\ certs[u].via = t => s = u
         /\ \A s \in Serial : certs[s].via = t =>
              \/ setup[t].state = "used" /\ InWizard(t) = {}
              \/ \E r \in InWizard(t) : req[r].pc = "mark" /\ req[r].serial = s

TokensSound == \A t \in Setup : TokenOk(t)

PkiIInv ==
    /\ TypeOK /\ FilesSound /\ BootSound /\ SignedSound /\ RowsListed
    /\ ReqsSound /\ OnlyCurrentLives /\ TokensSound

LEMMA PkiInitIInv == Init => PkiIInv
<1> SUFFICES ASSUME Init PROVE PkiIInv
  OBVIOUS
<1> USE PkiAssumption DEF Init
<1>1. NoReq \in Request /\ NoReq.pc = "idle" /\ NoReq.via = NoOne /\ NoReq.todo = {}
  BY DEF NoReq, Request
<1>2. NoCert \in Cert /\ NoCert.via = NoOne /\ NoCert.status = "none" /\ NoCert.kind = "none"
  BY DEF NoCert, Cert
<1>3. Down \in Boot /\ Down # Up /\ Down[1] = "down"
      /\ \A c \in Ca : Down # <<"key", c>> /\ Down # <<"crt", c>>
  BY DEF Down, Up, Boot, Ca
<1>4. TypeOK
  BY <1>1, <1>2, <1>3 DEF TypeOK, CaFiles, User, SetupToken
<1>5. FilesSound /\ BootSound /\ SignedSound
  BY <1>1, <1>3 DEF FilesSound, BootSound, SignedSound, Present, Ca
<1>6. RowsListed
  BY <1>2 DEF RowsListed, RevocationsListed, RowOk, UserOk
<1>7. ReqsSound
  BY <1>1 DEF ReqsSound, ReqOk
<1>8. OnlyCurrentLives /\ TokensSound
  BY <1>2, <1>1 DEF OnlyCurrentLives, TokensSound, TokenOk, InWizard
<1> QED BY <1>4, <1>5, <1>6, <1>7, <1>8 DEF PkiIInv

-----------------------------------------------------------------------------
(* The process starts.                                                     *)

LEMMA CaTuples ==
  /\ \A c, d \in Ca : <<"key", c>> = <<"key", d>> => c = d
  /\ \A c, d \in Ca : <<"crt", c>> = <<"crt", d>> => c = d
  /\ \A c, d \in Ca : <<"key", c>> # <<"crt", d>>
  /\ \A c \in Ca : <<"key", c>> \notin {Up, Down} /\ <<"crt", c>> \notin {Up, Down}
  /\ Up # Down /\ Down[1] = "down" /\ {Up, Down} \subseteq Boot
  /\ \A c \in Ca : /\ <<"key", c>> \in Boot /\ <<"key", c>>[1] = "key"
                   /\ <<"crt", c>> \in Boot /\ <<"crt", c>>[1] = "crt"
BY DEF Up, Down, Boot, Ca

\* What the starting process does leaves the database alone.
LEMMA DatabaseKept ==
  ASSUME PkiIInv, UNCHANGED database
  PROVE  RowsListed' /\ ReqsSound' /\ OnlyCurrentLives' /\ TokensSound'
<1> USE DEF PkiIInv, database
<1>1. RowsListed'
  BY DEF RowsListed, RevocationsListed, RowOk, UserOk
<1>2. ReqsSound'
  BY DEF ReqsSound, ReqOk
<1>3. OnlyCurrentLives'
  BY DEF OnlyCurrentLives
<1>4. TokensSound'
  BY DEF TokensSound, TokenOk, InWizard
<1> QED BY <1>1, <1>2, <1>3, <1>4

\* What requests do leaves the files alone.
LEMMA CaKept ==
  ASSUME PkiIInv, UNCHANGED <<files, boot>>, \A r \in Req : req'[r].pc # "idle" => boot = Up
  PROVE  FilesSound' /\ BootSound'
BY DEF PkiIInv, FilesSound, BootSound, Present

LEMMA InitializeIInv == PkiIInv /\ Initialize => PkiIInv'
<1> SUFFICES ASSUME PkiIInv, Initialize PROVE PkiIInv'
  OBVIOUS
<1> USE DEF PkiIInv, Initialize
<1>1. RowsListed' /\ ReqsSound' /\ OnlyCurrentLives' /\ TokensSound'
  BY DatabaseKept
<1>2. boot' \in {Up, <<"key", "user">>, <<"key", "root">>}
      /\ UNCHANGED <<files, signed, req, made, crashes>>
  BY DEF UserCa, database
<1>3. FilesSound' /\ SignedSound'
  BY <1>2 DEF FilesSound, SignedSound, Present
<1>4. /\ boot' = Up => \A c \in Ca : Present(c)
      /\ boot' = <<"key", "user">> => Present("mo") /\ ~Present("user")
      /\ boot' = <<"key", "root">> => ~Present("root")
  BY CaTuples DEF UserCa, FilesSound, Ca
<1>5. \A r \in Req : req[r].pc = "idle"
  BY CaTuples DEF BootSound
<1>6. BootSound'
  BY <1>2, <1>4, <1>5, CaTuples DEF BootSound, Present, Ca
<1>7. TypeOK'
  BY <1>2, CaTuples DEF TypeOK, database, Ca
<1> QED BY <1>1, <1>3, <1>6, <1>7

LEMMA SaveKeyIInv == ASSUME NEW c \in Ca, PkiIInv, SaveKey(c) PROVE PkiIInv'
<1> USE DEF PkiIInv, SaveKey
<1>1. RowsListed' /\ ReqsSound' /\ OnlyCurrentLives' /\ TokensSound'
  BY DatabaseKept
<1>2. ~Present(c) /\ made' \in Nat /\ made' # 0
  BY DEF BootSound, TypeOK
<1>3. files[c] \in CaFiles /\ [files[c] EXCEPT !.key = made'] \in CaFiles
  BY <1>2 DEF TypeOK, CaFiles
<1>4. /\ files' \in [Ca -> CaFiles] /\ files'[c].crt = files[c].crt
      /\ files'[c].key = made' /\ \A d \in Ca \ {c} : files'[d] = files[d]
  BY <1>3 DEF TypeOK, CaFiles
<1>5. TypeOK'
  BY <1>2, <1>4, CaTuples DEF TypeOK, database
<1>6. \A d \in Ca : files'[d].crt = files[d].crt
  BY <1>4
<1>7. FilesSound' /\ SignedSound'
  BY <1>2, <1>4, <1>6 DEF FilesSound, SignedSound, Present, database, Ca
<1>8. BootSound'
  <2>1. \A r \in Req : req'[r].pc = "idle"
    BY CaTuples DEF BootSound, database
  <2> QED BY <1>2, <1>4, <1>6, <2>1, CaTuples DEF BootSound, Present, Ca
<1> QED BY <1>1, <1>5, <1>7, <1>8

LEMMA SaveCertIInv == ASSUME NEW c \in Ca, PkiIInv, SaveCert(c) PROVE PkiIInv'
<1> USE DEF PkiIInv, SaveCert
<1>1. RowsListed' /\ ReqsSound' /\ OnlyCurrentLives' /\ TokensSound'
  BY DatabaseKept
<1>2. /\ ~Present(c) /\ files[c].key # 0
      /\ c = "cpo" => Present("root")
      /\ c = "mo" => Present("cpo")
      /\ c = "user" => Present("mo")
  BY DEF BootSound
<1>3. files[c] \in CaFiles /\ files["root"].key \in Nat
      /\ [files[c] EXCEPT !.crt = files[c].key, !.by = files["root"].key] \in CaFiles
  BY DEF TypeOK, CaFiles, Ca
<1>4. /\ files' \in [Ca -> CaFiles] /\ files'[c].crt = files[c].key
      /\ files'[c].key = files[c].key /\ files'[c].by = files["root"].key
      /\ \A d \in Ca \ {c} : files'[d] = files[d]
  BY <1>3 DEF TypeOK, CaFiles
<1>5. boot' \in {Up, <<"key", "cpo">>, <<"key", "mo">>, <<"key", "user">>}
      /\ UNCHANGED <<signed, req, made, crashes>>
  BY DEF AfterCa, UserCa, database, Ca
<1>6. TypeOK'
  BY <1>4, <1>5, CaTuples DEF TypeOK, database, Ca
<1>7. FilesSound'
  BY <1>2, <1>4 DEF FilesSound, Present, Ca
<1>8. SignedSound'
  <2> SUFFICES ASSUME NEW s \in Serial, signed[s] # 0
               PROVE  \E d \in Ca : files'[d].crt = signed[s]
    BY <1>5 DEF SignedSound
  <2> PICK d \in Ca : files[d].crt = signed[s]
    BY DEF SignedSound
  <2>1. d # c
    BY <1>2 DEF Present
  <2> QED BY <1>4, <2>1
<1>9. BootSound'
  <2>1. \A r \in Req : req'[r].pc = "idle"
    BY <1>5, CaTuples DEF BootSound
  <2>2. \A d \in Ca : Present(d)' <=> Present(d) \/ d = c
    BY <1>2, <1>4 DEF Present
  <2>3. /\ boot' = Up => c = "user" \/ (c = "mo" /\ Present("user"))
        /\ boot' = <<"key", "cpo">> => c = "root"
        /\ boot' = <<"key", "mo">> => c = "cpo"
        /\ boot' = <<"key", "user">> => c = "mo" /\ ~Present("user")
    <3>2. CASE c = "root"
      BY <3>2, CaTuples DEF AfterCa, Ca
    <3>3. CASE c = "cpo"
      BY <3>3, CaTuples DEF AfterCa, Ca
    <3>4. CASE c = "mo"
      <4>1. boot' = IF Present("user") THEN Up ELSE <<"key", "user">>
        BY <3>4 DEF AfterCa, UserCa
      <4> QED BY <3>4, <4>1, CaTuples DEF Ca
    <3>5. CASE c = "user"
      <4>1. boot' = Up
        BY <3>5 DEF AfterCa
      <4> QED BY <3>5, <4>1 DEF Up
    <3> QED BY <3>2, <3>3, <3>4, <3>5 DEF Ca
  <2>4. boot' = Up => \A d \in Ca : Present(d)'
    BY <1>2, <2>2, <2>3 DEF FilesSound, Ca
  <2>5. \A d \in Ca : boot' = <<"key", d>> =>
           /\ ~Present(d)'
           /\ d = "cpo" => Present("root")'
           /\ d = "mo" => Present("cpo")'
           /\ d = "user" => Present("mo")'
    BY <1>2, <1>5, <2>2, <2>3, CaTuples DEF FilesSound, Ca
  <2>6. boot'[1] \in {"key", "crt", "down"} \/ boot' = Up
    BY <1>5, CaTuples DEF Ca
  <2>7. \A d \in Ca : boot' # <<"crt", d>>
    BY <1>5, CaTuples DEF Ca
  <2> QED BY <2>1, <2>4, <2>5, <2>6, <2>7 DEF BootSound
<1> QED BY <1>1, <1>6, <1>7, <1>8, <1>9

-----------------------------------------------------------------------------
(* Requests.  Whatever they do, what is on record stays on record.         *)

Grows ==
    /\ \A s \in Serial : signed[s] # 0 => signed'[s] # 0
    /\ \A s \in Serial : certs[s].status # "none" =>
         /\ certs'[s].status # "none" /\ certs'[s].kind = certs[s].kind
         /\ certs'[s].holder = certs[s].holder /\ certs'[s].via = certs[s].via
    /\ \A t \in Setup : setup[t].state # "none" =>
         setup'[t].state # "none" /\ setup'[t].email = setup[t].email
    /\ \A e \in Email : users[e].status # "absent" => users'[e].status # "absent"
    /\ torn \subseteq torn'

\* A request that takes no step, as long as nobody records its serial, and its
\* user's row is written by no one else, or that is noted.
LEMMA ReqKept ==
  ASSUME PkiIInv, Grows, NEW q \in Req, req'[q] = req[q],
         req[q].pc = "record" =>
           /\ certs'[req[q].serial].status = "none"
           /\ \A p \in Req \ {q} : req'[p].pc = "record" => req'[p].serial # req[q].serial,
         req[q].pc \in {"issue", "revoke"} =>
           req[q].holder \in torn' \/ users'[req[q].holder] = users[req[q].holder]
  PROVE  ReqOk(q)'
<1>1. ReqOk(q) /\ req[q] \in Request
  BY DEF PkiIInv, ReqsSound, TypeOK
<1>2. req[q].via \in Setup \cup {NoOne} /\ req[q].todo \in SUBSET Serial
  BY <1>1 DEF Request
<1>3. /\ req[q].pc = "idle" => req[q] = NoReq
      /\ req[q].via # NoOne => /\ req[q].pc \in {"record", "mark"}
                               /\ setup'[req[q].via].state # "none"
                               /\ req[q].holder = setup'[req[q].via].email
  BY <1>1, <1>2 DEF ReqOk, Grows
<1>4. req[q].pc = "record" =>
        /\ req[q].serial \in Serial /\ signed'[req[q].serial] # 0
        /\ certs'[req[q].serial].status = "none" /\ req[q].kind # "user"
        /\ \A p \in Req \ {q} : req'[p].pc = "record" => req'[p].serial # req[q].serial
  BY <1>1 DEF ReqOk, Grows
<1>5. req[q].pc = "mark" =>
        /\ req[q].via # NoOne /\ req[q].serial \in Serial
        /\ certs'[req[q].serial].status # "none"
        /\ certs'[req[q].serial].via = req[q].via
        /\ certs'[req[q].serial].holder = req[q].holder
  BY <1>1 DEF ReqOk, Grows
<1>6. req[q].pc \in {"issue", "revoke"} =>
        /\ req[q].holder \in Email /\ users'[req[q].holder].status # "absent"
        /\ req[q].holder \notin torn' =>
             /\ req[q].pc = "revoke" => users'[req[q].holder].status = "active"
             /\ req[q].todo = IF users'[req[q].holder].status = "active"
                              THEN {users'[req[q].holder].serial} ELSE {}
  BY <1>1 DEF ReqOk, Grows
<1>7. \A s \in req[q].todo : certs'[s].status # "none"
  BY <1>1, <1>2 DEF ReqOk, Grows
<1> QED BY <1>3, <1>4, <1>5, <1>6, <1>7 DEF ReqOk

\* A row that is not written, or only revoked.
LEMMA RowKept ==
  ASSUME PkiIInv, Grows, NEW s \in Serial,
         certs'[s] = certs[s] \/ (certs[s].status # "none" /\ certs'[s].status # "none")
  PROVE  RowOk(s)'
<1>1. RowOk(s) /\ certs[s] \in Cert
  BY DEF PkiIInv, RowsListed, TypeOK
<1>2. certs[s].via \in Setup \cup {NoOne}
  BY <1>1 DEF Cert
<1>3. certs'[s].kind = certs[s].kind /\ certs'[s].via = certs[s].via
      /\ certs'[s].holder = certs[s].holder
  BY DEF Grows
<1> QED BY <1>1, <1>2, <1>3 DEF RowOk, Grows

LEMMA UserKept ==
  ASSUME PkiIInv, Grows, NEW e \in Email, users'[e] = users[e]
  PROVE  UserOk(e)'
BY DEF PkiIInv, RowsListed, UserOk, Grows

\* A token whose requests and certificates stay.
LEMMA TokenKept ==
  ASSUME PkiIInv, Grows, NEW t \in Setup,
         setup'[t] = setup[t] \/ (setup[t].state = "none" /\ setup'[t].state = "open"),
         \A s \in Serial : certs'[s].via = t <=> certs[s].via = t,
         \A q \in Req : /\ req'[q].via = t <=> req[q].via = t
                        /\ req[q].via = t => req'[q] = req[q]
  PROVE  TokenOk(t)'
<1>1. TokenOk(t)
  BY DEF PkiIInv, TokensSound
<1>2. InWizard(t)' = InWizard(t)
  BY DEF InWizard
<1>3. \A r \in InWizard(t) : r \in Req /\ req'[r] = req[r]
  BY DEF InWizard
<1>4. setup'[t].state = "used" => setup'[t] = setup[t]
  OBVIOUS
<1>5. setup[t].state = "used" => setup'[t] = setup[t]
  OBVIOUS
<1>6. setup'[t].state = "used" =>
         /\ setup'[t].serial \in Serial
         /\ certs'[setup'[t].serial].status # "none" /\ certs'[setup'[t].serial].via = t
         /\ certs'[setup'[t].serial].holder = setup'[t].email
  BY <1>1, <1>4 DEF TokenOk, Grows
<1>7. t \notin torn' =>
         /\ \A q, r \in InWizard(t)' : q = r
         /\ \A s, u \in Serial : certs'[s].via = t /\ certs'[u].via = t => s = u
         /\ \A s \in Serial : certs'[s].via = t =>
              \/ setup'[t].state = "used" /\ InWizard(t)' = {}
              \/ \E r \in InWizard(t)' : req'[r].pc = "mark" /\ req'[r].serial = s
  <2> SUFFICES ASSUME t \notin torn
               PROVE  /\ \A q, r \in InWizard(t)' : q = r
                      /\ \A s, u \in Serial : certs'[s].via = t /\ certs'[u].via = t => s = u
                      /\ \A s \in Serial : certs'[s].via = t =>
                           \/ setup'[t].state = "used" /\ InWizard(t)' = {}
                           \/ \E r \in InWizard(t)' : req'[r].pc = "mark" /\ req'[r].serial = s
    BY DEF Grows
  <2> QED BY <1>1, <1>2, <1>3, <1>5 DEF TokenOk
<1> QED BY <1>6, <1>7 DEF TokenOk

\* The certificates of a user, when none becomes active and the row stays.
LEMMA LivesKept ==
  ASSUME PkiIInv, torn \subseteq torn', NEW e \in Email,
         e \in torn' \/ users'[e] = users[e],
         \A s \in Serial : certs'[s].kind = "user" /\ certs'[s].holder = e
             /\ certs'[s].status = "active" => certs'[s] = certs[s]
  PROVE  e \in torn' \/ \A s \in Serial :
             certs'[s].kind = "user" /\ certs'[s].holder = e /\ certs'[s].status = "active"
                => users'[e] = [status |-> "active", serial |-> s]
BY DEF PkiIInv, OnlyCurrentLives

LEMMA RevokingFacts ==
  ASSUME TypeOK, NEW S \in SUBSET Serial
  PROVE  /\ Revoking(S) \in [Serial -> Cert]
         /\ \A s \in Serial :
              /\ s \notin S => Revoking(S)[s] = certs[s]
              /\ s \in S => Revoking(S)[s].status = "revoked"
              /\ Revoking(S)[s].kind = certs[s].kind
              /\ Revoking(S)[s].holder = certs[s].holder
              /\ Revoking(S)[s].via = certs[s].via
<1>1. \A s \in Serial : certs[s] \in Cert
  BY DEF TypeOK
<1>2. \A s \in Serial : /\ [certs[s] EXCEPT !.status = "revoked"] \in Cert
                        /\ [certs[s] EXCEPT !.status = "revoked"].status = "revoked"
                        /\ [certs[s] EXCEPT !.status = "revoked"].kind = certs[s].kind
                        /\ [certs[s] EXCEPT !.status = "revoked"].holder = certs[s].holder
                        /\ [certs[s] EXCEPT !.status = "revoked"].via = certs[s].via
  BY <1>1 DEF Cert
<1> QED BY <1>1, <1>2 DEF Revoking

\* The revocation of rows there are, with their entries in the list.
LEMMA RevokeRows ==
  ASSUME PkiIInv, NEW S \in SUBSET Serial, \A s \in S : certs[s].status # "none",
         certs' = Revoking(S), revoked' = revoked \cup S
  PROVE  /\ certs' \in [Serial -> Cert] /\ revoked' \subseteq Serial
         /\ \A s \in Serial : /\ s \notin S => certs'[s] = certs[s]
                              /\ s \in S => certs'[s].status = "revoked"
                              /\ certs'[s].kind = certs[s].kind
                              /\ certs'[s].holder = certs[s].holder
                              /\ certs'[s].via = certs[s].via
         /\ \A s \in Serial : certs'[s].status = "none" <=> certs[s].status = "none"
         /\ \A s \in Serial : certs'[s].status = "active" => certs'[s] = certs[s]
         /\ RevocationsListed'
<1>0. TypeOK /\ RevocationsListed /\ revoked \subseteq Serial
  BY DEF PkiIInv, RowsListed, TypeOK
<1>1. /\ certs' \in [Serial -> Cert] /\ revoked' \subseteq Serial
      /\ \A s \in Serial : /\ s \notin S => certs'[s] = certs[s]
                           /\ s \in S => certs'[s].status = "revoked"
                           /\ certs'[s].kind = certs[s].kind
                           /\ certs'[s].holder = certs[s].holder
                           /\ certs'[s].via = certs[s].via
  BY <1>0, RevokingFacts
<1>2. /\ \A s \in Serial : certs'[s].status = "none" <=> certs[s].status = "none"
      /\ \A s \in Serial : certs'[s].status = "active" => certs'[s] = certs[s]
  BY <1>1
<1>3. RevocationsListed'
  BY <1>0, <1>1 DEF RevocationsListed
<1> QED BY <1>1, <1>2, <1>3

-----------------------------------------------------------------------------
(* One lemma per request.                                                  *)

\* What a step of a request r that leaves the files alone owes.
LEMMA RequestIInv ==
  ASSUME PkiIInv, NEW r \in Req, UNCHANGED <<files, boot>>, TypeOK', Grows,
         RevocationsListed',
         \A s \in Serial : RowOk(s)', \A e \in Email : UserOk(e)',
         \A q \in Req : ReqOk(q)',
         \A q \in Req \ {r} : req'[q] = req[q], req'[r].pc # "idle" => boot = Up,
         \A e \in Email : e \in torn' \/
             \A s \in Serial :
               certs'[s].kind = "user" /\ certs'[s].holder = e /\ certs'[s].status = "active"
                 => users'[e] = [status |-> "active", serial |-> s],
         \A t \in Setup : TokenOk(t)',
         \A s \in Serial : signed'[s] = signed[s] \/ \E c \in Ca : files[c].crt = signed'[s]
  PROVE  PkiIInv'
<1>1. \A q \in Req : req'[q].pc # "idle" => boot = Up
  <2> SUFFICES ASSUME NEW q \in Req, req'[q].pc # "idle" PROVE boot = Up
    OBVIOUS
  <2> QED BY DEF PkiIInv, BootSound
<1>2. FilesSound' /\ BootSound'
  BY <1>1, CaKept
<1>3. SignedSound'
  BY DEF PkiIInv, SignedSound
<1>4. OnlyCurrentLives'
  BY DEF OnlyCurrentLives
<1> QED BY <1>2, <1>3, <1>4 DEF PkiIInv, RowsListed, ReqsSound, TokensSound

LEMMA SignFacts ==
  ASSUME PkiIInv, boot = Up, NEW s \in Serial, NEW kind, Sign(s, kind)
  PROVE  /\ signed' \in [Serial -> Nat] /\ signed[s] = 0 /\ signed'[s] # 0
         /\ \A u \in Serial \ {s} : signed'[u] = signed[u]
         /\ \A u \in Serial : signed'[u] = signed[u] \/ \E c \in Ca : files[c].crt = signed'[u]
         /\ certs[s] = NoCert /\ certs[s].status = "none" /\ certs[s].via = NoOne
<1> DEFINE c == Signer(kind)
<1>1. c \in Ca
  BY DEF Signer, Ca
<1>2. signed' = [signed EXCEPT ![s] = files[c].crt] /\ signed[s] = 0
  BY DEF Sign
<1> HIDE DEF c
<1>3. files[c] \in CaFiles /\ files[c].crt # 0 /\ files[c].crt \in Nat
  BY <1>1 DEF PkiIInv, BootSound, Present, TypeOK, CaFiles
<1>4. signed' \in [Serial -> Nat] /\ signed'[s] = files[c].crt
      /\ \A u \in Serial \ {s} : signed'[u] = signed[u]
  BY <1>2, <1>3 DEF PkiIInv, TypeOK
<1>5. certs[s] = NoCert
  BY <1>2 DEF PkiIInv, RowsListed, RowOk
<1> QED BY <1>1, <1>2, <1>3, <1>4, <1>5 DEF NoCert

\* A request that is idle, or becomes so.
LEMMA IdleOk ==
  ASSUME NEW r \in Req, req'[r] = NoReq
  PROVE  ReqOk(r)'
BY DEF ReqOk, NoReq

LEMMA NoReqFacts ==
  /\ NoReq \in Request /\ NoReq.pc = "idle" /\ NoReq.via = NoOne /\ NoReq.todo = {}
  /\ NoReq.kind = "none" /\ NoReq.serial = NoOne /\ NoReq.holder = NoOne
BY DEF NoReq, Request

\* A new request k that writes nothing but, maybe, the file of a serial.
LEMMA BeginIInv ==
  ASSUME PkiIInv, NEW r \in Req, Begin(r), NEW k \in Request, Call(r, k),
         UNCHANGED <<ca, certs, revoked, users, setup, torn>>,
         k.via = NoOne, signed' \in [Serial -> Nat],
         \A s \in Serial : signed[s] # 0 => signed'[s] # 0,
         \A s \in Serial : signed'[s] = signed[s] \/ \E c \in Ca : files[c].crt = signed'[s],
         k.pc = "record" => /\ k.serial \in Serial /\ signed[k.serial] = 0
                            /\ signed'[k.serial] # 0 /\ k.kind # "user",
         k.pc \in {"idle", "record", "issue", "revoke", "account"},
         k.pc # "idle",
         k.pc \in {"issue", "revoke"} =>
             /\ k.holder \in Email /\ users[k.holder].status # "absent"
             /\ k.pc = "revoke" => users[k.holder].status = "active"
             /\ k.todo = IF users[k.holder].status = "active" THEN {users[k.holder].serial} ELSE {},
         \A s \in k.todo : certs[s].status # "none"
  PROVE  PkiIInv'
<1> USE DEF Begin, Call
<1>0. TypeOK /\ RowsListed /\ ReqsSound /\ OnlyCurrentLives /\ TokensSound
  BY DEF PkiIInv
<1>1. req' \in [Req -> Request] /\ req'[r] = k /\ \A q \in Req \ {r} : req'[q] = req[q]
  BY <1>0 DEF TypeOK
<1>2. TypeOK'
  BY <1>0, <1>1 DEF TypeOK, ca
<1>3. Grows
  BY DEF Grows
<1>4. RevocationsListed'
  BY <1>0 DEF RowsListed, RevocationsListed
<1>5. \A s \in Serial : RowOk(s)'
  <2> SUFFICES ASSUME NEW s \in Serial PROVE RowOk(s)'
    OBVIOUS
  <2>1. certs'[s] = certs[s]
    OBVIOUS
  <2> QED BY <1>3, <2>1, RowKept
<1>6. \A e \in Email : UserOk(e)'
  <2> SUFFICES ASSUME NEW e \in Email PROVE UserOk(e)'
    OBVIOUS
  <2> QED BY <1>3, UserKept
<1>7. \A q \in Req \ {r} : ReqOk(q)'
  <2> SUFFICES ASSUME NEW q \in Req \ {r} PROVE ReqOk(q)'
    OBVIOUS
  <2>1. ReqOk(q)
    BY <1>0 DEF ReqsSound
  <2>2. ASSUME req[q].pc = "record"
        PROVE  /\ certs'[req[q].serial].status = "none"
               /\ \A p \in Req \ {q} : req'[p].pc = "record" => req'[p].serial # req[q].serial
    BY <1>1, <2>1, <2>2 DEF ReqOk
  <2> QED BY <1>1, <1>3, <2>2, ReqKept
<1>8. ReqOk(r)'
  <2>1. ASSUME k.pc = "record", NEW q \in Req \ {r}, req[q].pc = "record"
        PROVE  req[q].serial # k.serial
    BY <1>0, <2>1 DEF ReqsSound, ReqOk
  <2>2. k.pc = "record" => certs[k.serial].status = "none"
    BY <1>0 DEF RowsListed, RowOk
  <2> QED BY <1>1, <2>1, <2>2 DEF ReqOk
<1>9. \A q \in Req : ReqOk(q)'
  BY <1>7, <1>8
<1>10. \A t \in Setup : TokenOk(t)'
  <2> SUFFICES ASSUME NEW t \in Setup PROVE TokenOk(t)'
    OBVIOUS
  <2>1. req[r].via = NoOne
    BY <1>0, NoReqFacts DEF ReqsSound, ReqOk
  <2>2. \A q \in Req : (req'[q].via = t <=> req[q].via = t) /\ (req[q].via = t => req'[q] = req[q])
    BY <1>1, <2>1, PkiAssumption
  <2>3. setup'[t] = setup[t] /\ \A s \in Serial : certs'[s].via = t <=> certs[s].via = t
    OBVIOUS
  <2> QED BY <1>3, <2>2, <2>3, TokenKept
<1>11. \A e \in Email : e \in torn' \/
             \A s \in Serial :
               certs'[s].kind = "user" /\ certs'[s].holder = e /\ certs'[s].status = "active"
                 => users'[e] = [status |-> "active", serial |-> s]
  BY <1>0 DEF OnlyCurrentLives
<1>12. UNCHANGED <<files, boot>>
  BY DEF ca
<1> QED
  BY <1>1, <1>2, <1>3, <1>4, <1>5, <1>6, <1>9, <1>10, <1>11, <1>12, RequestIInv

LEMMA IssueIInv ==
  ASSUME PkiIInv, NEW r \in Req, NEW s \in Serial,
         NEW kind \in {"secc", "contract", "driver"}, NEW e \in Email \cup {NoOne},
         Issue(r, s, kind, e)
  PROVE  PkiIInv'
<1> DEFINE k == [NoReq EXCEPT !.pc = "record", !.kind = kind, !.serial = s, !.holder = e]
<1>1. /\ k \in Request /\ k.pc = "record" /\ k.kind = kind /\ k.serial = s
      /\ k.via = NoOne /\ k.todo = {}
  BY DEF NoReq, Request
<1>2. Begin(r) /\ Sign(s, kind) /\ Call(r, k)
      /\ UNCHANGED <<ca, certs, revoked, users, setup, torn>>
  BY DEF Issue
<1> HIDE DEF k
<1>3. boot = Up
  BY <1>2 DEF Begin
<1>4. /\ signed' \in [Serial -> Nat] /\ signed[s] = 0 /\ signed'[s] # 0
      /\ \A u \in Serial \ {s} : signed'[u] = signed[u]
      /\ \A u \in Serial : signed'[u] = signed[u] \/ \E c \in Ca : files[c].crt = signed'[u]
  BY <1>2, <1>3, SignFacts
<1>5. \A u \in Serial : signed[u] # 0 => signed'[u] # 0
  BY <1>4
<1> QED BY <1>1, <1>2, <1>4, <1>5, BeginIInv

LEMMA ReadIInv ==
  ASSUME PkiIInv, NEW r \in Req, NEW e \in Email,
         ReadForIssue(r, e) \/ ReadForRevoke(r, e) \/ RevokeAccount(r, e)
  PROVE  PkiIInv'
<1>0. TypeOK /\ signed \in [Serial -> Nat]
      /\ (users[e].status = "active" =>
            users[e].serial \in Serial /\ certs[users[e].serial].status # "none")
  BY DEF PkiIInv, TypeOK, RowsListed, UserOk
<1>1. ASSUME NEW k \in Request, Begin(r), Call(r, k), k.via = NoOne,
             UNCHANGED <<ca, signed, certs, revoked, users, setup, torn>>,
             k.pc \in {"issue", "revoke", "account"},
             k.pc \in {"issue", "revoke"} =>
               /\ k.holder \in Email /\ users[k.holder].status # "absent"
               /\ k.pc = "revoke" => users[k.holder].status = "active"
               /\ k.todo = IF users[k.holder].status = "active"
                           THEN {users[k.holder].serial} ELSE {},
             \A s \in k.todo : certs[s].status # "none"
      PROVE  PkiIInv'
  BY <1>0, <1>1, BeginIInv
<1>2. CASE ReadForIssue(r, e)
  <2> DEFINE S == IF users[e].status = "active" THEN {users[e].serial} ELSE {}
             k == [NoReq EXCEPT !.pc = "issue", !.holder = e, !.todo = S]
  <2>1. S \in SUBSET Serial /\ \A s \in S : certs[s].status # "none"
    BY <1>0
  <2>2. k \in Request /\ k.pc = "issue" /\ k.holder = e /\ k.todo = S /\ k.via = NoOne
    BY <2>1 DEF NoReq, Request
  <2>3. Begin(r) /\ Call(r, k) /\ users[e].status # "absent"
        /\ UNCHANGED <<ca, signed, certs, revoked, users, setup, torn>>
    BY <1>2 DEF ReadForIssue
  <2>4. k.todo = IF users[e].status = "active" THEN {users[e].serial} ELSE {}
    BY <2>2
  <2> HIDE DEF k, S
  <2> QED BY <1>1, <2>1, <2>2, <2>3, <2>4
<1>3. CASE ReadForRevoke(r, e)
  <2> DEFINE k == [NoReq EXCEPT !.pc = "revoke", !.holder = e, !.todo = {users[e].serial}]
  <2>1. Begin(r) /\ Call(r, k) /\ users[e].status = "active"
        /\ UNCHANGED <<ca, signed, certs, revoked, users, setup, torn>>
    BY <1>3 DEF ReadForRevoke
  <2>2. /\ k \in Request /\ k.pc = "revoke" /\ k.holder = e /\ k.via = NoOne
        /\ k.todo = {users[e].serial}
    BY <1>0, <2>1 DEF NoReq, Request
  <2> HIDE DEF k
  <2> QED BY <1>0, <1>1, <2>1, <2>2
<1>4. CASE RevokeAccount(r, e)
  <2> DEFINE S == {s \in Serial : certs[s].status = "active" /\ certs[s].holder = e}
             k == [NoReq EXCEPT !.pc = "account", !.todo = S]
  <2>1. S \in SUBSET Serial /\ \A s \in S : certs[s].status # "none"
    OBVIOUS
  <2>2. k \in Request /\ k.pc = "account" /\ k.todo = S /\ k.via = NoOne
    BY <2>1 DEF NoReq, Request
  <2>3. Begin(r) /\ Call(r, k) /\ UNCHANGED <<ca, signed, certs, revoked, users, setup, torn>>
    BY <1>4 DEF RevokeAccount
  <2> HIDE DEF k, S
  <2> QED BY <1>1, <2>1, <2>2, <2>3
<1> QED BY <1>2, <1>3, <1>4

LEMMA RecordIInv == ASSUME PkiIInv, NEW r \in Req, Record(r) PROVE PkiIInv'
<1> USE PkiAssumption
<1> SUFFICES ASSUME NEW k \in Request, k = req[r] PROVE PkiIInv'
  BY DEF PkiIInv, TypeOK
<1>0. /\ TypeOK /\ RowsListed /\ ReqsSound /\ OnlyCurrentLives /\ TokensSound
      /\ ReqOk(r) /\ k.pc = "record" /\ k.serial \in Serial /\ k.kind # "user"
      /\ k.via \in Setup \cup {NoOne} /\ k.holder \in Email \cup {NoOne}
      /\ k.kind \in {"none", "secc", "contract", "driver"} /\ k.todo \in SUBSET Serial
      /\ signed[k.serial] # 0 /\ certs[k.serial].status = "none"
  BY DEF PkiIInv, ReqsSound, Record, ReqOk, Request
<1>1. certs[k.serial] = NoCert /\ certs[k.serial].via = NoOne
  BY <1>0 DEF RowsListed, RowOk, NoCert
<1> DEFINE new == [status |-> "active", kind |-> k.kind, holder |-> k.holder, via |-> k.via]
<1>2. certs' = [certs EXCEPT ![k.serial] = new] /\ new \in Cert
  BY <1>0 DEF Record, Cert
<1>3. /\ certs' \in [Serial -> Cert] /\ certs'[k.serial] = new
      /\ \A s \in Serial \ {k.serial} : certs'[s] = certs[s]
  BY <1>0, <1>2 DEF TypeOK
<1>4. new.status = "active" /\ new.kind = k.kind /\ new.holder = k.holder /\ new.via = k.via
  OBVIOUS
<1> HIDE DEF new
<1>5. UNCHANGED <<files, boot, made, crashes, signed, revoked, users, setup, torn>>
  BY DEF Record, ca
<1> DEFINE next == IF k.via = NoOne THEN NoReq ELSE [k EXCEPT !.pc = "mark"]
<1>6. req' = [req EXCEPT ![r] = next]
  BY DEF Record, Answer, Call
<1>7. /\ next \in Request
      /\ k.via = NoOne => next = NoReq
      /\ k.via # NoOne => /\ next.pc = "mark" /\ next.via = k.via /\ next.serial = k.serial
                          /\ next.holder = k.holder /\ next.todo = k.todo
  BY NoReqFacts DEF Request
<1> HIDE DEF next
<1>8. req' \in [Req -> Request] /\ req'[r] = next /\ \A q \in Req \ {r} : req'[q] = req[q]
  BY <1>0, <1>6, <1>7 DEF TypeOK
<1>9. TypeOK'
  BY <1>0, <1>3, <1>5, <1>8 DEF TypeOK
<1>10. Grows
  BY <1>0, <1>3, <1>5 DEF Grows
<1>11. RevocationsListed'
  BY <1>0, <1>3, <1>4, <1>5 DEF RowsListed, RevocationsListed
<1>12. ASSUME NEW s \in Serial PROVE RowOk(s)'
  <2>1. CASE s = k.serial
    <3>1. k.via # NoOne => setup[k.via].state # "none"
      BY <1>0 DEF ReqOk
    <3> QED BY <1>0, <1>3, <1>4, <1>5, <2>1, <3>1 DEF RowOk
  <2>2. CASE s # k.serial
    BY <1>3, <1>10, <2>2, RowKept
  <2> QED BY <2>1, <2>2
<1>13. ASSUME NEW e \in Email PROVE UserOk(e)'
  BY <1>5, <1>10, UserKept
<1>14. ASSUME NEW q \in Req PROVE ReqOk(q)'
  <2>1. CASE q = r
    <3>1. CASE k.via = NoOne
      BY <1>7, <1>8, <2>1, <3>1, IdleOk
    <3>2. CASE k.via # NoOne
      <4>1. setup'[k.via].state # "none" /\ k.holder = setup'[k.via].email
        BY <1>0, <1>5, <3>2 DEF ReqOk
      <4>2. \A s \in k.todo : certs'[s].status # "none"
        BY <1>0, <1>10 DEF ReqOk, Grows
      <4> QED BY <1>0, <1>3, <1>4, <1>7, <1>8, <2>1, <3>2, <4>1, <4>2 DEF ReqOk
    <3> QED BY <3>1, <3>2
  <2>2. CASE q # r
    <3>1. ASSUME req[q].pc = "record"
          PROVE  /\ certs'[req[q].serial].status = "none"
                 /\ \A p \in Req \ {q} : req'[p].pc = "record" => req'[p].serial # req[q].serial
      <4>1. /\ req[q].serial \in Serial /\ certs[req[q].serial].status = "none"
            /\ \A p \in Req \ {q} : req[p].pc = "record" => req[p].serial # req[q].serial
        BY <1>0, <3>1 DEF ReqsSound, ReqOk
      <4>2. req[q].serial # k.serial
        BY <1>0, <2>2, <4>1
      <4>3. req'[r].pc # "record"
        BY <1>7, <1>8, NoReqFacts
      <4> QED BY <1>3, <1>8, <4>1, <4>2, <4>3
    <3> QED BY <1>5, <1>8, <1>10, <2>2, <3>1, ReqKept
  <2> QED BY <2>1, <2>2
<1>15. ASSUME NEW e \in Email
       PROVE  e \in torn' \/ \A s \in Serial :
                certs'[s].kind = "user" /\ certs'[s].holder = e /\ certs'[s].status = "active"
                  => users'[e] = [status |-> "active", serial |-> s]
  BY <1>0, <1>3, <1>4, <1>5 DEF OnlyCurrentLives
<1>16. ASSUME NEW t \in Setup PROVE TokenOk(t)'
  <2>1. CASE t # k.via
    <3>1. \A s \in Serial : certs'[s].via = t <=> certs[s].via = t
      BY <1>1, <1>3, <1>4, <2>1
    <3>2. req'[r].via # t /\ req[r].via # t
      BY <1>7, <1>8, <2>1, NoReqFacts
    <3>3. \A q \in Req : (req'[q].via = t <=> req[q].via = t) /\ (req[q].via = t => req'[q] = req[q])
      BY <1>8, <3>2
    <3> QED BY <1>5, <1>10, <3>1, <3>3, TokenKept
  <2>2. CASE t = k.via
    <3>0. TokenOk(t) /\ r \in InWizard(t) /\ k.via # NoOne
      BY <1>0, <2>2 DEF TokensSound, InWizard
    <3>1. setup'[t].state = "used" =>
            /\ setup'[t].serial \in Serial
            /\ certs'[setup'[t].serial].status # "none" /\ certs'[setup'[t].serial].via = t
            /\ certs'[setup'[t].serial].holder = setup'[t].email
      BY <1>5, <1>10, <3>0 DEF TokenOk, Grows
    <3>2. InWizard(t)' = InWizard(t)
      BY <1>7, <1>8, <2>2, <3>0 DEF InWizard
    <3>3. ASSUME t \notin torn', NEW s \in Serial, certs[s].via = t PROVE FALSE
      BY <1>0, <1>5, <3>0, <3>3 DEF TokenOk
    <3>4. ASSUME t \notin torn', NEW s \in Serial, certs'[s].via = t PROVE s = k.serial
      BY <1>3, <3>3, <3>4
    <3>5. t \notin torn' => \A q, p \in InWizard(t)' : q = p
      BY <1>5, <3>0, <3>2 DEF TokenOk
    <3>6. req'[r].pc = "mark" /\ req'[r].serial = k.serial /\ r \in InWizard(t)'
      BY <1>7, <1>8, <3>0, <3>2
    <3> QED BY <3>1, <3>4, <3>5, <3>6 DEF TokenOk
  <2> QED BY <2>1, <2>2
<1>17. /\ \A q \in Req \ {r} : req'[q] = req[q]
       /\ req'[r].pc # "idle" => boot = Up
  BY <1>0, <1>8 DEF PkiIInv, BootSound
<1>18. /\ \A s \in Serial : RowOk(s)'
       /\ \A e \in Email : UserOk(e)'
       /\ \A q \in Req : ReqOk(q)'
       /\ \A t \in Setup : TokenOk(t)'
       /\ \A e \in Email : e \in torn' \/ \A s \in Serial :
            certs'[s].kind = "user" /\ certs'[s].holder = e /\ certs'[s].status = "active"
              => users'[e] = [status |-> "active", serial |-> s]
       /\ \A s \in Serial : signed'[s] = signed[s] \/ \E c \in Ca : files[c].crt = signed'[s]
  BY <1>5, <1>12, <1>13, <1>14, <1>15, <1>16
<1> QED BY <1>5, <1>9, <1>10, <1>11, <1>17, <1>18, RequestIInv

-----------------------------------------------------------------------------
(* The wizard's tokens.                                                    *)

LEMMA CreateSetupIInv ==
  ASSUME PkiIInv, NEW r \in Req, NEW t \in Setup, NEW e \in Email, CreateSetup(r, t, e)
  PROVE  PkiIInv'
<1> DEFINE new == [state |-> "open", email |-> e, serial |-> NoOne]
<1>0. TypeOK /\ RowsListed /\ ReqsSound /\ OnlyCurrentLives /\ TokensSound
  BY DEF PkiIInv
<1>1. new \in SetupToken /\ new.state = "open"
  BY DEF SetupToken
<1>2. /\ setup' = [setup EXCEPT ![t] = new] /\ setup[t].state = "none"
      /\ UNCHANGED <<files, boot, made, crashes, signed, certs, revoked, users, req, torn>>
  BY DEF CreateSetup, ca
<1> HIDE DEF new
<1>3. /\ setup' \in [Setup -> SetupToken] /\ setup'[t] = new
      /\ \A u \in Setup \ {t} : setup'[u] = setup[u]
  BY <1>0, <1>1, <1>2 DEF TypeOK
<1>4. TypeOK'
  BY <1>0, <1>2, <1>3 DEF TypeOK
<1>5. Grows
  BY <1>1, <1>2, <1>3 DEF Grows
<1>6. RevocationsListed'
  BY <1>0, <1>2 DEF RowsListed, RevocationsListed
<1>7. ASSUME NEW s \in Serial PROVE RowOk(s)'
  BY <1>2, <1>5, RowKept
<1>8. ASSUME NEW x \in Email PROVE UserOk(x)'
  BY <1>2, <1>5, UserKept
<1>9. ASSUME NEW q \in Req PROVE ReqOk(q)'
  <2>1. ASSUME req[q].pc = "record"
        PROVE  /\ certs'[req[q].serial].status = "none"
               /\ \A p \in Req \ {q} : req'[p].pc = "record" => req'[p].serial # req[q].serial
    BY <1>0, <1>2, <2>1 DEF ReqsSound, ReqOk
  <2> QED BY <1>2, <1>5, <2>1, ReqKept
<1>10. ASSUME NEW u \in Setup PROVE TokenOk(u)'
  <2>1. setup'[u] = setup[u] \/ (setup[u].state = "none" /\ setup'[u].state = "open")
    BY <1>1, <1>2, <1>3
  <2> QED BY <1>2, <1>5, <2>1, TokenKept
<1>11. /\ \A q \in Req \ {r} : req'[q] = req[q]
       /\ req'[r].pc # "idle" => boot = Up
  BY <1>2 DEF PkiIInv, BootSound
<1>12. /\ \A s \in Serial : RowOk(s)'
       /\ \A x \in Email : UserOk(x)'
       /\ \A q \in Req : ReqOk(q)'
       /\ \A u \in Setup : TokenOk(u)'
       /\ \A x \in Email : x \in torn' \/ \A s \in Serial :
            certs'[s].kind = "user" /\ certs'[s].holder = x /\ certs'[s].status = "active"
              => users'[x] = [status |-> "active", serial |-> s]
       /\ \A s \in Serial : signed'[s] = signed[s] \/ \E c \in Ca : files[c].crt = signed'[s]
  BY <1>0, <1>2, <1>7, <1>8, <1>9, <1>10 DEF OnlyCurrentLives
<1> QED BY <1>2, <1>4, <1>5, <1>6, <1>11, <1>12, RequestIInv

LEMMA WizardIssueIInv ==
  ASSUME PkiIInv, NEW r \in Req, NEW s \in Serial, NEW t \in Setup, WizardIssue(r, s, t)
  PROVE  PkiIInv'
<1> USE PkiAssumption
<1> DEFINE k == [NoReq EXCEPT !.pc = "record", !.kind = "driver", !.serial = s,
                              !.holder = setup[t].email, !.via = t]
<1>0. /\ TypeOK /\ RowsListed /\ ReqsSound /\ OnlyCurrentLives /\ TokensSound
      /\ setup[t].email \in Email \cup {NoOne}
  BY DEF PkiIInv, TypeOK, SetupToken
<1>1. /\ k \in Request /\ k.pc = "record" /\ k.kind = "driver" /\ k.serial = s
      /\ k.via = t /\ k.holder = setup[t].email /\ k.todo = {}
  BY <1>0 DEF NoReq, Request
<1>2. /\ req' = [req EXCEPT ![r] = k] /\ boot = Up /\ req[r].pc = "idle"
      /\ setup[t].state = "open" /\ Sign(s, "driver")
      /\ UNCHANGED <<files, boot, made, crashes, certs, revoked, users, setup>>
  BY DEF WizardIssue, Begin, Call, ca
<1>3. torn \subseteq torn' /\ torn' \subseteq torn \cup {t} /\ (t \notin torn' => InWizard(t) = {})
  BY DEF WizardIssue
<1> HIDE DEF k
<1>4. /\ signed' \in [Serial -> Nat] /\ signed[s] = 0 /\ signed'[s] # 0
      /\ \A u \in Serial \ {s} : signed'[u] = signed[u]
      /\ \A u \in Serial : signed'[u] = signed[u] \/ \E c \in Ca : files[c].crt = signed'[u]
      /\ certs[s].status = "none"
  BY <1>2, SignFacts
<1>5. req' \in [Req -> Request] /\ req'[r] = k /\ \A q \in Req \ {r} : req'[q] = req[q]
  BY <1>0, <1>1, <1>2 DEF TypeOK
<1>6. TypeOK'
  BY <1>0, <1>2, <1>3, <1>4, <1>5 DEF TypeOK
<1>7. Grows
  BY <1>2, <1>3, <1>4 DEF Grows
<1>8. RevocationsListed'
  BY <1>0, <1>2 DEF RowsListed, RevocationsListed
<1>9. ASSUME NEW u \in Serial PROVE RowOk(u)'
  BY <1>2, <1>7, RowKept
<1>10. ASSUME NEW e \in Email PROVE UserOk(e)'
  BY <1>2, <1>7, UserKept
<1>11. ASSUME NEW q \in Req PROVE ReqOk(q)'
  <2>1. \A p \in Req : req[p].pc = "record" => req[p].serial # s
    BY <1>0, <1>4 DEF ReqsSound, ReqOk
  <2>2. CASE q = r
    BY <1>0, <1>1, <1>2, <1>4, <1>5, <2>1, <2>2 DEF ReqOk
  <2>3. CASE q # r
    <3>1. ASSUME req[q].pc = "record"
          PROVE  /\ certs'[req[q].serial].status = "none"
                 /\ \A p \in Req \ {q} : req'[p].pc = "record" => req'[p].serial # req[q].serial
      <4>1. /\ certs[req[q].serial].status = "none"
            /\ \A p \in Req \ {q} : req[p].pc = "record" => req[p].serial # req[q].serial
        BY <1>0, <3>1 DEF ReqsSound, ReqOk
      <4> QED BY <1>1, <1>2, <1>5, <2>1, <3>1, <4>1
    <3> QED BY <1>2, <1>5, <1>7, <2>3, <3>1, ReqKept
  <2> QED BY <2>2, <2>3
<1>12. req[r].via = NoOne
  BY <1>0, <1>2, NoReqFacts DEF ReqsSound, ReqOk
<1>13. ASSUME NEW u \in Setup PROVE TokenOk(u)'
  <2>1. CASE u # t
    <3>1. \A q \in Req : (req'[q].via = u <=> req[q].via = u) /\ (req[q].via = u => req'[q] = req[q])
      BY <1>1, <1>5, <1>12, <2>1
    <3> QED BY <1>2, <1>7, <3>1, TokenKept
  <2>2. CASE u = t
    <3>1. TokenOk(t) /\ setup'[t].state # "used"
      BY <1>0, <1>2 DEF TokensSound
    <3>2. ASSUME t \notin torn', NEW v \in Serial PROVE certs'[v].via # t
      BY <1>2, <1>3, <3>1, <3>2 DEF TokenOk
    <3>3. t \notin torn' => InWizard(t)' = {r}
      BY <1>1, <1>3, <1>5 DEF InWizard
    <3> QED BY <2>2, <3>1, <3>2, <3>3 DEF TokenOk
  <2> QED BY <2>1, <2>2
<1>14. ASSUME NEW e \in Email
       PROVE  e \in torn' \/ \A u \in Serial :
                certs'[u].kind = "user" /\ certs'[u].holder = e /\ certs'[u].status = "active"
                  => users'[e] = [status |-> "active", serial |-> u]
  BY <1>0, <1>2, <1>3 DEF OnlyCurrentLives
<1>15. /\ \A u \in Serial : RowOk(u)'
       /\ \A e \in Email : UserOk(e)'
       /\ \A q \in Req : ReqOk(q)'
       /\ \A u \in Setup : TokenOk(u)'
       /\ \A e \in Email : e \in torn' \/ \A u \in Serial :
            certs'[u].kind = "user" /\ certs'[u].holder = e /\ certs'[u].status = "active"
              => users'[e] = [status |-> "active", serial |-> u]
  BY <1>9, <1>10, <1>11, <1>13, <1>14
<1> QED BY <1>2, <1>4, <1>5, <1>6, <1>7, <1>8, <1>15, RequestIInv

LEMMA WizardMarkIInv == ASSUME PkiIInv, NEW r \in Req, WizardMark(r) PROVE PkiIInv'
<1> USE PkiAssumption
<1> SUFFICES ASSUME NEW k \in Request, k = req[r] PROVE PkiIInv'
  BY DEF PkiIInv, TypeOK
<1>0. /\ TypeOK /\ RowsListed /\ ReqsSound /\ OnlyCurrentLives /\ TokensSound
      /\ k.pc = "mark" /\ k.via \in Setup /\ k.via # NoOne /\ k.serial \in Serial
      /\ certs[k.serial].status # "none" /\ certs[k.serial].via = k.via
      /\ certs[k.serial].holder = k.holder
      /\ setup[k.via].state # "none" /\ k.holder = setup[k.via].email
  BY DEF PkiIInv, ReqsSound, WizardMark, ReqOk, Request
<1> SUFFICES ASSUME NEW t \in Setup, t = k.via PROVE PkiIInv'
  BY <1>0
<1> DEFINE new == [setup[t] EXCEPT !.state = "used", !.serial = k.serial]
<1>1. /\ new \in SetupToken /\ new.state = "used" /\ new.serial = k.serial
      /\ new.email = setup[t].email
  BY <1>0 DEF TypeOK, SetupToken
<1>2. /\ setup' = [setup EXCEPT ![t] = new] /\ req' = [req EXCEPT ![r] = NoReq]
      /\ UNCHANGED <<files, boot, made, crashes, signed, certs, revoked, users, torn>>
  BY <1>0 DEF WizardMark, Answer, ca, TypeOK
<1> HIDE DEF new
<1>3. /\ setup' \in [Setup -> SetupToken] /\ setup'[t] = new
      /\ \A u \in Setup \ {t} : setup'[u] = setup[u]
  BY <1>0, <1>1, <1>2 DEF TypeOK
<1>4. req' \in [Req -> Request] /\ req'[r] = NoReq /\ \A q \in Req \ {r} : req'[q] = req[q]
  BY <1>0, <1>2, NoReqFacts DEF TypeOK
<1>5. TypeOK'
  BY <1>0, <1>2, <1>3, <1>4 DEF TypeOK
<1>6. Grows
  BY <1>1, <1>2, <1>3 DEF Grows
<1>7. RevocationsListed'
  BY <1>0, <1>2 DEF RowsListed, RevocationsListed
<1>8. ASSUME NEW s \in Serial PROVE RowOk(s)'
  BY <1>2, <1>6, RowKept
<1>9. ASSUME NEW e \in Email PROVE UserOk(e)'
  BY <1>2, <1>6, UserKept
<1>10. ASSUME NEW q \in Req PROVE ReqOk(q)'
  <2>1. CASE q = r
    BY <1>4, <2>1, IdleOk
  <2>2. CASE q # r
    <3>1. ASSUME req[q].pc = "record"
          PROVE  /\ certs'[req[q].serial].status = "none"
                 /\ \A p \in Req \ {q} : req'[p].pc = "record" => req'[p].serial # req[q].serial
      BY <1>0, <1>2, <1>4, <3>1, NoReqFacts DEF ReqsSound, ReqOk
    <3> QED BY <1>2, <1>4, <1>6, <2>2, <3>1, ReqKept
  <2> QED BY <2>1, <2>2
<1>11. ASSUME NEW u \in Setup PROVE TokenOk(u)'
  <2>1. CASE u # t
    <3>1. \A q \in Req : (req'[q].via = u <=> req[q].via = u) /\ (req[q].via = u => req'[q] = req[q])
      BY <1>4, <2>1, NoReqFacts
    <3> QED BY <1>2, <1>3, <1>6, <2>1, <3>1, TokenKept
  <2>2. CASE u = t
    <3>1. TokenOk(t) /\ r \in InWizard(t)
      BY <1>0 DEF TokensSound, InWizard
    <3>2. /\ setup'[t].serial \in Serial
          /\ certs'[setup'[t].serial].status # "none" /\ certs'[setup'[t].serial].via = t
          /\ certs'[setup'[t].serial].holder = setup'[t].email
      BY <1>0, <1>1, <1>2, <1>3
    <3>3. t \notin torn' => InWizard(t)' = {}
      BY <1>2, <1>4, <3>1, NoReqFacts DEF TokenOk, InWizard
    <3>4. t \notin torn' => \A s, v \in Serial : certs'[s].via = t /\ certs'[v].via = t => s = v
      BY <1>2, <3>1 DEF TokenOk
    <3> QED BY <1>1, <1>3, <2>2, <3>2, <3>3, <3>4 DEF TokenOk
  <2> QED BY <2>1, <2>2
<1>12. req'[r].pc # "idle" => boot = Up
  BY <1>4, NoReqFacts
<1>13. /\ \A s \in Serial : RowOk(s)'
       /\ \A e \in Email : UserOk(e)'
       /\ \A q \in Req : ReqOk(q)'
       /\ \A u \in Setup : TokenOk(u)'
       /\ \A e \in Email : e \in torn' \/ \A s \in Serial :
            certs'[s].kind = "user" /\ certs'[s].holder = e /\ certs'[s].status = "active"
              => users'[e] = [status |-> "active", serial |-> s]
       /\ \A s \in Serial : signed'[s] = signed[s] \/ \E c \in Ca : files[c].crt = signed'[s]
  BY <1>0, <1>2, <1>8, <1>9, <1>10, <1>11 DEF OnlyCurrentLives
<1> QED BY <1>2, <1>4, <1>5, <1>6, <1>7, <1>12, <1>13, RequestIInv

-----------------------------------------------------------------------------
(* Platform users, and revocation.                                         *)

\* A certificate for the user e, in whose name no other is left active.
UserCert(r, s, e, S) ==
    /\ boot = Up /\ Sign(s, "user") /\ certs' = NewUserCert(s, e, S)
    /\ revoked' = revoked \cup S /\ \A u \in S : certs[u].status # "none"
    /\ users' = [users EXCEPT ![e] = [status |-> "active", serial |-> s]]
    /\ UNCHANGED <<ca, setup>> /\ torn \subseteq torn' /\ torn' \subseteq Email \cup Setup
    /\ \/ e \in torn'
       \/ \A u \in Serial : certs[u].kind = "user" /\ certs[u].holder = e
                            /\ certs[u].status = "active" => u \in S
    /\ req' \in [Req -> Request] /\ req'[r] = NoReq /\ req[r].via = NoOne
    /\ \A q \in Req \ {r} : req'[q] = req[q]
    /\ \A q \in Req \ {r} : req[q].pc \in {"issue", "revoke"} /\ req[q].holder = e => e \in torn'

LEMMA UserCertIInv ==
  ASSUME PkiIInv, NEW r \in Req, NEW s \in Serial, NEW e \in Email, NEW S \in SUBSET Serial,
         UserCert(r, s, e, S)
  PROVE  PkiIInv'
<1> USE PkiAssumption DEF UserCert
<1>0. TypeOK /\ RowsListed /\ ReqsSound /\ OnlyCurrentLives /\ TokensSound
  BY DEF PkiIInv
<1> DEFINE new == [status |-> "active", kind |-> "user", holder |-> e, via |-> NoOne]
           row1 == [status |-> "active", serial |-> s]
<1>1. new \in Cert /\ new.status = "active" /\ new.kind = "user" /\ new.holder = e
      /\ new.via = NoOne
  BY DEF Cert
<1>2. row1 \in User /\ row1.status = "active" /\ row1.serial = s
  BY DEF User
<1>3. /\ signed' \in [Serial -> Nat] /\ signed[s] = 0 /\ signed'[s] # 0
      /\ \A u \in Serial \ {s} : signed'[u] = signed[u]
      /\ \A u \in Serial : signed'[u] = signed[u] \/ \E c \in Ca : files[c].crt = signed'[u]
      /\ certs[s].status = "none" /\ certs[s].via = NoOne
  BY SignFacts
<1>4. s \notin S
  BY <1>3
<1>5. /\ certs' \in [Serial -> Cert] /\ certs'[s] = new
      /\ \A u \in Serial \ {s} :
           /\ u \notin S => certs'[u] = certs[u]
           /\ u \in S => certs'[u].status = "revoked"
           /\ certs'[u].kind = certs[u].kind /\ certs'[u].holder = certs[u].holder
           /\ certs'[u].via = certs[u].via
  BY <1>0, <1>1, RevokingFacts DEF NewUserCert
<1>6. /\ users' \in [Email -> User] /\ users'[e] = row1
      /\ \A x \in Email \ {e} : users'[x] = users[x]
  BY <1>0, <1>2 DEF TypeOK
<1>a. UNCHANGED <<files, boot, made, crashes>>
  BY DEF ca
<1> HIDE DEF new, row1
<1>7. TypeOK'
  <2>1. revoked' \subseteq Serial
    BY <1>0 DEF TypeOK
  <2> QED BY <1>0, <1>3, <1>5, <1>6, <1>a, <2>1 DEF TypeOK
<1>8. Grows
  BY <1>2, <1>3, <1>5, <1>6 DEF Grows
<1>9. RevocationsListed'
  <2>1. revoked = {u \in Serial : certs[u].status = "revoked"}
    BY <1>0 DEF RowsListed, RevocationsListed
  <2>2. \A u \in Serial : u \in revoked' <=> certs'[u].status = "revoked"
    BY <1>1, <1>3, <1>4, <1>5, <2>1
  <2> QED BY <1>7, <2>2 DEF RevocationsListed, TypeOK
<1>10. ASSUME NEW u \in Serial PROVE RowOk(u)'
  <2>1. CASE u = s
    BY <1>1, <1>2, <1>3, <1>5, <1>6, <2>1 DEF RowOk
  <2>2. CASE u # s
    <3>1. certs'[u] = certs[u] \/ (certs[u].status # "none" /\ certs'[u].status # "none")
      BY <1>5, <2>2
    <3> QED BY <1>8, <3>1, RowKept
  <2> QED BY <2>1, <2>2
<1>11. ASSUME NEW x \in Email PROVE UserOk(x)'
  <2>1. CASE x = e
    BY <1>1, <1>2, <1>5, <1>6, <2>1 DEF UserOk
  <2>2. CASE x # e
    BY <1>6, <1>8, <2>2, UserKept
  <2> QED BY <2>1, <2>2
<1>12. ASSUME NEW q \in Req PROVE ReqOk(q)'
  <2>1. CASE q = r
    BY <2>1, IdleOk
  <2>2. CASE q # r
    <3>0. ReqOk(q) /\ req'[q] = req[q]
      BY <1>0, <2>2 DEF ReqsSound
    <3>1. ASSUME req[q].pc = "record"
          PROVE  /\ certs'[req[q].serial].status = "none"
                 /\ \A p \in Req \ {q} : req'[p].pc = "record" => req'[p].serial # req[q].serial
      <4>1. /\ req[q].serial \in Serial /\ certs[req[q].serial].status = "none"
            /\ signed[req[q].serial] # 0
            /\ \A p \in Req \ {q} : req[p].pc = "record" => req[p].serial # req[q].serial
        BY <3>0, <3>1 DEF ReqOk
      <4>2. certs'[req[q].serial].status = "none"
        BY <1>3, <1>5, <4>1
      <4> QED BY <4>1, <4>2, NoReqFacts
    <3>2. req[q].pc \in {"issue", "revoke"} =>
            req[q].holder \in torn' \/ users'[req[q].holder] = users[req[q].holder]
      BY <1>6, <2>2, <3>0 DEF ReqOk
    <3> QED BY <1>8, <3>0, <3>1, <3>2, ReqKept
  <2> QED BY <2>1, <2>2
<1>13. ASSUME NEW x \in Email
       PROVE  x \in torn' \/ \A u \in Serial :
                certs'[u].kind = "user" /\ certs'[u].holder = x /\ certs'[u].status = "active"
                  => users'[x] = [status |-> "active", serial |-> u]
  <2>1. CASE x = e
    <3>1. ASSUME e \notin torn', NEW u \in Serial, u # s, certs'[u].kind = "user",
                 certs'[u].holder = e, certs'[u].status = "active"
          PROVE  FALSE
      BY <1>5, <3>1
    <3> QED BY <1>6, <2>1, <3>1 DEF row1
  <2>2. CASE x # e
    <3>1. \A u \in Serial : certs'[u].kind = "user" /\ certs'[u].holder = x
             /\ certs'[u].status = "active" => certs'[u] = certs[u]
      BY <1>1, <1>5, <2>2
    <3>2. users'[x] = users[x]
      BY <1>6, <2>2
    <3> QED BY <3>1, <3>2, LivesKept
  <2> QED BY <2>1, <2>2
<1>14. ASSUME NEW t \in Setup PROVE TokenOk(t)'
  <2>1. \A u \in Serial : certs'[u].via = t <=> certs[u].via = t
    BY <1>1, <1>3, <1>5
  <2>2. \A q \in Req : (req'[q].via = t <=> req[q].via = t) /\ (req[q].via = t => req'[q] = req[q])
    BY NoReqFacts
  <2>3. setup'[t] = setup[t]
    OBVIOUS
  <2> QED BY <1>8, <2>1, <2>2, <2>3, TokenKept
<1>15. /\ \A u \in Serial : RowOk(u)'
       /\ \A x \in Email : UserOk(x)'
       /\ \A q \in Req : ReqOk(q)'
       /\ \A t \in Setup : TokenOk(t)'
       /\ \A x \in Email : x \in torn' \/ \A u \in Serial :
            certs'[u].kind = "user" /\ certs'[u].holder = x /\ certs'[u].status = "active"
              => users'[x] = [status |-> "active", serial |-> u]
  BY <1>10, <1>11, <1>12, <1>13, <1>14
<1> QED BY <1>3, <1>7, <1>8, <1>9, <1>15, <1>a, RequestIInv

LEMMA OverlapFacts ==
  ASSUME NEW r \in Req, NEW e \in Email, Overlap(r, e)
  PROVE  /\ torn \subseteq torn' /\ torn' \subseteq torn \cup {e}
         /\ \A q \in Req \ {r} : req[q].pc \in {"issue", "revoke"} /\ req[q].holder = e => e \in torn'
BY DEF Overlap

LEMMA CreateUserIInv ==
  ASSUME PkiIInv, NEW r \in Req, NEW s \in Serial, NEW e \in Email, CreateUser(r, s, e)
  PROVE  PkiIInv'
<1>0. TypeOK /\ RowsListed /\ ReqsSound
  BY DEF PkiIInv
<1>1. /\ boot = Up /\ req[r].pc = "idle" /\ users[e].status = "absent" /\ Sign(s, "user")
      /\ certs' = NewUserCert(s, e, {})
      /\ users' = [users EXCEPT ![e] = [status |-> "active", serial |-> s]]
      /\ UNCHANGED <<ca, revoked, setup, req, torn>>
  BY DEF CreateUser, Begin
<1>2. \A u \in Serial : ~(certs[u].kind = "user" /\ certs[u].holder = e)
  BY <1>0, <1>1 DEF RowsListed, RowOk
<1>3. \A q \in Req : ~(req[q].pc \in {"issue", "revoke"} /\ req[q].holder = e)
  BY <1>0, <1>1 DEF ReqsSound, ReqOk
<1>4. req[r] = NoReq /\ req[r].via = NoOne
  BY <1>0, <1>1, NoReqFacts DEF ReqsSound, ReqOk
<1>5. /\ req' \in [Req -> Request] /\ req'[r] = NoReq /\ \A q \in Req \ {r} : req'[q] = req[q]
      /\ torn \subseteq torn' /\ torn' \subseteq Email \cup Setup /\ revoked' = revoked \cup {}
      /\ UNCHANGED <<ca, setup>>
  BY <1>0, <1>1, <1>4 DEF TypeOK
<1>6. {} \in SUBSET Serial
  OBVIOUS
<1> SUFFICES ASSUME NEW S \in SUBSET Serial, S = {} PROVE PkiIInv'
  BY <1>6, Zenon
<1>7. /\ certs' = NewUserCert(s, e, S) /\ revoked' = revoked \cup S
      /\ \A u \in S : certs[u].status # "none"
  BY <1>1
<1>8. UserCert(r, s, e, S)
  BY <1>1, <1>2, <1>3, <1>4, <1>5, <1>7 DEF UserCert
<1> QED BY <1>8, UserCertIInv

LEMMA CommitIssueIInv ==
  ASSUME PkiIInv, NEW r \in Req, NEW s \in Serial, CommitIssue(r, s)
  PROVE  PkiIInv'
<1> USE PkiAssumption
<1> SUFFICES ASSUME NEW k \in Request, k = req[r] PROVE PkiIInv'
  BY DEF PkiIInv, TypeOK
<1>0. /\ TypeOK /\ RowsListed /\ ReqsSound /\ OnlyCurrentLives /\ ReqOk(r)
      /\ k.pc = "issue" /\ k.holder \in Email /\ k.todo \in SUBSET Serial /\ k.via = NoOne
      /\ \A u \in k.todo : certs[u].status # "none"
      /\ k.holder \notin torn =>
           k.todo = IF users[k.holder].status = "active" THEN {users[k.holder].serial} ELSE {}
  BY DEF PkiIInv, ReqsSound, CommitIssue, ReqOk, Request
<1> SUFFICES ASSUME NEW e \in Email, e = k.holder, NEW S \in SUBSET Serial, S = k.todo
             PROVE  PkiIInv'
  BY <1>0
<1>1. /\ Sign(s, "user") /\ certs' = NewUserCert(s, e, S) /\ revoked' = revoked \cup S
      /\ users' = [users EXCEPT ![e] = [status |-> "active", serial |-> s]]
      /\ Overlap(r, e) /\ req' = [req EXCEPT ![r] = NoReq] /\ UNCHANGED <<ca, setup>>
  BY DEF CommitIssue, Answer
<1>2. boot = Up
  BY <1>0 DEF PkiIInv, BootSound
<1>3. /\ torn \subseteq torn' /\ torn' \subseteq torn \cup {e}
      /\ \A q \in Req \ {r} : req[q].pc \in {"issue", "revoke"} /\ req[q].holder = e => e \in torn'
  BY <1>1, OverlapFacts
<1>4. torn' \subseteq Email \cup Setup
  BY <1>0, <1>3 DEF TypeOK
<1>5. (e \in torn') \/ (\A u \in Serial :
          certs[u].kind = "user" /\ certs[u].holder = e /\ certs[u].status = "active" => u \in S)
  <2> SUFFICES ASSUME e \notin torn', NEW u \in Serial, certs[u].kind = "user",
                      certs[u].holder = e, certs[u].status = "active"
               PROVE  u \in S
    OBVIOUS
  <2>1. users[e] = [status |-> "active", serial |-> u]
    BY <1>0, <1>3 DEF OnlyCurrentLives
  <2>2. users[e].status = "active" /\ users[e].serial = u
    BY <2>1
  <2> QED BY <1>0, <1>3, <2>2
<1>6. req' \in [Req -> Request] /\ req'[r] = NoReq /\ \A q \in Req \ {r} : req'[q] = req[q]
  BY <1>0, <1>1, NoReqFacts DEF TypeOK
<1>7. (\A u \in S : certs[u].status # "none") /\ req[r].via = NoOne
  BY <1>0
<1>8. UserCert(r, s, e, S)
  BY <1>1, <1>2, <1>3, <1>4, <1>5, <1>6, <1>7 DEF UserCert
<1> QED BY <1>8, UserCertIInv

\* The revocation of a set of rows, with or without the user's row.
LEMMA RevokeIInv ==
  ASSUME PkiIInv, NEW r \in Req, NEW S \in SUBSET Serial, \A s \in S : certs[s].status # "none",
         certs' = Revoking(S), revoked' = revoked \cup S, UNCHANGED <<ca, signed, setup>>,
         req' \in [Req -> Request], \A q \in Req \ {r} : req'[q] = req[q],
         req[r].via = NoOne, req'[r].via = NoOne, req'[r].pc \in {"idle", "account"},
         ReqOk(r)', req'[r].pc # "idle" => boot = Up,
         torn \subseteq torn', torn' \subseteq Email \cup Setup,
         users' \in [Email -> User],
         \A e \in Email : users'[e] = users[e] \/
           (users[e].status # "absent" /\ users'[e].status = "revoked"),
         \A q \in Req \ {r} : req[q].pc \in {"issue", "revoke"} =>
           req[q].holder \in torn' \/ users'[req[q].holder] = users[req[q].holder],
         \A e \in Email : e \in torn' \/ users'[e] = users[e] \/
           \A s \in Serial : certs[s].kind = "user" /\ certs[s].holder = e
                             /\ certs[s].status = "active" => s \in S
  PROVE  PkiIInv'
<1> USE PkiAssumption
<1>0. TypeOK /\ RowsListed /\ ReqsSound /\ OnlyCurrentLives /\ TokensSound
  BY DEF PkiIInv
<1>1. /\ certs' \in [Serial -> Cert] /\ revoked' \subseteq Serial
      /\ \A s \in Serial : /\ s \notin S => certs'[s] = certs[s]
                           /\ s \in S => certs'[s].status = "revoked"
                           /\ certs'[s].kind = certs[s].kind
                           /\ certs'[s].holder = certs[s].holder
                           /\ certs'[s].via = certs[s].via
      /\ \A s \in Serial : certs'[s].status = "none" <=> certs[s].status = "none"
      /\ \A s \in Serial : certs'[s].status = "active" => certs'[s] = certs[s]
      /\ RevocationsListed'
  BY RevokeRows
<1>2. UNCHANGED <<files, boot, made, crashes, signed, setup>>
  BY DEF ca
<1>3. TypeOK'
  BY <1>0, <1>1, <1>2 DEF TypeOK
<1>4. Grows
  BY <1>1, <1>2 DEF Grows
<1>5. ASSUME NEW s \in Serial PROVE RowOk(s)'
  <2>1. certs'[s] = certs[s] \/ (certs[s].status # "none" /\ certs'[s].status # "none")
    BY <1>1
  <2> QED BY <1>4, <2>1, RowKept
<1>6. ASSUME NEW e \in Email PROVE UserOk(e)'
  <2>1. CASE users'[e] = users[e]
    BY <1>4, <2>1, UserKept
  <2>2. CASE users'[e] # users[e]
    BY <2>2 DEF UserOk
  <2> QED BY <2>1, <2>2
<1>7. ASSUME NEW q \in Req PROVE ReqOk(q)'
  <2>1. CASE q = r
    BY <2>1
  <2>2. CASE q # r
    <3>0. ReqOk(q) /\ req'[q] = req[q]
      BY <1>0, <2>2 DEF ReqsSound
    <3>1. ASSUME req[q].pc = "record"
          PROVE  /\ certs'[req[q].serial].status = "none"
                 /\ \A p \in Req \ {q} : req'[p].pc = "record" => req'[p].serial # req[q].serial
      BY <1>1, <3>0, <3>1 DEF ReqOk
    <3> QED BY <1>4, <2>2, <3>0, <3>1, ReqKept
  <2> QED BY <2>1, <2>2
<1>8. ASSUME NEW e \in Email
      PROVE  e \in torn' \/ \A s \in Serial :
               certs'[s].kind = "user" /\ certs'[s].holder = e /\ certs'[s].status = "active"
                 => users'[e] = [status |-> "active", serial |-> s]
  <2>1. CASE e \in torn' \/ users'[e] = users[e]
    <3>1. \A s \in Serial : certs'[s].kind = "user" /\ certs'[s].holder = e
             /\ certs'[s].status = "active" => certs'[s] = certs[s]
      BY <1>1
    <3> QED BY <2>1, <3>1, LivesKept
  <2>2. CASE e \notin torn' /\ users'[e] # users[e]
    <3>1. \A s \in Serial : certs[s].kind = "user" /\ certs[s].holder = e
                             /\ certs[s].status = "active" => s \in S
      BY <2>2
    <3>2. ASSUME NEW s \in Serial, certs'[s].kind = "user", certs'[s].holder = e,
                 certs'[s].status = "active"
          PROVE  FALSE
      BY <1>1, <3>1, <3>2
    <3> QED BY <3>2
  <2> QED BY <2>1, <2>2
<1>9. ASSUME NEW t \in Setup PROVE TokenOk(t)'
  <2>1. \A s \in Serial : certs'[s].via = t <=> certs[s].via = t
    BY <1>1
  <2>2. \A q \in Req : (req'[q].via = t <=> req[q].via = t) /\ (req[q].via = t => req'[q] = req[q])
    OBVIOUS
  <2>3. setup'[t] = setup[t]
    BY <1>2
  <2> QED BY <1>4, <2>1, <2>2, <2>3, TokenKept
<1>10. /\ \A s \in Serial : RowOk(s)'
       /\ \A e \in Email : UserOk(e)'
       /\ \A q \in Req : ReqOk(q)'
       /\ \A t \in Setup : TokenOk(t)'
       /\ \A e \in Email : e \in torn' \/ \A s \in Serial :
            certs'[s].kind = "user" /\ certs'[s].holder = e /\ certs'[s].status = "active"
              => users'[e] = [status |-> "active", serial |-> s]
       /\ \A s \in Serial : signed'[s] = signed[s] \/ \E c \in Ca : files[c].crt = signed'[s]
  BY <1>2, <1>5, <1>6, <1>7, <1>8, <1>9
<1> QED BY <1>1, <1>2, <1>3, <1>4, <1>10, RequestIInv

LEMMA CommitRevokeIInv == ASSUME PkiIInv, NEW r \in Req, CommitRevoke(r) PROVE PkiIInv'
<1> USE PkiAssumption
<1> SUFFICES ASSUME NEW k \in Request, k = req[r] PROVE PkiIInv'
  BY DEF PkiIInv, TypeOK
<1>0. /\ TypeOK /\ RowsListed /\ ReqsSound /\ OnlyCurrentLives /\ ReqOk(r)
      /\ k.pc = "revoke" /\ k.holder \in Email /\ k.todo \in SUBSET Serial /\ k.via = NoOne
      /\ users[k.holder].status # "absent"
      /\ \A u \in k.todo : certs[u].status # "none"
      /\ k.holder \notin torn => users[k.holder].status = "active"
                                 /\ k.todo = {users[k.holder].serial}
  BY DEF PkiIInv, ReqsSound, CommitRevoke, ReqOk, Request
<1> SUFFICES ASSUME NEW e \in Email, e = k.holder, NEW S \in SUBSET Serial, S = k.todo
             PROVE  PkiIInv'
  BY <1>0
<1>1. /\ certs' = Revoking(S) /\ revoked' = revoked \cup S
      /\ users' = [users EXCEPT ![e].status = "revoked"]
      /\ Overlap(r, e) /\ req' = [req EXCEPT ![r] = NoReq] /\ UNCHANGED <<ca, signed, setup>>
  BY DEF CommitRevoke, Answer
<1>2. /\ torn \subseteq torn' /\ torn' \subseteq torn \cup {e}
      /\ \A q \in Req \ {r} : req[q].pc \in {"issue", "revoke"} /\ req[q].holder = e => e \in torn'
  BY <1>1, OverlapFacts
<1>3. torn' \subseteq Email \cup Setup
  BY <1>0, <1>2 DEF TypeOK
<1>4. req' \in [Req -> Request] /\ req'[r] = NoReq /\ \A q \in Req \ {r} : req'[q] = req[q]
  BY <1>0, <1>1, NoReqFacts DEF TypeOK
<1>5. users[e] \in User /\ [users[e] EXCEPT !.status = "revoked"] \in User
      /\ [users[e] EXCEPT !.status = "revoked"].status = "revoked"
  BY <1>0 DEF TypeOK, User
<1>6. /\ users' \in [Email -> User] /\ users'[e].status = "revoked"
      /\ \A x \in Email \ {e} : users'[x] = users[x]
  BY <1>0, <1>1, <1>5 DEF TypeOK
<1>7. \A u \in Serial :
         certs[u].kind = "user" /\ certs[u].holder = e /\ certs[u].status = "active"
           => u \in S \/ e \in torn
  <2> SUFFICES ASSUME e \notin torn, NEW u \in Serial, certs[u].kind = "user",
                      certs[u].holder = e, certs[u].status = "active"
               PROVE  u \in S
    OBVIOUS
  <2>1. users[e] = [status |-> "active", serial |-> u]
    BY <1>0 DEF OnlyCurrentLives
  <2>2. users[e].serial = u
    BY <2>1
  <2> QED BY <1>0, <2>2
<1>8. \A x \in Email : users'[x] = users[x] \/
         (users[x].status # "absent" /\ users'[x].status = "revoked")
  BY <1>0, <1>6
<1>9. \A q \in Req \ {r} : req[q].pc \in {"issue", "revoke"} =>
         req[q].holder \in torn' \/ users'[req[q].holder] = users[req[q].holder]
  BY <1>0, <1>2, <1>6 DEF ReqsSound, ReqOk
<1>10. \A x \in Email : x \in torn' \/ users'[x] = users[x] \/
           \A s \in Serial : certs[s].kind = "user" /\ certs[s].holder = x
                             /\ certs[s].status = "active" => s \in S
  BY <1>2, <1>6, <1>7
<1>11. ReqOk(r)'
  BY <1>4, IdleOk
<1>12. \A s \in S : certs[s].status # "none"
  BY <1>0
<1>13. req[r].via = NoOne /\ req'[r].via = NoOne /\ req'[r].pc = "idle"
  BY <1>0, <1>4, NoReqFacts
<1> QED
  BY <1>1, <1>2, <1>3, <1>4, <1>6, <1>8, <1>9, <1>10, <1>11, <1>12, <1>13, RevokeIInv

LEMMA RevokeSerialIInv ==
  ASSUME PkiIInv, NEW r \in Req, NEW s \in Serial, RevokeSerial(r, s)
  PROVE  PkiIInv'
<1>0. TypeOK /\ ReqsSound
  BY DEF PkiIInv
<1>1. /\ boot = Up /\ req[r].pc = "idle" /\ certs[s].status = "active"
      /\ certs' = Revoking({s}) /\ revoked' = revoked \cup {s}
      /\ UNCHANGED <<ca, signed, users, setup, req, torn>>
  BY DEF RevokeSerial, Begin
<1>2. req[r] = NoReq /\ req[r].via = NoOne
  BY <1>0, <1>1, NoReqFacts DEF ReqsSound, ReqOk
<1>3. /\ req' \in [Req -> Request] /\ \A q \in Req \ {r} : req'[q] = req[q]
      /\ req'[r] = NoReq /\ req'[r].via = NoOne /\ req'[r].pc = "idle"
      /\ torn' \subseteq Email \cup Setup /\ users' \in [Email -> User]
      /\ torn \subseteq torn'
  BY <1>0, <1>1, <1>2 DEF TypeOK
<1>4. ReqOk(r)'
  BY <1>3, IdleOk
<1>5. {s} \in SUBSET Serial /\ \A u \in {s} : certs[u].status # "none"
  BY <1>1
<1>6. \A e \in Email : users'[e] = users[e]
  BY <1>1
<1>7. \A q \in Req \ {r} : users'[req[q].holder] = users[req[q].holder]
  BY <1>1
<1>8. UNCHANGED <<ca, signed, setup>>
  BY <1>1
<1> QED BY <1>1, <1>2, <1>3, <1>4, <1>5, <1>6, <1>7, <1>8, RevokeIInv

LEMMA RevokeNextIInv ==
  ASSUME PkiIInv, NEW r \in Req, NEW s \in Serial, RevokeNext(r, s)
  PROVE  PkiIInv'
<1> USE PkiAssumption
<1> SUFFICES ASSUME NEW k \in Request, k = req[r] PROVE PkiIInv'
  BY DEF PkiIInv, TypeOK
<1>0. /\ TypeOK /\ ReqsSound /\ ReqOk(r) /\ k.pc = "account" /\ k.via = NoOne
      /\ k.todo \in SUBSET Serial /\ \A u \in k.todo : certs[u].status # "none"
      /\ boot = Up
  BY DEF PkiIInv, BootSound, ReqsSound, RevokeNext, ReqOk, Request
<1> SUFFICES ASSUME NEW S \in SUBSET Serial,
                    S = {s} \cap {t \in Serial : certs[t].status = "active"}
             PROVE  PkiIInv'
  OBVIOUS
<1> DEFINE next == IF k.todo = {s} THEN NoReq ELSE [k EXCEPT !.todo = k.todo \ {s}]
<1>1. /\ certs' = Revoking(S) /\ revoked' = revoked \cup S
      /\ req' = [req EXCEPT ![r] = next] /\ UNCHANGED <<ca, signed, users, setup, torn>>
  <2>1. /\ certs' = Revoking(S) /\ revoked' = revoked \cup S
        /\ UNCHANGED <<ca, signed, users, setup, torn>>
    BY DEF RevokeNext
  <2>2. req' = [req EXCEPT ![r] = IF k.todo = {s} THEN NoReq ELSE [k EXCEPT !.todo = k.todo \ {s}]]
    BY DEF RevokeNext
  <2>3. req' = [req EXCEPT ![r] = next]
    BY <2>2
  <2> QED BY <2>1, <2>3
<1>2. /\ next \in Request /\ next.via = NoOne /\ next.pc \in {"idle", "account"}
      /\ next.pc = "idle" => next = NoReq
      /\ next.todo \subseteq k.todo
  <2>1. CASE k.todo = {s}
    BY <2>1, NoReqFacts
  <2>2. CASE k.todo # {s}
    <3> DEFINE less == [k EXCEPT !.todo = k.todo \ {s}]
    <3>1. less \in Request /\ less.via = k.via /\ less.pc = k.pc /\ less.todo = k.todo \ {s}
      BY <1>0 DEF Request
    <3> HIDE DEF less
    <3>2. next = less
      BY <2>2 DEF less
    <3> HIDE DEF next
    <3> QED BY <1>0, <3>1, <3>2
  <2> QED BY <2>1, <2>2
<1> HIDE DEF next
<1>3. req' \in [Req -> Request] /\ req'[r] = next /\ \A q \in Req \ {r} : req'[q] = req[q]
  BY <1>0, <1>1, <1>2 DEF TypeOK
<1>4. \A u \in S : certs[u].status # "none"
  OBVIOUS
<1>5. \A u \in next.todo : certs'[u].status # "none"
  <2>1. \A u \in Serial : certs'[u].status = "none" <=> certs[u].status = "none"
    BY <1>1, <1>4, RevokeRows
  <2> QED BY <1>0, <1>2, <2>1
<1>6. ReqOk(r)'
  BY <1>2, <1>3, <1>5 DEF ReqOk
<1>7. /\ torn' \subseteq Email \cup Setup /\ users' \in [Email -> User] /\ torn \subseteq torn'
      /\ req[r].via = NoOne /\ req'[r].via = NoOne /\ req'[r].pc \in {"idle", "account"}
      /\ \A e \in Email : users'[e] = users[e]
      /\ UNCHANGED <<ca, signed, setup>>
  BY <1>0, <1>1, <1>2, <1>3 DEF TypeOK
<1>8. \A q \in Req \ {r} : users'[req[q].holder] = users[req[q].holder]
  BY <1>1
<1> QED BY <1>0, <1>1, <1>3, <1>4, <1>6, <1>7, <1>8, RevokeIInv

-----------------------------------------------------------------------------
(* Failures.                                                               *)

\* A token whose requests end: those that had recorded a certificate are noted.
LEMMA TokenCut ==
  ASSUME PkiIInv, NEW t \in Setup, UNCHANGED <<certs, setup>>, torn \subseteq torn',
         \A q \in Req : \/ req'[q] = req[q]
                        \/ /\ req'[q] = NoReq
                           /\ req[q].pc = "mark" => req[q].via \in torn'
  PROVE  TokenOk(t)'
<1> USE PkiAssumption
<1>0. TokenOk(t)
  BY DEF PkiIInv, TokensSound
<1>1. ASSUME NEW q \in InWizard(t)' PROVE q \in InWizard(t) /\ req'[q] = req[q]
  BY <1>1, NoReqFacts DEF InWizard
<1>2. ASSUME t \notin torn', NEW q \in InWizard(t), req[q].pc = "mark"
      PROVE  q \in InWizard(t)' /\ req'[q] = req[q]
  BY <1>2 DEF InWizard
<1>3. ASSUME t \notin torn', NEW s \in Serial, certs'[s].via = t
      PROVE  \/ setup'[t].state = "used" /\ InWizard(t)' = {}
             \/ \E r \in InWizard(t)' : req'[r].pc = "mark" /\ req'[r].serial = s
  <2>0. t \notin torn /\ certs[s].via = t
    BY <1>3
  <2>1. CASE setup[t].state = "used" /\ InWizard(t) = {}
    BY <1>1, <2>1
  <2>2. CASE \E r \in InWizard(t) : req[r].pc = "mark" /\ req[r].serial = s
    <3> PICK r \in InWizard(t) : req[r].pc = "mark" /\ req[r].serial = s
      BY <2>2
    <3> QED BY <1>2, <1>3
  <2> QED BY <1>0, <2>0, <2>1, <2>2 DEF TokenOk
<1>4. t \notin torn' => /\ \A q, r \in InWizard(t)' : q = r
                        /\ \A s, u \in Serial : certs'[s].via = t /\ certs'[u].via = t => s = u
  BY <1>0, <1>1 DEF TokenOk
<1>5. setup'[t].state = "used" =>
         /\ setup'[t].serial \in Serial
         /\ certs'[setup'[t].serial].status # "none" /\ certs'[setup'[t].serial].via = t
         /\ certs'[setup'[t].serial].holder = setup'[t].email
  BY <1>0 DEF TokenOk
<1> QED BY <1>3, <1>4, <1>5 DEF TokenOk

\* The tokens of the requests that are cut, whichever they are.
LEMMA CutFacts ==
  ASSUME PkiIInv, NEW R \in SUBSET Req
  PROVE  /\ CutTokens(R) \subseteq Setup
         /\ \A q \in R : req[q].pc = "mark" => req[q].via \in CutTokens(R)
<1>1. ASSUME NEW q \in Req, req[q].pc = "mark" PROVE req[q].via \in Setup
  BY <1>1 DEF PkiIInv, ReqsSound, ReqOk, TypeOK, Request
<1> QED BY <1>1 DEF CutTokens

\* Requests end; nothing else is written.
LEMMA EndIInv ==
  ASSUME PkiIInv, NEW R \in SUBSET Req,
         req' \in [Req -> Request], torn' = torn \cup CutTokens(R),
         \A q \in R : req'[q] = NoReq, \A q \in Req \ R : req'[q] = req[q],
         UNCHANGED <<files, made, signed, certs, revoked, users, setup>>,
         crashes' \in Nat, boot' = boot \/ (boot' = Down /\ R = Req)
  PROVE  PkiIInv'
<1>0. TypeOK /\ RowsListed /\ ReqsSound /\ OnlyCurrentLives /\ TokensSound
  BY DEF PkiIInv
<1>1. /\ CutTokens(R) \subseteq Setup
      /\ \A q \in R : req[q].pc = "mark" => req[q].via \in CutTokens(R)
  BY CutFacts
<1>2. TypeOK'
  BY <1>0, <1>1, CaTuples DEF TypeOK
<1>3. Grows
  BY DEF Grows
<1>4. RowsListed'
  BY <1>0 DEF RowsListed, RevocationsListed, RowOk, UserOk
<1>5. ReqsSound'
  <2> SUFFICES ASSUME NEW q \in Req PROVE ReqOk(q)'
    BY DEF ReqsSound
  <2>1. CASE q \in R
    BY <2>1, IdleOk
  <2>2. CASE q \notin R
    <3>1. req'[q] = req[q] /\ ReqOk(q)
      BY <1>0, <2>2 DEF ReqsSound
    <3>2. ASSUME req[q].pc = "record"
          PROVE  /\ certs'[req[q].serial].status = "none"
                 /\ \A p \in Req \ {q} : req'[p].pc = "record" => req'[p].serial # req[q].serial
      BY <3>1, <3>2, NoReqFacts DEF ReqOk
    <3>3. users'[req[q].holder] = users[req[q].holder]
      OBVIOUS
    <3> QED BY <1>3, <3>1, <3>2, <3>3, ReqKept
  <2> QED BY <2>1, <2>2
<1>6. OnlyCurrentLives'
  BY <1>0 DEF OnlyCurrentLives
<1>7. TokensSound'
  <2> SUFFICES ASSUME NEW t \in Setup PROVE TokenOk(t)'
    BY DEF TokensSound
  <2>1. \A q \in Req : \/ req'[q] = req[q]
                       \/ /\ req'[q] = NoReq
                          /\ req[q].pc = "mark" => req[q].via \in torn'
    BY <1>1
  <2> QED BY <2>1, TokenCut
<1>8. SignedSound' /\ FilesSound'
  BY DEF PkiIInv, SignedSound, FilesSound, Present
<1>9. BootSound'
  <2>1. CASE boot' = boot
    <3>1. \A q \in Req : req'[q].pc # "idle" => boot = Up
      BY NoReqFacts DEF PkiIInv, BootSound
    <3> QED BY <2>1, <3>1, CaKept
  <2>2. CASE boot' = Down /\ R = Req
    BY <2>2, CaTuples, NoReqFacts DEF BootSound
  <2> QED BY <2>1, <2>2
<1> QED BY <1>2, <1>4, <1>5, <1>6, <1>7, <1>8, <1>9 DEF PkiIInv

LEMMA PkiNextIInv == PkiIInv /\ [Next]_vars => PkiIInv'
<1> SUFFICES ASSUME PkiIInv, [Next]_vars PROVE PkiIInv'
  OBVIOUS
<1>0. TypeOK
  BY DEF PkiIInv
<1>1. CASE Initialize
  BY <1>1, InitializeIInv
<1>2. ASSUME NEW c \in Ca, SaveKey(c) \/ SaveCert(c) PROVE PkiIInv'
  BY <1>2, SaveKeyIInv, SaveCertIInv
<1>3. CASE Crash
  <2>1. req' \in [Req -> Request] /\ \A q \in Req : req'[q] = NoReq
    BY <1>3, NoReqFacts DEF Crash
  <2>2. Req \in SUBSET Req /\ crashes' \in Nat
    BY <1>0, <1>3 DEF Crash, TypeOK
  <2> QED BY <1>3, <2>1, <2>2, EndIInv DEF Crash
<1>4. ASSUME NEW r \in Req, Abort(r) PROVE PkiIInv'
  <2>1. req' \in [Req -> Request] /\ req'[r] = NoReq /\ \A q \in Req \ {r} : req'[q] = req[q]
    BY <1>0, <1>4, NoReqFacts DEF Abort, Answer, TypeOK
  <2>2. {r} \in SUBSET Req /\ crashes' \in Nat
    BY <1>0, <1>4 DEF Abort, TypeOK
  <2>3. \A q \in {r} : req'[q] = NoReq
    BY <2>1
  <2> QED BY <1>4, <2>1, <2>2, <2>3, EndIInv DEF Abort
<1>5. ASSUME NEW r \in Req, Serve(r) PROVE PkiIInv'
  <2>1. ASSUME NEW s \in Serial, NEW kind \in {"secc", "contract"}, Issue(r, s, kind, NoOne)
        PROVE  PkiIInv'
    BY <2>1, IssueIInv
  <2>2. ASSUME NEW s \in Serial, NEW e \in Email, Issue(r, s, "driver", e) PROVE PkiIInv'
    BY <2>2, IssueIInv
  <2>3. ASSUME NEW s \in Serial, NEW e \in Email, CreateUser(r, s, e) PROVE PkiIInv'
    BY <2>3, CreateUserIInv
  <2>4. ASSUME NEW s \in Serial, NEW t \in Setup, WizardIssue(r, s, t) PROVE PkiIInv'
    BY <2>4, WizardIssueIInv
  <2>5. ASSUME NEW s \in Serial, CommitIssue(r, s) PROVE PkiIInv'
    BY <2>5, CommitIssueIInv
  <2>6. ASSUME NEW s \in Serial, RevokeSerial(r, s) PROVE PkiIInv'
    BY <2>6, RevokeSerialIInv
  <2>7. ASSUME NEW s \in Serial, RevokeNext(r, s) PROVE PkiIInv'
    BY <2>7, RevokeNextIInv
  <2>8. ASSUME NEW e \in Email, NEW t \in Setup, CreateSetup(r, t, e) PROVE PkiIInv'
    BY <2>8, CreateSetupIInv
  <2>9. ASSUME NEW e \in Email,
               ReadForIssue(r, e) \/ ReadForRevoke(r, e) \/ RevokeAccount(r, e)
        PROVE  PkiIInv'
    BY <2>9, ReadIInv
  <2>10. CASE Record(r)
    BY <2>10, RecordIInv
  <2>11. CASE WizardMark(r)
    BY <2>11, WizardMarkIInv
  <2>12. CASE CommitRevoke(r)
    BY <2>12, CommitRevokeIInv
  <2> QED
    BY <1>4, <1>5, <2>1, <2>2, <2>3, <2>4, <2>5, <2>6, <2>7, <2>8, <2>9, <2>10, <2>11, <2>12
       DEF Serve
<1>6. CASE UNCHANGED vars
  <2>1. UNCHANGED database /\ UNCHANGED ca
    BY <1>6 DEF vars, database, ca
  <2>2. RowsListed' /\ ReqsSound' /\ OnlyCurrentLives' /\ TokensSound'
    BY <2>1, DatabaseKept
  <2>3. TypeOK' /\ FilesSound' /\ BootSound' /\ SignedSound'
    BY <1>6 DEF vars, PkiIInv, TypeOK, FilesSound, BootSound, SignedSound, Present
  <2> QED BY <2>2, <2>3 DEF PkiIInv
<1> QED BY <1>1, <1>2, <1>3, <1>5, <1>6 DEF Next

LEMMA PkiInvariance == Spec => []PkiIInv
<1> QED BY PkiInitIInv, PkiNextIInv, PTL DEF Spec

\* Whatever crashes: every certificate issued verifies against the CA on disk; the
\* revocation list is the table's; of a user's certificates only the current one
\* lives, and a setup token gives one certificate, for any number of holders,
\* tokens and requests, overlapping or cut, which the history sets apart
\* (pki/ca.py:34-242, ca_certs.py:31-287, users.py:75-311, cert_setup.py:50-232).
THEOREM CertificatesAreSound == Spec => []PkiSound
<1>1. PkiIInv => PkiSound
  <2> SUFFICES ASSUME PkiIInv PROVE PkiSound
    OBVIOUS
  <2>1. CaStable
    BY DEF PkiIInv, CaStable, FilesSound, SignedSound
  <2>2. RevocationHolds
    BY DEF PkiIInv, RevocationHolds, RowsListed
  <2>3. TokenGivesCert
    <3> SUFFICES ASSUME NEW t \in Setup
                 PROVE  /\ setup[t].state = "used" =>
                             LET k == certs[setup[t].serial]
                             IN  k.status # "none" /\ k.via = t /\ k.holder = setup[t].email
                        /\ t \in torn \/ Cardinality({s \in Serial : certs[s].via = t}) <= 1
      BY DEF TokenGivesCert
    <3>1. TokenOk(t)
      BY DEF PkiIInv, TokensSound
    <3>2. ASSUME t \notin torn PROVE Cardinality({s \in Serial : certs[s].via = t}) <= 1
      <4>1. \A s, u \in {x \in Serial : certs[x].via = t} : s = u
        BY <3>1, <3>2 DEF TokenOk
      <4> QED BY <4>1, AtMostOne
    <3> QED BY <3>1, <3>2 DEF TokenOk
  <2> QED BY <2>1, <2>2, <2>3 DEF PkiSound
<1> QED BY PkiInvariance, <1>1, PTL

-----------------------------------------------------------------------------
(* Backups.  The database, and every dump of it, is sound on its own.      *)

IsBase(b) ==
    /\ b \in [rows : {b.rows}, next : 1..(MaxRecords + 1), log : SUBSET Entry]
    /\ DOMAIN b.rows \subseteq Number
    /\ \A n \in DOMAIN b.rows : b.rows[n] \in Row

AreDumps(D) ==
    /\ DOMAIN D \subseteq Second
    /\ \A f \in DOMAIN D : D[f].whole \in BOOLEAN /\ IsBase(D[f].base)

BackupShapes ==
    /\ IsBase(base)
    /\ AreDumps(dumps)
    /\ second \in Second
    /\ job \in [Job -> BackupStep]
    /\ restored \subseteq Second
    /\ blurred \in BOOLEAN
    /\ jobs \in Nat

\* The dump of a listed backup was taken before it got its number, by the
\* dumps D, the blur u and the restored R.
RowsKept(b, D, u, R) ==
    /\ \A n \in DOMAIN b.rows : b.rows[n].file \in DOMAIN D
    /\ ~u => /\ \A n \in DOMAIN b.rows :
                  /\ D[b.rows[n].file].whole
                  /\ D[b.rows[n].file].base.next <= n /\ n < b.next
                  /\ b.rows[n].status = "restored" => b.rows[n].file \in R
             /\ \A e \in b.log : e.event = "update" /\ e.backup # 0 =>
                  e.backup \in DOMAIN b.rows /\ b.rows[e.backup].file = e.file

\* What a request has read is still so; and the database that a request has put
\* back has no record of the backup it came from.
JobOk(k, b, D, u) ==
    /\ k.pc = "idle" => k = NoJob
    /\ k.pc = "record" =>
         /\ k.file \in DOMAIN D /\ k.backup = 0
         /\ ~u => D[k.file].whole /\ D[k.file].base.next <= b.next
    /\ k.pc = "note" /\ k.backup # 0 /\ ~u =>
         k.backup \in DOMAIN b.rows /\ b.rows[k.backup].file = k.file
    /\ k.pc = "restore" =>
         /\ k.file \in DOMAIN D
         /\ ~u => D[k.file].base.next <= k.backup
    /\ k.pc \in {"log", "mark"} /\ ~u => k.backup \notin DOMAIN b.rows

BackupsIInv ==
    /\ BackupShapes
    /\ RowsKept(base, dumps, blurred, restored)
    /\ \A f \in DOMAIN dumps : RowsKept(dumps[f].base, dumps, blurred, restored)
    /\ \A j \in Job : JobOk(job[j], base, dumps, blurred)

\* Dumps are added, and only a blur replaces one.
Later(D, u, R, D2, u2, R2) ==
    /\ DOMAIN D \subseteq DOMAIN D2 /\ R \subseteq R2 /\ (u => u2)
    /\ ~u2 => \A f \in DOMAIN D : D2[f] = D[f]

LEMMA RowsFrame ==
  ASSUME NEW b, NEW D, NEW D2, NEW u \in BOOLEAN, NEW u2 \in BOOLEAN, NEW R, NEW R2,
         RowsKept(b, D, u, R), Later(D, u, R, D2, u2, R2)
  PROVE  RowsKept(b, D2, u2, R2)
BY DEF RowsKept, Later

\* What a request has read stays so, whatever else is recorded.
LEMMA JobFrame ==
  ASSUME NEW k \in BackupStep, NEW b, NEW b2, NEW D, NEW D2, NEW u \in BOOLEAN,
         NEW u2 \in BOOLEAN, NEW R, NEW R2, IsBase(b), IsBase(b2), AreDumps(D),
         JobOk(k, b, D, u), Later(D, u, R, D2, u2, R2),
         u2 \/ /\ b.next <= b2.next
               /\ \A n \in DOMAIN b.rows :
                    n \in DOMAIN b2.rows /\ b2.rows[n].file = b.rows[n].file
               /\ k.pc \in {"log", "mark"} => k.backup \notin DOMAIN b2.rows \ DOMAIN b.rows
  PROVE  JobOk(k, b2, D2, u2)
<1>0. BackupAssumption
  BY BackupAssumption
<1>1. b.next \in Nat /\ b2.next \in Nat /\ \A f \in DOMAIN D : D[f].base.next \in Nat
  BY <1>0 DEF IsBase, AreDumps, BackupAssumption
<1>2. CASE u2 = TRUE
  BY <1>2 DEF JobOk, Later
<1>3. CASE u2 = FALSE
  <2>1. u = FALSE /\ DOMAIN D \subseteq DOMAIN D2 /\ \A f \in DOMAIN D : D2[f] = D[f]
    BY <1>3 DEF Later
  <2> QED BY <1>1, <1>3, <2>1 DEF JobOk
<1> QED BY <1>2, <1>3

LEMMA BackupStepIInv ==
  ASSUME BackupsIInv, BackupShapes',
         Later(dumps, blurred, restored, dumps', blurred', restored'),
         RowsKept(base', dumps', blurred', restored'),
         \A f \in DOMAIN dumps' : \/ f \in DOMAIN dumps /\ dumps'[f] = dumps[f]
                                  \/ RowsKept(dumps'[f].base, dumps', blurred', restored'),
         \A j \in Job : JobOk(job'[j], base', dumps', blurred')
  PROVE  BackupsIInv'
<1>1. blurred \in BOOLEAN /\ blurred' \in BOOLEAN
  BY DEF BackupsIInv, BackupShapes
<1>2. ASSUME NEW f \in DOMAIN dumps'
      PROVE  RowsKept(dumps'[f].base, dumps', blurred', restored')
  <2>1. CASE f \in DOMAIN dumps /\ dumps'[f] = dumps[f]
    <3>1. RowsKept(dumps[f].base, dumps, blurred, restored)
      BY <2>1 DEF BackupsIInv
    <3> SUFFICES ASSUME NEW b, b = dumps[f].base PROVE RowsKept(b, dumps', blurred', restored')
      BY <2>1
    <3> QED BY <1>1, <3>1, RowsFrame
  <2> QED BY <1>2, <2>1
<1> QED BY <1>2 DEF BackupsIInv

LEMMA NoJobFacts == NoJob \in BackupStep /\ NoJob.pc = "idle" /\ NoJob.backup = 0
                    /\ 0 \in Second /\ \A k \in BackupStep : k.file \in Second
BY BackupAssumption DEF NoJob, BackupStep, Second, BackupAssumption

LEMMA MakeBase ==
  ASSUME NEW rows, NEW next \in 1..(MaxRecords + 1), NEW log \in SUBSET Entry,
         DOMAIN rows \subseteq Number, \A n \in DOMAIN rows : rows[n] \in Row,
         NEW b, b = [rows |-> rows, next |-> next, log |-> log]
  PROVE  IsBase(b) /\ b.rows = rows /\ b.next = next /\ b.log = log
BY DEF IsBase

LEMMA BaseShape ==
  ASSUME NEW b, IsBase(b)
  PROVE  /\ b = [rows |-> b.rows, next |-> b.next, log |-> b.log]
         /\ b.next \in 1..(MaxRecords + 1) /\ b.log \in SUBSET Entry /\ DOMAIN b.rows \subseteq Number
         /\ \A n \in DOMAIN b.rows : b.rows[n] \in Row
         /\ \A L : [b EXCEPT !.log = L] = [rows |-> b.rows, next |-> b.next, log |-> L]
         /\ \A m : [b EXCEPT !.next = m] = [rows |-> b.rows, next |-> m, log |-> b.log]
         /\ \A x : [b EXCEPT !.rows = x] = [rows |-> x, next |-> b.next, log |-> b.log]
BY DEF IsBase

LEMMA NumberedBase ==
  ASSUME NEW b, IsBase(b), NEW m, NEW x, NEW c, c = [b EXCEPT !.next = m, !.rows = x]
  PROVE  c = [rows |-> x, next |-> m, log |-> b.log]
BY DEF IsBase

LEMMA EmptyBase == IsBase(Empty) /\ \A D, u, R : RowsKept(Empty, D, u, R)
<1>1. DOMAIN Empty.rows = {} /\ Empty.next = 1 /\ Empty.log = {}
  BY DEF Empty
<1>2. IsBase(Empty)
  <2>1. 1 \in 1..(MaxRecords + 1) /\ {} \in SUBSET Entry
    BY BackupAssumption DEF BackupAssumption
  <2> QED BY <1>1, <2>1 DEF IsBase, Empty
<1> QED BY <1>1, <1>2 DEF RowsKept

LEMMA BackupInitIInv == BackupInit => BackupsIInv
<1> SUFFICES ASSUME BackupInit PROVE BackupsIInv
  OBVIOUS
<1>1. DOMAIN dumps = {} /\ restored = {} /\ base = Empty
  BY DEF BackupInit
<1>2. \A j \in Job : job[j] = NoJob
  BY DEF BackupInit
<1>3. BackupShapes
  <2>1. IsBase(base)
    BY <1>1, EmptyBase
  <2>2. job \in [Job -> BackupStep]
    BY NoJobFacts DEF BackupInit
  <2>3. second \in Second /\ jobs \in Nat /\ blurred \in BOOLEAN
    BY NoJobFacts DEF BackupInit
  <2> QED BY <1>1, <2>1, <2>2, <2>3 DEF BackupShapes, AreDumps
<1>4. \A j \in Job : JobOk(job[j], base, dumps, blurred)
  BY <1>2, NoJobFacts DEF JobOk
<1>5. RowsKept(base, dumps, blurred, restored)
  BY <1>1, EmptyBase
<1> QED BY <1>1, <1>3, <1>4, <1>5 DEF BackupsIInv

\* Steps that leave the database, the dumps and the history sets alone.
LEMMA JobStepIInv ==
  ASSUME BackupsIInv, UNCHANGED <<base, dumps, restored, blurred>>, second' \in Second,
         job' \in [Job -> BackupStep], jobs' \in Nat,
         \A j \in Job : job'[j] = job[j] \/ JobOk(job'[j], base, dumps, blurred)
  PROVE  BackupsIInv'
<1>1. BackupShapes'
  BY DEF BackupsIInv, BackupShapes
<1>2. \A j \in Job : JobOk(job'[j], base, dumps, blurred)
  BY DEF BackupsIInv
<1> QED BY <1>1, <1>2 DEF BackupsIInv

\* The jobs when one is set: the others are as they were.
LEMMA JobSet ==
  ASSUME job \in [Job -> BackupStep], NEW j \in Job, NEW k \in BackupStep,
         job' = [job EXCEPT ![j] = k]
  PROVE  /\ job' \in [Job -> BackupStep] /\ job'[j] = k
         /\ \A i \in Job \ {j} : job'[i] = job[i]
OBVIOUS

LEMMA TickIInv == ASSUME BackupsIInv, Tick PROVE BackupsIInv'
<1>1. second' \in Second
  BY BackupAssumption DEF Tick, BackupsIInv, BackupShapes, Second, BackupAssumption
<1> QED BY <1>1, JobStepIInv DEF Tick, BackupsIInv, BackupShapes

LEMMA FindBackupIInv ==
  ASSUME BackupsIInv, NEW j \in Job, NEW n \in Number, FindBackup(j, n)
  PROVE  BackupsIInv'
<1>1. n \in DOMAIN base.rows /\ jobs' \in Nat /\ second' \in Second
      /\ UNCHANGED <<base, dumps, restored, blurred>>
  BY DEF FindBackup, Counted, BackupsIInv, BackupShapes
<1>2. base.rows[n] \in Row /\ base.rows[n].file \in Second
  BY <1>1 DEF BackupsIInv, BackupShapes, IsBase, Row
<1> DEFINE k == [NoJob EXCEPT !.pc = "restore", !.backup = n, !.file = base.rows[n].file]
<1>3. k \in BackupStep /\ k.pc = "restore" /\ k.backup = n /\ k.file = base.rows[n].file
  BY <1>2 DEF NoJob, BackupStep
<1>4. job' = [job EXCEPT ![j] = k]
  BY DEF FindBackup
<1> HIDE DEF k
<1>5. JobOk(k, base, dumps, blurred)
  BY <1>1, <1>3 DEF BackupsIInv, RowsKept, JobOk
<1>6. job' \in [Job -> BackupStep] /\ \A i \in Job : job'[i] = job[i] \/ job'[i] = k
  BY <1>3, <1>4 DEF BackupsIInv, BackupShapes
<1> QED BY <1>1, <1>5, <1>6, JobStepIInv

LEMMA BackupCrashIInv ==
  ASSUME BackupsIInv, NEW j \in Job, BackupCrash(j)
  PROVE  BackupsIInv'
<1>1. JobOk(NoJob, base, dumps, blurred)
  BY NoJobFacts DEF JobOk
<1>2. job' \in [Job -> BackupStep] /\ \A i \in Job : job'[i] = job[i] \/ job'[i] = NoJob
  BY NoJobFacts DEF BackupCrash, Finish, BackupsIInv, BackupShapes
<1> QED BY <1>1, <1>2, JobStepIInv DEF BackupCrash, BackupsIInv, BackupShapes

LEMMA OldFacts ==
  ASSUME BackupsIInv
  PROVE  /\ IsBase(base) /\ AreDumps(dumps) /\ second \in Second /\ job \in [Job -> BackupStep]
         /\ restored \subseteq Second /\ blurred \in BOOLEAN /\ jobs \in Nat
         /\ RowsKept(base, dumps, blurred, restored)
         /\ \A j \in Job : JobOk(job[j], base, dumps, blurred) /\ job[j] \in BackupStep
         /\ Later(dumps, blurred, restored, dumps, blurred, restored)
BY DEF BackupsIInv, BackupShapes, Later

\* A dump, whole or not, under the name of the second.
Dumped(d) ==
    /\ d.whole \in BOOLEAN /\ IsBase(d.base) /\ dumps' = Put(dumps, second, d)
    /\ blurred' \in BOOLEAN /\ (blurred => blurred') /\ (second \in DOMAIN dumps => blurred')

LEMMA DumpedFacts ==
  ASSUME BackupsIInv, NEW d, Dumped(d)
  PROVE  /\ DOMAIN dumps' = DOMAIN dumps \cup {second} /\ dumps'[second] = d /\ AreDumps(dumps')
         /\ \A f \in DOMAIN dumps' \ {second} : f \in DOMAIN dumps /\ dumps'[f] = dumps[f]
         /\ Later(dumps, blurred, restored, dumps', blurred', restored)
<1>0. IsBase(base) /\ AreDumps(dumps) /\ second \in Second
  BY OldFacts
<1>1. DOMAIN dumps' = DOMAIN dumps \cup {second} /\ dumps'[second] = d
      /\ \A f \in DOMAIN dumps \ {second} : dumps'[f] = dumps[f]
  BY DEF Put, Dumped
<1>2. AreDumps(dumps')
  BY <1>0, <1>1 DEF AreDumps, Dumped
<1>3. Later(dumps, blurred, restored, dumps', blurred', restored)
  BY <1>1 DEF Later, Dumped
<1> QED BY <1>1, <1>2, <1>3

LEMMA DumpIInv ==
  ASSUME BackupsIInv, NEW j \in Job, NEW upgrade \in BOOLEAN, Dump(j, upgrade)
  PROVE  BackupsIInv'
<1>0. /\ IsBase(base) /\ AreDumps(dumps) /\ second \in Second /\ job \in [Job -> BackupStep]
      /\ restored \subseteq Second /\ blurred \in BOOLEAN /\ jobs \in Nat
      /\ RowsKept(base, dumps, blurred, restored)
      /\ \A i \in Job : JobOk(job[i], base, dumps, blurred) /\ job[i] \in BackupStep
  BY OldFacts
<1> DEFINE d == [whole |-> TRUE, base |-> base]
           k == [NoJob EXCEPT !.pc = "record", !.upgrade = upgrade, !.file = second]
<1>1. d.whole = TRUE /\ d.base = base
  OBVIOUS
<1>2. k \in BackupStep /\ k.pc = "record" /\ k.backup = 0 /\ k.file = second
  BY <1>0, NoJobFacts DEF NoJob, BackupStep
<1>3. /\ dumps' = Put(dumps, second, d) /\ job' = [job EXCEPT ![j] = k]
      /\ UNCHANGED <<base, second, restored>> /\ jobs' \in Nat
  BY <1>0 DEF Dump, Counted
<1>b. blurred' \in BOOLEAN /\ (blurred => blurred') /\ (second \in DOMAIN dumps => blurred')
  <2>1. blurred' = (blurred \/ second \in DOMAIN dumps \/ Replacing(j))
    BY DEF Dump
  <2> QED BY <2>1
<1>c. Dumped(d)
  BY <1>0, <1>1, <1>3, <1>b DEF Dumped
<1> HIDE DEF d, k
<1>4. /\ DOMAIN dumps' = DOMAIN dumps \cup {second} /\ dumps'[second] = d /\ AreDumps(dumps')
      /\ \A f \in DOMAIN dumps' \ {second} : f \in DOMAIN dumps /\ dumps'[f] = dumps[f]
      /\ Later(dumps, blurred, restored, dumps', blurred', restored)
  BY <1>c, DumpedFacts
<1>5. /\ job' \in [Job -> BackupStep] /\ job'[j] = k
      /\ \A i \in Job \ {j} : job'[i] = job[i]
  BY <1>0, <1>2, <1>3, JobSet
<1>6. BackupShapes'
  BY <1>0, <1>3, <1>4, <1>5, <1>b DEF BackupShapes
<1>7. RowsKept(base, dumps', blurred', restored)
  BY <1>0, <1>b, <1>4, RowsFrame
<1>8. ASSUME NEW i \in Job PROVE JobOk(job'[i], base, dumps', blurred')
  <2>1. CASE i = j
    <3>1. base.next \in Nat
      BY <1>0, BaseShape
    <3> QED BY <1>1, <1>2, <1>4, <1>5, <2>1, <3>1 DEF JobOk
  <2>2. CASE i # j
    <3>1. base.next \in Nat
      BY <1>0, BaseShape
    <3> SUFFICES ASSUME NEW x \in BackupStep, x = job[i] PROVE JobOk(x, base, dumps', blurred')
      BY <1>0, <1>5, <2>2
    <3>2. JobOk(x, base, dumps, blurred)
      BY <1>0
    <3> QED BY <1>0, <1>4, <1>b, <3>1, <3>2, JobFrame
  <2> QED BY <2>1, <2>2
<1> QED BY <1>1, <1>3, <1>4, <1>6, <1>7, <1>8, BackupStepIInv

\* Without a dump an update goes on, and has none to note.
LEMMA RunUpdateFacts ==
  ASSUME NEW j \in Job, NEW ok \in BOOLEAN, RunUpdate(j, ok), job \in [Job -> BackupStep]
  PROVE  /\ job' \in [Job -> BackupStep] /\ job'[j].pc = "note" /\ job'[j].backup = job[j].backup
         /\ \A i \in Job \ {j} : job'[i] = job[i]
<1> SUFFICES ASSUME NEW k \in BackupStep, k = job[j]
             PROVE  /\ job' \in [Job -> BackupStep] /\ job'[j].pc = "note"
                    /\ job'[j].backup = job[j].backup
                    /\ \A i \in Job \ {j} : job'[i] = job[i]
  OBVIOUS
<1> DEFINE k2 == [k EXCEPT !.pc = "note", !.ok = ok, !.upgrade = TRUE]
<1>1. k2 \in BackupStep /\ k2.pc = "note" /\ k2.backup = k.backup
  BY DEF BackupStep
<1>2. job' = [job EXCEPT ![j] = k2]
  BY DEF RunUpdate
<1> HIDE DEF k2
<1>3. /\ job' \in [Job -> BackupStep] /\ job'[j] = k2 /\ \A i \in Job \ {j} : job'[i] = job[i]
  BY <1>1, <1>2, JobSet
<1> QED BY <1>1, <1>3

LEMMA DumpFailsIInv ==
  ASSUME BackupsIInv, NEW j \in Job, NEW upgrade \in BOOLEAN, DumpFails(j, upgrade)
  PROVE  BackupsIInv'
<1>0. /\ IsBase(base) /\ AreDumps(dumps) /\ second \in Second /\ job \in [Job -> BackupStep]
      /\ restored \subseteq Second /\ blurred \in BOOLEAN /\ jobs \in Nat
      /\ RowsKept(base, dumps, blurred, restored)
      /\ \A i \in Job : JobOk(job[i], base, dumps, blurred) /\ job[i] \in BackupStep
  BY OldFacts
<1> DEFINE d == [whole |-> FALSE, base |-> Empty]
<1>1. d.whole = FALSE /\ d.base = Empty
  OBVIOUS
<1>2. /\ dumps' = Put(dumps, second, d)
      /\ UNCHANGED <<base, second, restored>> /\ jobs' \in Nat
  BY <1>0 DEF DumpFails, Counted
<1>b. blurred' \in BOOLEAN /\ (blurred => blurred') /\ (second \in DOMAIN dumps => blurred')
  <2>1. blurred' = (blurred \/ second \in DOMAIN dumps)
    BY DEF DumpFails
  <2> QED BY <2>1
<1>c. Dumped(d)
  BY <1>0, <1>1, <1>2, <1>b, EmptyBase DEF Dumped
<1> HIDE DEF d
<1>3. /\ DOMAIN dumps' = DOMAIN dumps \cup {second} /\ dumps'[second] = d /\ AreDumps(dumps')
      /\ \A f \in DOMAIN dumps' \ {second} : f \in DOMAIN dumps /\ dumps'[f] = dumps[f]
      /\ Later(dumps, blurred, restored, dumps', blurred', restored)
  BY <1>c, DumpedFacts
<1>4. job[j] = NoJob
  BY <1>0 DEF DumpFails, JobOk
<1>5. /\ job' \in [Job -> BackupStep] /\ \A i \in Job \ {j} : job'[i] = job[i]
      /\ (job'[j].pc = "note" /\ job'[j].backup = 0) \/ job'[j] = job[j]
  <2>1. CASE UNCHANGED job
    BY <1>0, <2>1
  <2>2. ASSUME NEW ok \in BOOLEAN, RunUpdate(j, ok)
        PROVE  /\ job' \in [Job -> BackupStep] /\ \A i \in Job \ {j} : job'[i] = job[i]
               /\ job'[j].pc = "note" /\ job'[j].backup = 0
    BY <1>0, <1>4, <2>2, RunUpdateFacts, NoJobFacts
  <2> QED BY <2>1, <2>2 DEF DumpFails
<1>6. BackupShapes'
  BY <1>0, <1>2, <1>3, <1>5, <1>b DEF BackupShapes
<1>7. RowsKept(base, dumps', blurred', restored)
      /\ RowsKept(d.base, dumps', blurred', restored)
  BY <1>0, <1>1, <1>3, <1>b, EmptyBase, RowsFrame
<1>8. ASSUME NEW i \in Job PROVE JobOk(job'[i], base, dumps', blurred')
  <2>1. CASE job'[i].pc = "note" /\ job'[i].backup = 0
    BY <2>1 DEF JobOk
  <2>2. CASE job'[i] = job[i]
    <3>1. base.next \in Nat
      BY <1>0, BaseShape
    <3> SUFFICES ASSUME NEW x \in BackupStep, x = job[i] PROVE JobOk(x, base, dumps', blurred')
      BY <1>0, <2>2
    <3>2. JobOk(x, base, dumps, blurred)
      BY <1>0
    <3> QED BY <1>0, <1>3, <1>b, <3>1, <3>2, JobFrame
  <2> QED BY <1>5, <2>1, <2>2
<1> QED BY <1>1, <1>2, <1>3, <1>6, <1>7, <1>8, BackupStepIInv

\* A step that sets the database to b, of which the dumps are sound.
Rebased(b) ==
    /\ base' = b /\ IsBase(b) /\ UNCHANGED <<dumps, second>>
    /\ restored \subseteq restored' /\ restored' \subseteq Second /\ jobs' \in Nat
    /\ blurred' \in BOOLEAN /\ (blurred => blurred')
    /\ job' \in [Job -> BackupStep] /\ RowsKept(b, dumps, blurred', restored')

LEMMA RebasedIInv ==
  ASSUME BackupsIInv, NEW b, Rebased(b), \A j \in Job : JobOk(job'[j], b, dumps, blurred')
  PROVE  BackupsIInv'
<1>1. BackupShapes'
  BY DEF BackupsIInv, BackupShapes, Rebased
<1>2. Later(dumps, blurred, restored, dumps', blurred', restored')
  BY DEF Later, Rebased
<1>3. dumps' = dumps /\ base' = b /\ RowsKept(b, dumps, blurred', restored')
  BY DEF Rebased
<1> QED BY <1>1, <1>2, <1>3, BackupStepIInv

\* What the other requests have read.
LEMMA RebasedOthers ==
  ASSUME BackupsIInv, NEW b, Rebased(b), NEW i \in Job, job'[i] = job[i],
         blurred' \/ /\ base.next <= b.next
                     /\ \A n \in DOMAIN base.rows :
                          n \in DOMAIN b.rows /\ b.rows[n].file = base.rows[n].file
                     /\ job[i].pc \in {"log", "mark"} =>
                          job[i].backup \notin DOMAIN b.rows \ DOMAIN base.rows
  PROVE  JobOk(job'[i], b, dumps, blurred')
<1>0. /\ IsBase(base) /\ AreDumps(dumps) /\ blurred \in BOOLEAN
      /\ JobOk(job[i], base, dumps, blurred) /\ job[i] \in BackupStep
  BY OldFacts
<1>1. /\ IsBase(b) /\ blurred' \in BOOLEAN
      /\ Later(dumps, blurred, restored, dumps, blurred', restored')
  BY DEF Rebased, Later
<1> SUFFICES ASSUME NEW k \in BackupStep, k = job[i] PROVE JobOk(k, b, dumps, blurred')
  BY <1>0
<1> QED BY <1>0, <1>1, JobFrame

LEMMA RecordBackupIInv ==
  ASSUME BackupsIInv, NEW j \in Job, RecordBackup(j)
  PROVE  BackupsIInv'
<1>0. /\ IsBase(base) /\ AreDumps(dumps) /\ second \in Second /\ job \in [Job -> BackupStep]
      /\ restored \subseteq Second /\ blurred \in BOOLEAN /\ jobs \in Nat
      /\ RowsKept(base, dumps, blurred, restored) /\ JobOk(job[j], base, dumps, blurred)
  BY OldFacts
<1> SUFFICES ASSUME NEW k \in BackupStep, k = job[j], NEW n \in Number, n = base.next
             PROVE  BackupsIInv'
  BY <1>0 DEF RecordBackup
<1> DEFINE row1 == [file |-> k.file, status |-> "active"]
           rows == Put(base.rows, n, row1)
           b == [rows |-> rows, next |-> n + 1, log |-> base.log]
<1>1. row1 \in Row /\ row1.file = k.file /\ row1.status = "active"
  BY NoJobFacts DEF Row
<1>2. /\ k.pc = "record" /\ n \notin DOMAIN base.rows /\ UNCHANGED <<dumps, second, restored, jobs>>
      /\ base' = [base EXCEPT !.next = n + 1, !.rows = rows]
  BY DEF RecordBackup
<1> HIDE DEF row1
<1>3. DOMAIN rows = DOMAIN base.rows \cup {n} /\ rows[n] = row1
      /\ \A m \in DOMAIN base.rows : rows[m] = base.rows[m]
  BY <1>2 DEF Put
<1> HIDE DEF rows
<1>4. base' = b
  BY <1>0, <1>2, NumberedBase
<1>5. IsBase(b) /\ b.rows = rows /\ b.next = n + 1 /\ b.log = base.log
  <2>1. n + 1 \in 1..(MaxRecords + 1)
    BY BackupAssumption DEF Number, BackupAssumption
  <2>2. DOMAIN rows \subseteq Number /\ \A m \in DOMAIN rows : rows[m] \in Row
    BY <1>0, <1>1, <1>3 DEF IsBase
  <2>3. base.log \in SUBSET Entry
    BY <1>0 DEF IsBase
  <2> QED BY <2>1, <2>2, <2>3, MakeBase
<1> HIDE DEF b
<1>6. blurred' \in BOOLEAN /\ (blurred => blurred') /\ (Replacing(j) => blurred')
  <2>1. blurred' = (blurred \/ Replacing(j))
    BY DEF RecordBackup
  <2> QED BY <2>1
<1>7. /\ job' \in [Job -> BackupStep] /\ \A i \in Job \ {j} : job'[i] = job[i]
      /\ \/ job'[j] = NoJob
         \/ job'[j].pc = "note" /\ job'[j].backup = n /\ job'[j].file = k.file
  <2>1. CASE Finish(j)
    BY <1>0, <2>1, NoJobFacts DEF Finish
  <2>2. ASSUME NEW ok \in BOOLEAN, NEW run,
               run = [[k EXCEPT !.pc = "note", !.backup = n] EXCEPT !.ok = ok],
               job' = [job EXCEPT ![j] = run]
        PROVE  /\ job' \in [Job -> BackupStep] /\ \A i \in Job \ {j} : job'[i] = job[i]
               /\ job'[j].pc = "note" /\ job'[j].backup = n /\ job'[j].file = k.file
    <3>1. run \in BackupStep /\ run.pc = "note" /\ run.backup = n /\ run.file = k.file
      BY <2>2 DEF BackupStep
    <3> QED BY <1>0, <2>2, <3>1, JobSet
  <2> QED BY <2>1, <2>2 DEF RecordBackup
<1>8. RowsKept(b, dumps, blurred', restored')
  <2>1. \A m \in DOMAIN base.rows : m \in Nat
    BY <1>0, BaseShape DEF Number
  <2>2. n \in Nat
    BY DEF Number
  <2>3. k.file \in DOMAIN dumps
    BY <1>0, <1>2 DEF JobOk
  <2>4. CASE blurred' = TRUE
    BY <1>0, <1>1, <1>3, <1>5, <2>3, <2>4 DEF RowsKept
  <2>5. CASE blurred' = FALSE
    <3>1. blurred = FALSE /\ restored' = restored
      BY <1>2, <1>6, <2>5
    <3>2. dumps[k.file].whole /\ dumps[k.file].base.next <= n
      BY <1>0, <1>2, <3>1 DEF JobOk
    <3>3. ASSUME NEW m \in DOMAIN b.rows
          PROVE  /\ b.rows[m].file \in DOMAIN dumps /\ dumps[b.rows[m].file].whole
                 /\ dumps[b.rows[m].file].base.next <= m /\ m < b.next
                 /\ b.rows[m].status = "restored" => b.rows[m].file \in restored
      BY <1>0, <1>1, <1>3, <1>5, <2>1, <2>2, <2>3, <3>1, <3>2 DEF RowsKept
    <3>4. \A e \in b.log : e.event = "update" /\ e.backup # 0 =>
            e.backup \in DOMAIN b.rows /\ b.rows[e.backup].file = e.file
      BY <1>0, <1>3, <1>5, <3>1 DEF RowsKept
    <3> QED BY <2>5, <3>1, <3>3, <3>4 DEF RowsKept
  <2> QED BY <1>6, <2>4, <2>5
<1>9. Rebased(b)
  BY <1>0, <1>2, <1>4, <1>5, <1>6, <1>7, <1>8 DEF Rebased
<1>10. ASSUME NEW i \in Job PROVE JobOk(job'[i], b, dumps, blurred')
  <2>1. CASE i = j
    BY <1>1, <1>3, <1>5, <1>7, <2>1, NoJobFacts DEF JobOk
  <2>2. CASE i # j
    <3>1. base.next <= b.next
      BY <1>5 DEF Number
    <3>2. blurred' \/ ~(job[i].pc \in {"log", "mark"})
      BY <1>6, <2>2 DEF Replacing
    <3>3. \A m \in DOMAIN base.rows : m \in DOMAIN b.rows /\ b.rows[m].file = base.rows[m].file
      BY <1>3, <1>5
    <3> QED BY <1>7, <1>9, <2>2, <3>1, <3>2, <3>3, RebasedOthers
  <2> QED BY <2>1, <2>2
<1> QED BY <1>9, <1>10, RebasedIInv

\* At most the sequence has drawn a number.
LEMMA RecordFailsIInv ==
  ASSUME BackupsIInv, NEW j \in Job, RecordFails(j)
  PROVE  BackupsIInv'
<1>0. /\ IsBase(base) /\ AreDumps(dumps) /\ second \in Second /\ job \in [Job -> BackupStep]
      /\ restored \subseteq Second /\ blurred \in BOOLEAN /\ jobs \in Nat
      /\ RowsKept(base, dumps, blurred, restored) /\ JobOk(job[j], base, dumps, blurred)
  BY OldFacts
<1>1. job[j].pc = "record" /\ job[j].backup = 0
      /\ UNCHANGED <<dumps, second, restored, blurred, jobs>>
  BY <1>0 DEF RecordFails, JobOk
<1> SUFFICES ASSUME NEW b, b = base' PROVE BackupsIInv'
  OBVIOUS
<1>2. IsBase(b) /\ b.rows = base.rows /\ b.log = base.log /\ base.next <= b.next
      /\ base.next \in Nat /\ b.next \in Nat
  <2>0. base.next \in 1..(MaxRecords + 1) /\ base.log \in SUBSET Entry
        /\ DOMAIN base.rows \subseteq Number /\ \A n \in DOMAIN base.rows : base.rows[n] \in Row
    BY <1>0, BaseShape
  <2>1. CASE base.next \in DOMAIN base.rows
    <3>1. base.next + 1 \in 1..(MaxRecords + 1)
      BY <2>0, <2>1, BackupAssumption DEF Number, BackupAssumption
    <3>2. b = [base EXCEPT !.next = base.next + 1]
      BY <2>1 DEF RecordFails
    <3>3. b = [rows |-> base.rows, next |-> base.next + 1, log |-> base.log]
      BY <1>0, <3>2, BaseShape
    <3>4. IsBase(b) /\ b.rows = base.rows /\ b.log = base.log /\ b.next = base.next + 1
      BY <2>0, <3>1, <3>3, MakeBase
    <3> QED BY <2>0, <3>1, <3>4
  <2>2. CASE base.next \notin DOMAIN base.rows
    <3>1. b = base
      BY <2>2 DEF RecordFails
    <3> QED BY <1>0, <2>0, <3>1
  <2> QED BY <2>1, <2>2
<1>3. /\ job' \in [Job -> BackupStep] /\ \A i \in Job \ {j} : job'[i] = job[i]
      /\ job'[j] = NoJob \/ (job'[j].pc = "note" /\ job'[j].backup = 0)
  <2>1. CASE Finish(j)
    BY <1>0, <2>1, NoJobFacts DEF Finish
  <2>2. ASSUME NEW ok \in BOOLEAN, RunUpdate(j, ok)
        PROVE  /\ job' \in [Job -> BackupStep] /\ \A i \in Job \ {j} : job'[i] = job[i]
               /\ job'[j].pc = "note" /\ job'[j].backup = 0
    BY <1>0, <1>1, <2>2, RunUpdateFacts
  <2> QED BY <2>1, <2>2 DEF RecordFails
<1>4. \A n \in DOMAIN base.rows : n \in Nat
  BY <1>0, BaseShape DEF Number
<1>5. RowsKept(b, dumps, blurred', restored')
  BY <1>0, <1>1, <1>2, <1>4 DEF RowsKept
<1>6. Rebased(b)
  BY <1>0, <1>1, <1>2, <1>3, <1>5 DEF Rebased
<1>7. ASSUME NEW i \in Job PROVE JobOk(job'[i], b, dumps, blurred')
  <2>1. CASE i = j
    BY <1>3, <2>1, NoJobFacts DEF JobOk
  <2>2. CASE i # j
    BY <1>2, <1>3, <1>6, <2>2, RebasedOthers
  <2> QED BY <2>1, <2>2
<1> QED BY <1>6, <1>7, RebasedIInv

LEMMA NoteUpdateIInv ==
  ASSUME BackupsIInv, NEW j \in Job, NoteUpdate(j)
  PROVE  BackupsIInv'
<1>0. /\ IsBase(base) /\ second \in Second /\ job \in [Job -> BackupStep]
      /\ restored \subseteq Second /\ blurred \in BOOLEAN /\ jobs \in Nat
      /\ RowsKept(base, dumps, blurred, restored) /\ JobOk(job[j], base, dumps, blurred)
  BY OldFacts
<1> SUFFICES ASSUME NEW k \in BackupStep, k = job[j] PROVE BackupsIInv'
  BY <1>0
<1> DEFINE note == [event |-> "update", ok |-> k.ok, backup |-> k.backup,
                    file |-> IF k.backup = 0 THEN 0 ELSE k.file]
           log == base.log \cup {note}
           b == [rows |-> base.rows, next |-> base.next, log |-> log]
<1>1. note \in Entry /\ note.backup = k.backup /\ (k.backup # 0 => note.file = k.file)
  BY NoJobFacts DEF Entry, BackupStep
<1>2. /\ k.pc = "note" /\ UNCHANGED <<dumps, second, restored, blurred, jobs>>
      /\ base' = [base EXCEPT !.log = log] /\ job' = [job EXCEPT ![j] = NoJob]
  BY DEF NoteUpdate, Finish
<1> HIDE DEF note
<1>3. log \in SUBSET Entry /\ \A e \in log : e \in base.log \/ e = note
  BY <1>0, <1>1 DEF IsBase
<1> HIDE DEF log
<1>4. base' = b
  BY <1>0, <1>2, BaseShape
<1>5. IsBase(b) /\ b.rows = base.rows /\ b.next = base.next /\ b.log = log /\ base.next \in Nat
  BY <1>0, <1>3, BaseShape, MakeBase
<1> HIDE DEF b
<1>6. job' \in [Job -> BackupStep] /\ job'[j] = NoJob /\ \A i \in Job \ {j} : job'[i] = job[i]
  BY <1>0, <1>2, NoJobFacts, JobSet
<1>7. RowsKept(b, dumps, blurred', restored')
  BY <1>0, <1>1, <1>2, <1>3, <1>5 DEF RowsKept, JobOk
<1>8. Rebased(b)
  BY <1>0, <1>2, <1>4, <1>5, <1>6, <1>7 DEF Rebased
<1>9. ASSUME NEW i \in Job PROVE JobOk(job'[i], b, dumps, blurred')
  <2>1. CASE i = j
    BY <1>6, <2>1, NoJobFacts DEF JobOk
  <2>2. CASE i # j
    BY <1>5, <1>6, <1>8, <2>2, RebasedOthers
  <2> QED BY <2>1, <2>2
<1> QED BY <1>8, <1>9, RebasedIInv

LEMMA LogRestoreIInv ==
  ASSUME BackupsIInv, NEW j \in Job, LogRestore(j)
  PROVE  BackupsIInv'
<1>0. /\ IsBase(base) /\ second \in Second /\ job \in [Job -> BackupStep]
      /\ restored \subseteq Second /\ blurred \in BOOLEAN /\ jobs \in Nat
      /\ RowsKept(base, dumps, blurred, restored) /\ JobOk(job[j], base, dumps, blurred)
  BY OldFacts
<1> SUFFICES ASSUME NEW k \in BackupStep, k = job[j] PROVE BackupsIInv'
  BY <1>0
<1> DEFINE note == [event |-> "restore", ok |-> TRUE, backup |-> k.backup, file |-> k.file]
           log == base.log \cup {note}
           b == [rows |-> base.rows, next |-> base.next, log |-> log]
           marking == [k EXCEPT !.pc = "mark"]
<1>1. /\ note \in Entry /\ note.event = "restore"
      /\ marking \in BackupStep /\ marking.pc = "mark" /\ marking.backup = k.backup
  BY DEF Entry, BackupStep
<1>2. /\ k.pc = "log" /\ UNCHANGED <<dumps, second, restored, blurred, jobs>>
      /\ base' = [base EXCEPT !.log = log] /\ job' = [job EXCEPT ![j] = marking]
  BY DEF LogRestore
<1> HIDE DEF note, marking
<1>3. log \in SUBSET Entry /\ \A e \in log : e \in base.log \/ e = note
  BY <1>0, <1>1 DEF IsBase
<1> HIDE DEF log
<1>4. base' = b
  BY <1>0, <1>2, BaseShape
<1>5. IsBase(b) /\ b.rows = base.rows /\ b.next = base.next /\ b.log = log /\ base.next \in Nat
  BY <1>0, <1>3, BaseShape, MakeBase
<1> HIDE DEF b
<1>6. job' \in [Job -> BackupStep] /\ job'[j] = marking /\ \A i \in Job \ {j} : job'[i] = job[i]
  BY <1>0, <1>1, <1>2, JobSet
<1>7. RowsKept(b, dumps, blurred', restored')
  BY <1>0, <1>1, <1>2, <1>3, <1>5 DEF RowsKept
<1>8. Rebased(b)
  BY <1>0, <1>2, <1>4, <1>5, <1>6, <1>7 DEF Rebased
<1>9. ASSUME NEW i \in Job PROVE JobOk(job'[i], b, dumps, blurred')
  <2>1. CASE i = j
    BY <1>0, <1>1, <1>2, <1>5, <1>6, <2>1 DEF JobOk
  <2>2. CASE i # j
    BY <1>5, <1>6, <1>8, <2>2, RebasedOthers
  <2> QED BY <2>1, <2>2
<1> QED BY <1>8, <1>9, RebasedIInv

\* The status of a row changes.
LEMMA StatusFacts ==
  ASSUME NEW b, IsBase(b), NEW n \in DOMAIN b.rows, NEW st \in {"restored", "deleted"},
         NEW c, c = [b EXCEPT !.rows[n].status = st]
  PROVE  /\ IsBase(c) /\ c.next = b.next /\ c.log = b.log /\ DOMAIN c.rows = DOMAIN b.rows
         /\ c.next \in Nat
         /\ \A m \in DOMAIN b.rows :
              c.rows[m].file = b.rows[m].file /\ (m # n => c.rows[m] = b.rows[m])
         /\ c.rows[n].status = st
<1>1. /\ b.next \in 1..(MaxRecords + 1) /\ b.log \in SUBSET Entry /\ DOMAIN b.rows \subseteq Number
      /\ \A m \in DOMAIN b.rows : b.rows[m] \in Row
  BY BaseShape
<1> DEFINE rows == [b.rows EXCEPT ![n] = [b.rows[n] EXCEPT !.status = st]]
<1>2. c = [b EXCEPT !.rows = rows]
  OBVIOUS
<1>3. /\ DOMAIN rows = DOMAIN b.rows /\ \A m \in DOMAIN b.rows \ {n} : rows[m] = b.rows[m]
      /\ rows[n] = [b.rows[n] EXCEPT !.status = st]
  OBVIOUS
<1> HIDE DEF rows
<1>4. rows[n] \in Row /\ rows[n].status = st /\ rows[n].file = b.rows[n].file
  BY <1>1, <1>3 DEF Row
<1>5. c = [rows |-> rows, next |-> b.next, log |-> b.log]
  BY <1>2, BaseShape
<1>6. DOMAIN rows \subseteq Number /\ \A m \in DOMAIN rows : rows[m] \in Row
  BY <1>1, <1>3, <1>4
<1>7. IsBase(c) /\ c.rows = rows /\ c.next = b.next /\ c.log = b.log
  BY <1>1, <1>5, <1>6 DEF IsBase
<1> QED BY <1>1, <1>3, <1>4, <1>7

LEMMA MarkRestoredIInv ==
  ASSUME BackupsIInv, NEW j \in Job, MarkRestored(j)
  PROVE  BackupsIInv'
<1>0. /\ IsBase(base) /\ second \in Second /\ job \in [Job -> BackupStep]
      /\ restored \subseteq Second /\ blurred \in BOOLEAN /\ jobs \in Nat
      /\ RowsKept(base, dumps, blurred, restored) /\ JobOk(job[j], base, dumps, blurred)
  BY OldFacts
<1> SUFFICES ASSUME NEW b, b = base', NEW n, n = job[j].backup PROVE BackupsIInv'
  OBVIOUS
<1>1. /\ job[j].pc = "mark" /\ UNCHANGED <<dumps, second, restored, blurred, jobs>>
      /\ job' = [job EXCEPT ![j] = NoJob]
  BY DEF MarkRestored, Finish
<1>2. IF n \in DOMAIN base.rows THEN b = [base EXCEPT !.rows[n].status = "restored"] ELSE b = base
  BY DEF MarkRestored
<1>3. ~blurred => b = base
  BY <1>0, <1>1, <1>2 DEF JobOk
<1>4. /\ IsBase(b) /\ b.next = base.next /\ DOMAIN b.rows = DOMAIN base.rows /\ base.next \in Nat
      /\ \A m \in DOMAIN base.rows : b.rows[m].file = base.rows[m].file
  <2>1. CASE n \in DOMAIN base.rows
    BY <1>0, <1>2, <2>1, StatusFacts
  <2>2. CASE n \notin DOMAIN base.rows
    BY <1>0, <1>2, <2>2, BaseShape
  <2> QED BY <2>1, <2>2
<1>5. job' \in [Job -> BackupStep] /\ job'[j] = NoJob /\ \A i \in Job \ {j} : job'[i] = job[i]
  BY <1>0, <1>1, NoJobFacts, JobSet
<1>6. RowsKept(b, dumps, blurred', restored')
  <2>1. CASE blurred = TRUE
    BY <1>0, <1>1, <1>4, <2>1 DEF RowsKept
  <2>2. CASE blurred = FALSE
    BY <1>0, <1>1, <1>3, <2>2
  <2> QED BY <1>0, <2>1, <2>2
<1>7. Rebased(b)
  BY <1>0, <1>1, <1>4, <1>5, <1>6 DEF Rebased
<1>8. ASSUME NEW i \in Job PROVE JobOk(job'[i], b, dumps, blurred')
  <2>1. CASE i = j
    BY <1>5, <2>1, NoJobFacts DEF JobOk
  <2>2. CASE i # j
    BY <1>4, <1>5, <1>7, <2>2, RebasedOthers
  <2> QED BY <2>1, <2>2
<1> QED BY <1>7, <1>8, RebasedIInv

LEMMA DeleteBackupIInv ==
  ASSUME BackupsIInv, NEW n \in Number, DeleteBackup(n)
  PROVE  BackupsIInv'
<1>0. /\ IsBase(base) /\ second \in Second /\ job \in [Job -> BackupStep]
      /\ restored \subseteq Second /\ blurred \in BOOLEAN /\ jobs \in Nat
      /\ RowsKept(base, dumps, blurred, restored)
  BY OldFacts
<1> SUFFICES ASSUME NEW b, b = base' PROVE BackupsIInv'
  OBVIOUS
<1>1. /\ UNCHANGED <<dumps, second, job, restored, blurred>> /\ jobs' \in Nat
      /\ n \in DOMAIN base.rows /\ b = [base EXCEPT !.rows[n].status = "deleted"]
  BY <1>0 DEF DeleteBackup, Counted
<1>2. /\ IsBase(b) /\ b.next = base.next /\ b.log = base.log /\ DOMAIN b.rows = DOMAIN base.rows
      /\ base.next \in Nat
      /\ \A m \in DOMAIN base.rows :
           b.rows[m].file = base.rows[m].file /\ (m # n => b.rows[m] = base.rows[m])
      /\ b.rows[n].status = "deleted"
  BY <1>0, <1>1, StatusFacts
<1>3. RowsKept(b, dumps, blurred', restored')
  BY <1>0, <1>1, <1>2 DEF RowsKept
<1>4. Rebased(b)
  BY <1>0, <1>1, <1>2, <1>3 DEF Rebased
<1>5. ASSUME NEW i \in Job PROVE JobOk(job'[i], b, dumps, blurred')
  <2>1. job'[i] = job[i] /\ base.next <= b.next
    BY <1>1, <1>2
  <2>2. \A m \in DOMAIN base.rows : m \in DOMAIN b.rows /\ b.rows[m].file = base.rows[m].file
    BY <1>2
  <2>3. DOMAIN b.rows \ DOMAIN base.rows = {}
    BY <1>2
  <2> QED BY <1>4, <2>1, <2>2, <2>3, RebasedOthers
<1> QED BY <1>4, <1>5, RebasedIInv

\* The database that comes back holds no record of the backup it came from, and
\* no other request is on its way unless the history is blurred.
LEMMA RestoreIInv ==
  ASSUME BackupsIInv, NEW j \in Job, Restore(j)
  PROVE  BackupsIInv'
<1>0. /\ AreDumps(dumps) /\ second \in Second /\ job \in [Job -> BackupStep]
      /\ restored \subseteq Second /\ blurred \in BOOLEAN /\ jobs \in Nat
      /\ \A i \in Job : JobOk(job[i], base, dumps, blurred) /\ job[i] \in BackupStep
  BY OldFacts
<1> SUFFICES ASSUME NEW k \in BackupStep, k = job[j], NEW f, f = k.file,
                    NEW b, b = dumps[f].base, NEW k2, k2 = [k EXCEPT !.pc = "log"]
             PROVE  BackupsIInv'
  BY <1>0
<1>1. /\ k.pc = "restore" /\ UNCHANGED <<dumps, second, jobs>>
      /\ base' = b /\ job' = [job EXCEPT ![j] = k2] /\ restored' = restored \cup {f}
  BY DEF Restore
<1>2. blurred' \in BOOLEAN /\ (blurred => blurred') /\ (OthersBusy(j) => blurred')
  <2>1. blurred' = (blurred \/ OthersBusy(j))
    BY DEF Restore
  <2> QED BY <2>1
<1>3. JobOk(k, base, dumps, blurred) /\ f \in DOMAIN dumps /\ f \in Second
      /\ restored' \subseteq Second
  BY <1>0, <1>1, NoJobFacts DEF JobOk
<1>4. k2 \in BackupStep /\ k2.pc = "log" /\ k2.backup = k.backup /\ k2.file = k.file
  BY DEF BackupStep
<1>5. job' \in [Job -> BackupStep] /\ job'[j] = k2 /\ \A i \in Job \ {j} : job'[i] = job[i]
  BY <1>0, <1>1, <1>4, JobSet
<1>6. IsBase(b) /\ RowsKept(b, dumps, blurred, restored)
  BY <1>0, <1>3 DEF AreDumps, BackupsIInv
<1>7. RowsKept(b, dumps, blurred', restored')
  <2>1. Later(dumps, blurred, restored, dumps, blurred', restored')
    BY <1>1, <1>2 DEF Later
  <2> QED BY <1>0, <1>2, <1>6, <2>1, RowsFrame
<1>8. Rebased(b)
  BY <1>0, <1>1, <1>2, <1>3, <1>5, <1>6, <1>7 DEF Rebased
<1>9. ASSUME NEW i \in Job PROVE JobOk(job'[i], b, dumps, blurred')
  <2>1. CASE i = j
    <3>1. ASSUME ~blurred' PROVE k.backup \notin DOMAIN b.rows
      <4>1. b.next <= k.backup /\ \A n \in DOMAIN b.rows : n < b.next
        BY <1>1, <1>2, <1>3, <1>6, <3>1 DEF JobOk, RowsKept
      <4>2. \A n \in DOMAIN b.rows : n \in Nat
        BY <1>6, BaseShape DEF Number
      <4>3. b.next \in Nat
        BY <1>6, BaseShape
      <4> QED BY <4>1, <4>2, <4>3
    <3> QED BY <1>4, <1>5, <2>1, <3>1 DEF JobOk
  <2>2. CASE i # j /\ blurred' = TRUE
    <3>1. JobOk(job[i], base, dumps, blurred) /\ job'[i] = job[i]
      BY <1>0, <1>5, <2>2
    <3> QED BY <2>2, <3>1 DEF JobOk
  <2>3. CASE i # j /\ blurred' = FALSE
    <3>1. job[i].pc = "idle"
      BY <1>2, <2>3 DEF OthersBusy
    <3>2. job'[i] = NoJob
      BY <1>0, <1>5, <2>3, <3>1 DEF JobOk
    <3> QED BY <3>2, NoJobFacts DEF JobOk
  <2> QED BY <1>2, <2>1, <2>2, <2>3
<1> QED BY <1>8, <1>9, RebasedIInv

LEMMA RestoreFailsIInv ==
  ASSUME BackupsIInv, NEW j \in Job, RestoreFails(j)
  PROVE  BackupsIInv'
<1>0. /\ IsBase(base) /\ AreDumps(dumps) /\ second \in Second /\ job \in [Job -> BackupStep]
      /\ restored \subseteq Second /\ blurred \in BOOLEAN /\ jobs \in Nat
      /\ RowsKept(base, dumps, blurred, restored)
      /\ \A i \in Job : JobOk(job[i], base, dumps, blurred) /\ job[i] \in BackupStep
  BY OldFacts
<1>1. /\ job[j].pc = "restore" /\ UNCHANGED <<dumps, second, restored, jobs>>
      /\ job' = [job EXCEPT ![j] = NoJob]
  BY DEF RestoreFails, Finish
<1>2. job' \in [Job -> BackupStep] /\ job'[j] = NoJob /\ \A i \in Job \ {j} : job'[i] = job[i]
  BY <1>0, <1>1, NoJobFacts, JobSet
<1>3. CASE UNCHANGED <<base, blurred>>
  <2>1. JobOk(NoJob, base, dumps, blurred)
    BY NoJobFacts DEF JobOk
  <2> QED BY <1>0, <1>1, <1>2, <1>3, <2>1, JobStepIInv
<1>4. ASSUME NEW d, d = dumps[job[j].file].base, blurred' = TRUE, NEW b, base' = b,
             NEW rows \in {base.rows, d.rows}, NEW next \in {base.next, d.next},
             NEW log \in {base.log, d.log},
             b = [rows |-> rows, next |-> next, log |-> log]
      PROVE  BackupsIInv'
  <2>1. job[j].file \in DOMAIN dumps
    BY <1>0, <1>1 DEF JobOk
  <2>2. IsBase(d) /\ RowsKept(d, dumps, blurred, restored)
    BY <1>0, <1>4, <2>1 DEF AreDumps, BackupsIInv
  <2>3. /\ base.next \in 1..(MaxRecords + 1) /\ base.log \in SUBSET Entry
        /\ DOMAIN base.rows \subseteq Number /\ \A m \in DOMAIN base.rows : base.rows[m] \in Row
        /\ d.next \in 1..(MaxRecords + 1) /\ d.log \in SUBSET Entry
        /\ DOMAIN d.rows \subseteq Number /\ \A m \in DOMAIN d.rows : d.rows[m] \in Row
    BY <1>0, <2>2, BaseShape
  <2>4. next \in 1..(MaxRecords + 1) /\ log \in SUBSET Entry
        /\ DOMAIN rows \subseteq Number /\ \A m \in DOMAIN rows : rows[m] \in Row
    BY <2>3
  <2>5. IsBase(b) /\ b.rows = rows
    BY <1>4, <2>4, MakeBase
  <2>6. RowsKept(b, dumps, blurred', restored')
    BY <1>0, <1>1, <1>4, <2>2, <2>5 DEF RowsKept
  <2>7. Rebased(b)
    BY <1>0, <1>1, <1>2, <1>4, <2>5, <2>6 DEF Rebased
  <2>8. ASSUME NEW i \in Job PROVE JobOk(job'[i], b, dumps, blurred')
    <3>1. CASE i = j
      BY <1>2, <3>1, NoJobFacts DEF JobOk
    <3>2. CASE i # j
      BY <1>2, <1>4, <2>7, <3>2, RebasedOthers
    <3> QED BY <3>1, <3>2
  <2> QED BY <2>7, <2>8, RebasedIInv
<1> QED BY <1>3, <1>4 DEF RestoreFails

LEMMA BackupNextIInv == BackupsIInv /\ [BackupNext]_backupVars => BackupsIInv'
<1> SUFFICES ASSUME BackupsIInv, [BackupNext]_backupVars PROVE BackupsIInv'
  OBVIOUS
<1>1. CASE Tick
  BY <1>1, TickIInv
<1>2. ASSUME NEW n \in Number, DeleteBackup(n) PROVE BackupsIInv'
  BY <1>2, DeleteBackupIInv
<1>3. ASSUME NEW j \in Job, NEW upgrade \in BOOLEAN, Dump(j, upgrade) \/ DumpFails(j, upgrade)
      PROVE  BackupsIInv'
  BY <1>3, DumpIInv, DumpFailsIInv
<1>4. ASSUME NEW j \in Job, RecordBackup(j) \/ RecordFails(j) \/ NoteUpdate(j)
      PROVE  BackupsIInv'
  BY <1>4, RecordBackupIInv, RecordFailsIInv, NoteUpdateIInv
<1>5. ASSUME NEW j \in Job, NEW n \in Number, FindBackup(j, n) PROVE BackupsIInv'
  BY <1>5, FindBackupIInv
<1>6. ASSUME NEW j \in Job,
             Restore(j) \/ RestoreFails(j) \/ LogRestore(j) \/ MarkRestored(j) \/ BackupCrash(j)
      PROVE  BackupsIInv'
  BY <1>6, RestoreIInv, RestoreFailsIInv, LogRestoreIInv, MarkRestoredIInv, BackupCrashIInv
<1>7. CASE UNCHANGED backupVars
  BY <1>7, OldFacts, JobStepIInv DEF backupVars
<1> QED BY <1>1, <1>2, <1>3, <1>4, <1>5, <1>6, <1>7 DEF BackupNext

LEMMA BackupsInvariance == BackupSpec => []BackupsIInv
<1> QED BY BackupInitIInv, BackupNextIInv, PTL DEF BackupSpec

\* Across any number of backups, restores of older ones, updates and crashes, as
\* long as no request overlaps a restore, none is cut half-way and no two dumps
\* share a second: a listed backup has its whole dump, one marked restored was
\* restored, an update in the history names the backup taken before it, and the
\* sequence is past the records (admin_backup.py:52-275, admin_update.py:190-269).
THEOREM BackupsAreSound == BackupSpec => []BackupsSound
<1>1. BackupsIInv => BackupsSound
  <2> SUFFICES ASSUME BackupsIInv PROVE BackupsSound
    OBVIOUS
  <2>1. RowsKept(base, dumps, blurred, restored)
    BY OldFacts
  <2>2. ListedIsKept
    BY <2>1 DEF RowsKept, ListedIsKept
  <2>3. HistoryNamesBackup /\ (~blurred => \A n \in DOMAIN base.rows : n < base.next)
    BY <2>1 DEF RowsKept, HistoryNamesBackup
  <2> QED BY <2>2, <2>3 DEF BackupsSound
<1> QED BY <1>1, BackupsInvariance, PTL

-----------------------------------------------------------------------------
(* The charger profiles.  The registry is made by recursions over sequences, *)
(* so what a recursion returns comes first: the equations of Kept, then what *)
(* is kept of a concatenation; then the order of the registry, of which a    *)
(* registration keeps all but its own place; then the handlers.              *)

\* Induction, on numbers and on sequences, as facts about the set of what a claim
\* holds of.
LEMMA SetInduction ==
  ASSUME NEW S \in SUBSET Nat, 0 \in S, \A n \in S : n + 1 \in S
  PROVE  S = Nat
<1> DEFINE R == OpToRel(<, Nat)
           T == Nat \ S
<1>1. \A x, y \in Nat : x < y <=> <<x, y>> \in R
  BY DEF OpToRel
<1>2. IsWellFoundedOn(R, Nat)
  BY NatLessThanWellFounded
<1>3. ASSUME T # {} PROVE FALSE
  <2> HIDE DEF R
  <2>1. PICK x \in T : \A y \in T : <<y, x>> \notin R
    <3> HIDE DEF T
    <3>1. T \subseteq Nat
      BY DEF T
    <3> QED BY <1>2, <1>3, <3>1, WFMin
  <2>2. x # 0 /\ x - 1 \in Nat /\ x - 1 < x
    OBVIOUS
  <2>3. x - 1 \in S
    BY <1>1, <2>1, <2>2
  <2>4. (x - 1) + 1 = x
    OBVIOUS
  <2> QED BY <2>1, <2>2, <2>3, <2>4
<1> QED BY <1>3

LEMMA SequenceSetInduction ==
  ASSUME NEW T, NEW U, <<>> \in U,
         \A s \in Seq(T) : s \in U => \A x \in T : Append(s, x) \in U
  PROVE  Seq(T) \subseteq U
<1> DEFINE N == {n \in Nat : \A s \in Seq(T) : Len(s) = n => s \in U}
<1>1. 0 \in N
  <2>1. \A s \in Seq(T) : Len(s) = 0 => s = <<>>
    BY EmptySeq
  <2> QED BY <2>1
<1>2. ASSUME NEW n \in N PROVE n + 1 \in N
  <2>1. ASSUME NEW s \in Seq(T), Len(s) = n + 1 PROVE s \in U
    <3>1. s # <<>>
      BY <2>1, EmptySeq
    <3>2. PICK t \in Seq(T), x \in T : s = Append(t, x)
      BY <3>1, SequenceEmptyOrAppend
    <3>3. Len(t) \in Nat /\ Len(Append(t, x)) = Len(t) + 1
      BY AppendProperties, LenProperties
    <3>4. Len(t) = n
      BY <2>1, <3>2, <3>3
    <3> QED BY <3>2, <3>4
  <2> QED BY <2>1
<1>3. N = Nat
  <2> HIDE DEF N
  <2>1. N \in SUBSET Nat
    BY DEF N
  <2> QED BY <1>1, <1>2, <2>1, SetInduction
<1>4. ASSUME NEW s \in Seq(T) PROVE s \in U
  <2>1. Len(s) \in N
    BY <1>3, LenProperties
  <2> QED BY <2>1
<1> QED BY <1>4

\* What the recursion of Kept says of each beginning of list.
Filters(f, list, S) ==
    f = [n \in 0..Len(list) |->
           IF n = 0 THEN <<>>
           ELSE IF list[n] \in S THEN Append(f[n - 1], list[n]) ELSE f[n - 1]]

\* The equation has one solution, so that any solution of it is the one Kept takes.
LEMMA KeptDef ==
  ASSUME NEW list, NEW S, NEW f, Len(list) \in Nat, Filters(f, list, S)
  PROVE  Kept(list, S) = f[Len(list)]
<1> DEFINE g == CHOOSE g : Filters(g, list, S)
<1>1. Filters(g, list, S)
  <2>1. \E h : Filters(h, list, S)
    OBVIOUS
  <2> QED BY <2>1
<1>2. Kept(list, S) = g[Len(list)]
  BY DEF Kept, Filters
<1> HIDE DEF g
<1>3. \A n \in 0..Len(list) :
        /\ f[n] = IF n = 0 THEN <<>>
                  ELSE IF list[n] \in S THEN Append(f[n - 1], list[n]) ELSE f[n - 1]
        /\ g[n] = IF n = 0 THEN <<>>
                  ELSE IF list[n] \in S THEN Append(g[n - 1], list[n]) ELSE g[n - 1]
  BY <1>1 DEF Filters
<1> DEFINE N == {n \in Nat : n \in 0..Len(list) => f[n] = g[n]}
<1>4. 0 \in N
  BY <1>3
<1>5. ASSUME NEW n \in N PROVE n + 1 \in N
  <2>1. ASSUME n + 1 \in 0..Len(list) PROVE f[n + 1] = g[n + 1]
    <3>1. n \in 0..Len(list) /\ (n + 1) - 1 = n /\ n + 1 # 0
      BY <2>1
    <3>2. f[n] = g[n]
      BY <3>1
    <3> QED BY <1>3, <2>1, <3>1, <3>2
  <2> QED BY <2>1
<1>6. N = Nat
  <2>1. N \in SUBSET Nat
    OBVIOUS
  <2> HIDE DEF N
  <2> QED BY <1>4, <1>5, <2>1, SetInduction
<1> QED BY <1>2, <1>6

LEMMA KeptEmpty == ASSUME NEW S PROVE Kept(<<>>, S) = <<>>
<1> DEFINE f == [n \in 0..0 |-> <<>>]
<1>1. Len(<<>>) = 0
  BY EmptySeq
<1>2. Filters(f, <<>>, S)
  BY <1>1 DEF Filters
<1>3. f[0] = <<>>
  OBVIOUS
<1> HIDE DEF f
<1> QED BY <1>1, <1>2, <1>3, KeptDef

\* A solution for one more element, from one for a list: there is one for every list.
LEMMA FiltersAppend ==
  ASSUME NEW T, NEW list \in Seq(T), NEW x \in T, NEW S, NEW f, Filters(f, list, S)
  PROVE  LET g == [n \in 0..(Len(list) + 1) |->
                     IF n <= Len(list) THEN f[n]
                     ELSE IF x \in S THEN Append(f[Len(list)], x) ELSE f[Len(list)]]
         IN  Filters(g, Append(list, x), S)
<1> DEFINE L == Len(list)
           l2 == Append(list, x)
           g == [n \in 0..(L + 1) |->
                     IF n <= L THEN f[n]
                     ELSE IF x \in S THEN Append(f[L], x) ELSE f[L]]
<1>1. L \in Nat /\ Len(l2) = L + 1 /\ l2[L + 1] = x
  BY AppendProperties, LenProperties
<1>2. \A n \in 1..L : l2[n] = list[n]
  BY AppendProperties
<1>3. \A n \in 0..L : f[n] = IF n = 0 THEN <<>>
                  ELSE IF list[n] \in S THEN Append(f[n - 1], list[n]) ELSE f[n - 1]
  BY DEF Filters
<1> HIDE DEF L, l2
<1>4. ASSUME NEW n \in 0..(L + 1)
      PROVE  g[n] = IF n = 0 THEN <<>>
                  ELSE IF l2[n] \in S THEN Append(g[n - 1], l2[n]) ELSE g[n - 1]
  <2>1. CASE n = 0
    <3>1. g[0] = f[0] /\ f[0] = <<>>
      BY <1>1, <1>3
    <3> QED BY <2>1, <3>1
  <2>2. CASE n \in 1..L
    <3>1. n \in 0..L /\ n - 1 \in 0..L /\ n # 0
      BY <1>1, <2>2
    <3>2. g[n] = f[n] /\ g[n - 1] = f[n - 1]
      BY <1>1, <3>1
    <3> QED BY <1>2, <1>3, <2>2, <3>1, <3>2
  <2>3. CASE n = L + 1
    <3>1. g[L + 1] = (IF x \in S THEN Append(f[L], x) ELSE f[L]) /\ g[L] = f[L]
      BY <1>1
    <3>2. (L + 1) - 1 = L /\ L + 1 # 0
      BY <1>1
    <3> QED BY <1>1, <2>3, <3>1, <3>2
  <2> QED BY <1>1, <2>1, <2>2, <2>3
<1>5. g = [n \in 0..(L + 1) |-> IF n = 0 THEN <<>>
                  ELSE IF l2[n] \in S THEN Append(g[n - 1], l2[n]) ELSE g[n - 1]]
  <2>1. g = [n \in 0..(L + 1) |-> g[n]]
    OBVIOUS
  <2> HIDE DEF g
  <2> QED BY <1>4, <2>1
<1>6. Filters(g, l2, S)
  <2> HIDE DEF g
  <2> QED BY <1>1, <1>5 DEF Filters
<1> QED BY <1>6 DEF L, l2

LEMMA FiltersExist ==
  ASSUME NEW T, NEW S PROVE \A list \in Seq(T) : \E f : Filters(f, list, S)
<1> DEFINE U == {list \in Seq(T) : \E f : Filters(f, list, S)}
<1>1. <<>> \in U
  <2> DEFINE f == [n \in 0..0 |-> <<>>]
  <2>1. Len(<<>>) = 0 /\ <<>> \in Seq(T)
    BY EmptySeq
  <2>2. Filters(f, <<>>, S)
    BY <2>1 DEF Filters
  <2> QED BY <2>1, <2>2
<1>2. ASSUME NEW s \in Seq(T), s \in U, NEW x \in T PROVE Append(s, x) \in U
  <2>1. PICK f : Filters(f, s, S)
    BY <1>2
  <2>2. \E g : Filters(g, Append(s, x), S)
    BY <2>1, FiltersAppend
  <2>3. Append(s, x) \in Seq(T)
    BY AppendProperties
  <2> QED BY <2>2, <2>3
<1>3. Seq(T) \subseteq U
  <2> HIDE DEF U
  <2> QED BY <1>1, <1>2, SequenceSetInduction
<1> QED BY <1>3

\* Kept, one element at a time: all that is used of its recursion from here on.
LEMMA KeptAppend ==
  ASSUME NEW T, NEW list \in Seq(T), NEW x \in T, NEW S
  PROVE  Kept(Append(list, x), S)
           = IF x \in S THEN Append(Kept(list, S), x) ELSE Kept(list, S)
<1>1. PICK f : Filters(f, list, S)
  BY FiltersExist
<1> DEFINE L == Len(list)
           g == [n \in 0..(L + 1) |->
                     IF n <= L THEN f[n]
                     ELSE IF x \in S THEN Append(f[L], x) ELSE f[L]]
<1>2. L \in Nat /\ Len(Append(list, x)) = L + 1
  BY AppendProperties, LenProperties
<1>3. Filters(g, Append(list, x), S)
  BY <1>1, FiltersAppend
<1>4. g[L + 1] = IF x \in S THEN Append(f[L], x) ELSE f[L]
  BY <1>2
<1>5. Kept(list, S) = f[L]
  BY <1>1, <1>2, KeptDef
<1>6. Kept(Append(list, x), S) = g[L + 1]
  <2> DEFINE l2 == Append(list, x)
  <2>1. Len(l2) \in Nat /\ Len(l2) = L + 1 /\ Filters(g, l2, S)
    BY <1>2, <1>3
  <2>2. Kept(l2, S) = g[Len(l2)]
    <3> HIDE DEF g, l2, L
    <3> QED BY <2>1, KeptDef
  <2> HIDE DEF g, l2, L
  <2>3. Kept(l2, S) = g[L + 1]
    BY <2>1, <2>2
  <2> QED BY <2>3 DEF l2
<1> QED BY <1>4, <1>5, <1>6

\* What is kept is of the list and of S, and of that of S nothing is lost.
LEMMA KeptType ==
  ASSUME NEW T, NEW S PROVE \A list \in Seq(T) : Kept(list, S) \in Seq(T \cap S)
<1> DEFINE U == {list \in Seq(T) : Kept(list, S) \in Seq(T \cap S)}
<1>1. <<>> \in U
  BY KeptEmpty, EmptySeq
<1>2. ASSUME NEW s \in Seq(T), s \in U, NEW x \in T PROVE Append(s, x) \in U
  <2>1. Append(s, x) \in Seq(T)
    BY AppendProperties
  <2>2. Kept(s, S) \in Seq(T \cap S)
    BY <1>2
  <2>3. x \in S => Append(Kept(s, S), x) \in Seq(T \cap S)
    BY <2>2, AppendProperties
  <2>4. Kept(Append(s, x), S) = IF x \in S THEN Append(Kept(s, S), x) ELSE Kept(s, S)
    BY KeptAppend
  <2> QED BY <2>1, <2>2, <2>3, <2>4
<1>3. Seq(T) \subseteq U
  <2> HIDE DEF U
  <2> QED BY <1>1, <1>2, SequenceSetInduction
<1> QED BY <1>3

LEMMA KeptAll ==
  ASSUME NEW T, NEW S PROVE \A list \in Seq(T \cap S) : Kept(list, S) = list
<1> DEFINE U == {list \in Seq(T \cap S) : Kept(list, S) = list}
<1>1. <<>> \in U
  BY KeptEmpty, EmptySeq
<1>2. ASSUME NEW s \in Seq(T \cap S), s \in U, NEW x \in T \cap S PROVE Append(s, x) \in U
  <2>1. Append(s, x) \in Seq(T \cap S)
    BY AppendProperties
  <2>2. Kept(Append(s, x), S) = Append(Kept(s, S), x)
    BY KeptAppend
  <2> QED BY <1>2, <2>1, <2>2
<1>3. Seq(T \cap S) \subseteq U
  <2> HIDE DEF U
  <2> QED BY <1>1, <1>2, SequenceSetInduction
<1> QED BY <1>3

LEMMA KeptNone ==
  ASSUME NEW T, NEW S PROVE \A list \in Seq(T \ S) : Kept(list, S) = <<>>
<1> DEFINE U == {list \in Seq(T \ S) : Kept(list, S) = <<>>}
<1>1. <<>> \in U
  BY KeptEmpty, EmptySeq
<1>2. ASSUME NEW s \in Seq(T \ S), s \in U, NEW x \in T \ S PROVE Append(s, x) \in U
  <2>1. Append(s, x) \in Seq(T \ S)
    BY AppendProperties
  <2>2. Kept(Append(s, x), S) = Kept(s, S)
    BY KeptAppend
  <2> QED BY <1>2, <2>1, <2>2
<1>3. Seq(T \ S) \subseteq U
  <2> HIDE DEF U
  <2> QED BY <1>1, <1>2, SequenceSetInduction
<1> QED BY <1>3

LEMMA ConcatAppend ==
  ASSUME NEW T, NEW s \in Seq(T), NEW t \in Seq(T), NEW x \in T
  PROVE  s \o Append(t, x) = Append(s \o t, x)
<1>1. Append(t, x) = t \o <<x>> /\ s \o t \in Seq(T) /\ <<x>> \in Seq(T)
  BY AppendIsConcat, ConcatProperties
<1>2. Append(s \o t, x) = (s \o t) \o <<x>>
  BY <1>1, AppendIsConcat
<1>3. (s \o t) \o <<x>> = s \o (t \o <<x>>)
  BY <1>1, ConcatAssociative
<1> QED BY <1>1, <1>2, <1>3

\* What is kept of a concatenation, and what S and its complement keep of a list.
LEMMA KeptConcat ==
  ASSUME NEW T, NEW S, NEW front \in Seq(T)
  PROVE  \A list \in Seq(T) : Kept(front \o list, S) = Kept(front, S) \o Kept(list, S)
<1> DEFINE U == {list \in Seq(T) : Kept(front \o list, S) = Kept(front, S) \o Kept(list, S)}
<1>k. \A list \in Seq(T) : Kept(list, S) \in Seq(T)
  <2> SUFFICES ASSUME NEW list \in Seq(T) PROVE Kept(list, S) \in Seq(T)
    OBVIOUS
  <2>1. Kept(list, S) \in Seq(T \cap S)
    BY KeptType
  <2> QED BY <2>1
<1>1. <<>> \in U
  <2>1. front \o <<>> = front /\ Kept(front, S) \o <<>> = Kept(front, S)
    BY <1>k, ConcatEmptySeq
  <2> QED BY <2>1, KeptEmpty, EmptySeq
<1>2. ASSUME NEW s \in Seq(T), s \in U, NEW x \in T PROVE Append(s, x) \in U
  <2>1. Append(s, x) \in Seq(T) /\ front \o s \in Seq(T)
    BY AppendProperties, ConcatProperties
  <2>2. front \o Append(s, x) = Append(front \o s, x)
    BY ConcatAppend
  <2>3. Kept(Append(front \o s, x), S)
          = IF x \in S THEN Append(Kept(front \o s, S), x) ELSE Kept(front \o s, S)
    BY <2>1, KeptAppend
  <2>4. Kept(Append(s, x), S) = IF x \in S THEN Append(Kept(s, S), x) ELSE Kept(s, S)
    BY KeptAppend
  <2>5. Kept(front, S) \o Append(Kept(s, S), x) = Append(Kept(front, S) \o Kept(s, S), x)
    BY <1>k, ConcatAppend
  <2>6. Kept(front \o s, S) = Kept(front, S) \o Kept(s, S)
    BY <1>2
  <2> QED BY <2>1, <2>2, <2>3, <2>4, <2>5, <2>6
<1>3. Seq(T) \subseteq U
  <2> HIDE DEF U
  <2> QED BY <1>1, <1>2, SequenceSetInduction
<1> QED BY <1>3

LEMMA KeptLen ==
  ASSUME NEW T, NEW S, NEW R, T \subseteq S \cup R, S \cap R = {}
  PROVE  \A list \in Seq(T) : Len(Kept(list, S)) + Len(Kept(list, R)) = Len(list)
<1> DEFINE U == {list \in Seq(T) : Len(Kept(list, S)) + Len(Kept(list, R)) = Len(list)}
<1>1. <<>> \in U
  BY KeptEmpty, EmptySeq
<1>2. ASSUME NEW s \in Seq(T), s \in U, NEW x \in T PROVE Append(s, x) \in U
  <2>1. Append(s, x) \in Seq(T) /\ Len(Append(s, x)) = Len(s) + 1
    BY AppendProperties
  <2>2. /\ Kept(Append(s, x), S) = IF x \in S THEN Append(Kept(s, S), x) ELSE Kept(s, S)
        /\ Kept(Append(s, x), R) = IF x \in R THEN Append(Kept(s, R), x) ELSE Kept(s, R)
    BY KeptAppend
  <2>3. Kept(s, S) \in Seq(T \cap S) /\ Kept(s, R) \in Seq(T \cap R)
    BY KeptType
  <2>4. /\ Len(Kept(s, S)) \in Nat /\ Len(Kept(s, R)) \in Nat /\ Len(s) \in Nat
        /\ x \in S => Len(Append(Kept(s, S), x)) = Len(Kept(s, S)) + 1
        /\ x \in R => Len(Append(Kept(s, R), x)) = Len(Kept(s, R)) + 1
    BY <2>3, AppendProperties, LenProperties
  <2>5. Len(Kept(s, S)) + Len(Kept(s, R)) = Len(s)
    BY <1>2
  <2>6. (x \in S /\ x \notin R) \/ (x \in R /\ x \notin S)
    OBVIOUS
  <2> HIDE DEF U
  <2>7. Len(Kept(Append(s, x), S)) + Len(Kept(Append(s, x), R)) = Len(Append(s, x))
    <3>1. CASE x \in S /\ x \notin R
      BY <3>1, <2>1, <2>2, <2>4, <2>5
    <3>2. CASE x \in R /\ x \notin S
      BY <3>2, <2>1, <2>2, <2>4, <2>5
    <3> QED BY <3>1, <3>2, <2>6
  <2> QED BY <2>1, <2>7 DEF U
<1>3. Seq(T) \subseteq U
  <2> HIDE DEF U
  <2> QED BY <1>1, <1>2, SequenceSetInduction
<1> QED BY <1>3

SpecificKnown == {p \in Known : ~IsGeneric(p)}

LEMMA KnownFacts ==
    /\ Custom \subseteq Known /\ Generic \in Known
    /\ File \in Seq(Known) /\ Examples \in Seq(SpecificKnown)
<1>4. File \in Seq(Known)
  <2>1. \A k \in 1..Len(File) : File[k] \in Known
    <3>1. \A k \in 1..Len(File) : k \in DOMAIN File
      BY ProfilesAssumption, LenProperties
    <3> QED BY <3>1 DEF Known, Range
  <2> QED BY <2>1, ProfilesAssumption
<1>5. ~IsGeneric(MaxpowerCcs2) /\ ~IsGeneric(Hongjiali120) /\ ~IsGeneric(Hongjiali30)
  BY DEF IsGeneric, MaxpowerCcs2, Hongjiali120, Hongjiali30, Generic
<1>6. Examples \in Seq(SpecificKnown)
  <2>1. MaxpowerCcs2 \in SpecificKnown /\ Hongjiali120 \in SpecificKnown
        /\ Hongjiali30 \in SpecificKnown
    BY <1>5 DEF SpecificKnown, Known
  <2>2. <<>> \in Seq(SpecificKnown)
    BY EmptySeq
  <2> QED BY <2>1, <2>2 DEF Examples
<1> QED BY <1>4, <1>6 DEF Known, SpecificKnown

\* What is specific and what is a fallback, in a sequence of known profiles.
LEMMA SplitFacts ==
  ASSUME NEW list \in Seq(Known)
  PROVE  /\ Specific(list) \in Seq(SpecificKnown) /\ Specific(list) \in Seq(Known)
         /\ Fallbacks(list) \in Seq(Known)
         /\ Specific(Fallbacks(list)) = <<>> /\ Specific(Specific(list)) = Specific(list)
         /\ Len(Specific(list)) + Len(Fallbacks(list)) = Len(list)
<1> DEFINE S == {p \in Known : ~IsGeneric(p)}
           R == {p \in Known : IsGeneric(p)}
<1>1. Known \subseteq S \cup R /\ S \cap R = {} /\ SpecificKnown = Known \cap S
  BY DEF SpecificKnown
<1>2. Specific(list) = Kept(list, S) /\ Fallbacks(list) = Kept(list, R)
  BY DEF Specific, Fallbacks
<1>3. Kept(list, S) \in Seq(Known \cap S) /\ Kept(list, R) \in Seq(Known \cap R)
  BY KeptType
<1>4. Kept(list, R) \in Seq(Known \ S)
  <2>1. Known \cap R \subseteq Known \ S
    OBVIOUS
  <2> HIDE DEF S, R
  <2> QED BY <1>3, <2>1
<1>5. Kept(Kept(list, R), S) = <<>>
  <2> HIDE DEF S, R
  <2> QED BY <1>4, KeptNone
<1>6. Kept(Kept(list, S), S) = Kept(list, S)
  <2> HIDE DEF S, R
  <2> QED BY <1>3, KeptAll
<1>7. Len(Kept(list, S)) + Len(Kept(list, R)) = Len(list)
  <2> HIDE DEF S, R
  <2> QED BY <1>1, KeptLen
<1>8. Specific(Fallbacks(list)) = <<>> /\ Specific(Specific(list)) = Specific(list)
  <2>1. Specific(Fallbacks(list)) = Kept(Kept(list, R), S)
    BY DEF Specific, Fallbacks
  <2>2. Specific(Specific(list)) = Kept(Kept(list, S), S)
    BY DEF Specific
  <2> HIDE DEF S, R
  <2> QED BY <1>2, <1>5, <1>6, <2>1, <2>2
<1>9. Specific(list) \in Seq(SpecificKnown) /\ Specific(list) \in Seq(Known)
      /\ Fallbacks(list) \in Seq(Known)
  <2> HIDE DEF S, R
  <2>1. Kept(list, S) \in Seq(Known) /\ Kept(list, R) \in Seq(Known)
    BY <1>3
  <2> QED BY <1>1, <1>2, <1>3, <2>1
<1> QED BY <1>2, <1>7, <1>8, <1>9

LEMMA SplitConcat ==
  ASSUME NEW s \in Seq(Known), NEW t \in Seq(Known)
  PROVE  /\ Specific(s \o t) = Specific(s) \o Specific(t)
         /\ Fallbacks(s \o t) = Fallbacks(s) \o Fallbacks(t)
BY KeptConcat DEF Specific, Fallbacks

\* A list of specific profiles, and the fallback alone.
LEMMA SpecificAll ==
  ASSUME NEW list \in Seq(SpecificKnown)
  PROVE  Specific(list) = list /\ Fallbacks(list) = <<>>
<1> DEFINE S == {p \in Known : ~IsGeneric(p)}
           R == {p \in Known : IsGeneric(p)}
<1>1. list \in Seq(Known \cap S) /\ list \in Seq(Known \ R)
  <2>1. SpecificKnown \subseteq Known \ R
    BY DEF SpecificKnown
  <2> HIDE DEF R
  <2>2. list \in Seq(Known \ R)
    BY <2>1
  <2> QED BY <2>2 DEF SpecificKnown
<1>2. Kept(list, S) = list /\ Kept(list, R) = <<>>
  <2> HIDE DEF S, R
  <2> QED BY <1>1, KeptAll, KeptNone
<1> QED BY <1>2 DEF Specific, Fallbacks

LEMMA GenericFacts ==
    /\ <<Generic>> \in Seq(Known) /\ Len(<<Generic>>) = 1
    /\ Specific(<<Generic>>) = <<>> /\ Fallbacks(<<Generic>>) = <<Generic>>
<1> DEFINE S == {p \in Known : ~IsGeneric(p)}
           R == {p \in Known : IsGeneric(p)}
<1>1. Generic \in Known \cap R /\ Generic \in Known \ S
  BY KnownFacts DEF IsGeneric
<1>2. <<Generic>> \in Seq(Known \cap R) /\ <<Generic>> \in Seq(Known \ S)
  <2> HIDE DEF R, S
  <2> QED BY <1>1
<1>3. Kept(<<Generic>>, R) = <<Generic>> /\ Kept(<<Generic>>, S) = <<>>
  <2> HIDE DEF S, R
  <2> QED BY <1>2, KeptAll, KeptNone
<1>4. <<Generic>> \in Seq(Known) /\ Len(<<Generic>>) = 1
  BY <1>1
<1> QED BY <1>3, <1>4 DEF Specific, Fallbacks

LEMMA ReverseFacts ==
  ASSUME NEW T, NEW s \in Seq(T)
  PROVE  /\ Reverse(s) \in Seq(T) /\ Len(Reverse(s)) = Len(s)
         /\ \A k \in 1..Len(s) : Reverse(s)[k] = s[(Len(s) - k) + 1]
<1>1. Len(s) \in Nat
  BY LenProperties
<1>2. \A k \in 1..Len(s) : (Len(s) - k) + 1 \in 1..Len(s)
  BY <1>1
<1>3. \A k \in 1..Len(s) : s[(Len(s) - k) + 1] \in T
  BY <1>2, ElementOfSeq
<1> QED BY <1>1, <1>3 DEF Reverse

\* The latest of a list is the first of its reverse.
LEMMA ReverseAppend ==
  ASSUME NEW T, NEW s \in Seq(T), NEW x \in T
  PROVE  Reverse(Append(s, x)) = <<x>> \o Reverse(s)
<1> DEFINE a == Append(s, x)
           L == Len(s)
<1>1. a \in Seq(T) /\ Len(a) = L + 1 /\ L \in Nat /\ a[L + 1] = x
  BY AppendProperties, LenProperties
<1>2. \A k \in 1..L : a[k] = s[k]
  BY AppendProperties
<1>3. /\ Reverse(a) \in Seq(T) /\ Len(Reverse(a)) = L + 1
      /\ \A k \in 1..(L + 1) : Reverse(a)[k] = a[((L + 1) - k) + 1]
  <2> HIDE DEF a, L
  <2>1. /\ Reverse(a) \in Seq(T) /\ Len(Reverse(a)) = Len(a)
        /\ \A k \in 1..Len(a) : Reverse(a)[k] = a[(Len(a) - k) + 1]
    BY <1>1, ReverseFacts
  <2> QED BY <1>1, <2>1
<1>4. /\ Reverse(s) \in Seq(T) /\ Len(Reverse(s)) = L
      /\ \A k \in 1..L : Reverse(s)[k] = s[(L - k) + 1]
  BY ReverseFacts
<1>5. <<x>> \in Seq(T) /\ Len(<<x>>) = 1 /\ <<x>>[1] = x
  OBVIOUS
<1> DEFINE b == <<x>>
           c == b \o Reverse(s)
<1> HIDE DEF a, L, b
<1>6. /\ c \in Seq(T) /\ Len(c) = 1 + L
      /\ \A k \in 1..(1 + L) : c[k] = IF k <= 1 THEN b[k] ELSE Reverse(s)[k - 1]
  BY <1>4, <1>5, ConcatProperties DEF b
<1> HIDE DEF c
<1>7. ASSUME NEW k \in 1..(L + 1) PROVE Reverse(a)[k] = c[k]
  <2>1. CASE k = 1
    <3>1. ((L + 1) - k) + 1 = L + 1 /\ k \in 1..(1 + L)
      BY <1>1, <2>1
    <3> QED BY <1>1, <1>3, <1>5, <1>6, <2>1, <3>1 DEF b
  <2>2. CASE k # 1
    <3>1. k - 1 \in 1..L /\ k \in 1..(1 + L) /\ ~(k <= 1)
          /\ ((L + 1) - k) + 1 = (L - (k - 1)) + 1 /\ (L - (k - 1)) + 1 \in 1..L
      BY <1>1, <2>2
    <3>2. Reverse(a)[k] = a[(L - (k - 1)) + 1] /\ c[k] = Reverse(s)[k - 1]
      BY <1>3, <1>6, <3>1
    <3>3. Reverse(s)[k - 1] = s[(L - (k - 1)) + 1]
      BY <1>4, <3>1
    <3> QED BY <1>2, <3>1, <3>2, <3>3
  <2> QED BY <2>1, <2>2
<1>8. Reverse(a) = c
  <2>1. Len(Reverse(a)) = Len(c)
    BY <1>1, <1>3, <1>6
  <2>2. \A k \in 1..Len(Reverse(a)) : Reverse(a)[k] = c[k]
    BY <1>3, <1>7
  <2> QED BY <1>3, <1>6, <2>1, <2>2, SeqEqual
<1> QED BY <1>8 DEF a, b, c

\* The profiles of the registrations of T, put first or last.
LEMMA EnteredType ==
  ASSUME NEW D, NEW prepend \in BOOLEAN, NEW regs \in Seq({r \in Registration : r.profile \in D})
  PROVE  Entered(regs, prepend) \in Seq(D)
<1> DEFINE T == {r \in Registration : r.profile \in D}
           S == {r \in Registration : r.prepend = prepend}
           e == Kept(regs, S)
<1>1. e \in Seq(T)
  <2> HIDE DEF T, S
  <2>1. regs \in Seq(T)
    BY DEF T
  <2>2. e \in Seq(T \cap S)
    BY <2>1, KeptType
  <2> QED BY <2>2
<1>2. Entered(regs, prepend) = [k \in 1..Len(e) |-> e[k].profile]
  BY DEF Entered
<1>3. Len(e) \in Nat /\ \A k \in 1..Len(e) : e[k] \in T
  <2> HIDE DEF e, T
  <2> QED BY <1>1, LenProperties, ElementOfSeq
<1>4. \A k \in 1..Len(e) : e[k].profile \in D
  BY <1>3
<1> HIDE DEF e
<1> QED BY <1>2, <1>3, <1>4

\* A registration is entered behind the earlier ones of its kind, and in no other.
LEMMA EnteredAppend ==
  ASSUME NEW regs \in Seq(Registration), NEW r \in Registration, NEW prepend \in BOOLEAN
  PROVE  Entered(Append(regs, r), prepend)
           = IF r.prepend = prepend THEN Append(Entered(regs, prepend), r.profile)
                                    ELSE Entered(regs, prepend)
<1> DEFINE S == {q \in Registration : q.prepend = prepend}
           e == Kept(regs, S)
           e2 == Kept(Append(regs, r), S)
<1>1. e2 = IF r \in S THEN Append(e, r) ELSE e
  <2> HIDE DEF S
  <2> QED BY KeptAppend
<1>2. e \in Seq(Registration)
  <2> HIDE DEF S
  <2>1. e \in Seq(Registration \cap S)
    BY KeptType
  <2> QED BY <2>1
<1>3. /\ Entered(regs, prepend) = [k \in 1..Len(e) |-> e[k].profile]
      /\ Entered(Append(regs, r), prepend) = [k \in 1..Len(e2) |-> e2[k].profile]
  BY DEF Entered
<1>4. r \in S <=> r.prepend = prepend
  OBVIOUS
<1> HIDE DEF e, e2, S
<1>5. ASSUME e2 = Append(e, r)
      PROVE  [k \in 1..Len(e2) |-> e2[k].profile]
               = Append([k \in 1..Len(e) |-> e[k].profile], r.profile)
  <2> DEFINE P == {q.profile : q \in Registration}
             f == [k \in 1..Len(e) |-> e[k].profile]
             g == [k \in 1..Len(e2) |-> e2[k].profile]
  <2>1. Len(e) \in Nat /\ Len(e2) = Len(e) + 1 /\ e2[Len(e) + 1] = r
    BY <1>2, <1>5, AppendProperties, LenProperties
  <2>2. \A k \in 1..Len(e) : e2[k] = e[k]
    BY <1>2, <1>5, AppendProperties
  <2>3. r.profile \in P /\ \A k \in 1..Len(e) : e[k].profile \in P
    BY <1>2, ElementOfSeq
  <2>4. \A k \in 1..Len(e2) : e2[k].profile \in P
    <3> HIDE DEF P
    <3> QED BY <2>1, <2>2, <2>3
  <2> HIDE DEF P
  <2>5. f \in Seq(P) /\ Len(f) = Len(e) /\ \A k \in 1..Len(e) : f[k] = e[k].profile
    BY <2>1, <2>3
  <2>6. g \in Seq(P) /\ Len(g) = Len(e) + 1 /\ \A k \in 1..(Len(e) + 1) : g[k] = e2[k].profile
    BY <2>1, <2>4
  <2> HIDE DEF f, g
  <2>7. /\ Append(f, r.profile) \in Seq(P) /\ Len(Append(f, r.profile)) = Len(e) + 1
        /\ Append(f, r.profile)[Len(e) + 1] = r.profile
    BY <2>3, <2>5, AppendProperties
  <2>8. \A k \in 1..Len(e) : Append(f, r.profile)[k] = f[k]
    BY <2>3, <2>5, AppendProperties
  <2>9. \A k \in 1..Len(g) : g[k] = Append(f, r.profile)[k]
    BY <2>1, <2>2, <2>5, <2>6, <2>7, <2>8
  <2>10. g = Append(f, r.profile)
    <3> DEFINE h == Append(f, r.profile)
    <3>1. h \in Seq(P) /\ Len(g) = Len(h)
      BY <2>6, <2>7
    <3> HIDE DEF h
    <3> QED BY <2>6, <2>9, <3>1, SeqEqual DEF h
  <2> QED BY <2>10 DEF f, g
<1>6. CASE r.prepend = prepend
  BY <1>1, <1>3, <1>4, <1>5, <1>6
<1>7. CASE r.prepend # prepend
  BY <1>1, <1>3, <1>4, <1>7
<1> QED BY <1>6, <1>7

\* What registrations promise, without the fallback.
Body(regs) == Reverse(Entered(regs, TRUE)) \o Examples \o File \o Entered(regs, FALSE)

\* Concatenation, in the forms the order of the registry needs.
LEMMA ConcatTwo ==
  ASSUME NEW T, NEW s, NEW t, NEW u
  PROVE  s \in Seq(T) /\ t \in Seq(T) /\ u \in Seq(T) =>
           s \o t \in Seq(T) /\ s \o (t \o u) = (s \o t) \o u
<1> SUFFICES ASSUME s \in Seq(T), t \in Seq(T), u \in Seq(T)
             PROVE  s \o t \in Seq(T) /\ s \o (t \o u) = (s \o t) \o u
  OBVIOUS
<1>1. s \o t \in Seq(T)
  BY ConcatProperties
<1>2. s \o (t \o u) = (s \o t) \o u
  BY ConcatAssociative
<1> QED BY <1>1, <1>2

\* Of five sequences, the first may be put before the rest at once or by steps.
PutFirst(T, x, a, b, c, d) ==
    /\ x \in Seq(T) /\ a \in Seq(T) /\ b \in Seq(T) /\ c \in Seq(T) /\ d \in Seq(T)
    => x \o (((a \o b) \o c) \o d) = (((x \o a) \o b) \o c) \o d

LEMMA ConcatFour ==
  ASSUME NEW T, NEW x, NEW a, NEW b, NEW c, NEW d PROVE PutFirst(T, x, a, b, c, d)
<1>1. /\ a \in Seq(T) /\ b \in Seq(T) /\ c \in Seq(T) => a \o b \in Seq(T)
  BY ConcatTwo
<1>2. a \o b \in Seq(T) /\ c \in Seq(T) => (a \o b) \o c \in Seq(T)
  BY ConcatTwo
<1>3. x \in Seq(T) /\ a \in Seq(T) /\ b \in Seq(T) => x \o (a \o b) = (x \o a) \o b
  BY ConcatTwo
<1>4. x \in Seq(T) /\ a \o b \in Seq(T) /\ c \in Seq(T) =>
        x \o ((a \o b) \o c) = (x \o (a \o b)) \o c
  BY ConcatTwo
<1>5. x \in Seq(T) /\ (a \o b) \o c \in Seq(T) /\ d \in Seq(T) =>
        x \o (((a \o b) \o c) \o d) = (x \o ((a \o b) \o c)) \o d
  <2> DEFINE abc == (a \o b) \o c
  <2> HIDE DEF abc
  <2>1. x \in Seq(T) /\ abc \in Seq(T) /\ d \in Seq(T) => x \o (abc \o d) = (x \o abc) \o d
    BY ConcatTwo
  <2> QED BY <2>1 DEF abc
<1>6. PutFirst(T, x, a, b, c, d)
  BY <1>1, <1>2, <1>3, <1>4, <1>5, Zenon DEF PutFirst
<1> QED BY <1>6

\* What is promised is of any set that what is shipped, filed and registered is of.
LEMMA BodyFacts ==
  ASSUME NEW D, NEW regs \in Seq({r \in Registration : r.profile \in D}),
         Examples \in Seq(D), File \in Seq(D)
  PROVE  Body(regs) \in Seq(D)
<1>1. Entered(regs, TRUE) \in Seq(D) /\ Entered(regs, FALSE) \in Seq(D)
  BY EnteredType
<1>2. Reverse(Entered(regs, TRUE)) \in Seq(D)
  BY <1>1, ReverseFacts
<1> QED BY <1>1, <1>2, ConcatProperties DEF Body

LEMMA RegistrationKnown ==
  /\ Registration = {r \in Registration : r.profile \in Known}
  /\ Examples \in Seq(Known)
<1>1. SpecificKnown \subseteq Known
  BY DEF SpecificKnown
<1>2. Examples \in Seq(Known)
  BY <1>1, KnownFacts
<1>3. \A r \in Registration : r.profile \in Known
  BY KnownFacts DEF Registration
<1> QED BY <1>2, <1>3

LEMMA EnteredKnown ==
  ASSUME NEW regs \in Seq(Registration)
  PROVE  /\ Entered(regs, TRUE) \in Seq(Known) /\ Entered(regs, FALSE) \in Seq(Known)
         /\ Reverse(Entered(regs, TRUE)) \in Seq(Known)
         /\ Examples \in Seq(Known) /\ File \in Seq(Known) /\ Body(regs) \in Seq(Known)
<1>1. regs \in Seq({r \in Registration : r.profile \in Known})
  BY RegistrationKnown
<1>2. Entered(regs, TRUE) \in Seq(Known) /\ Entered(regs, FALSE) \in Seq(Known)
  BY <1>1, EnteredType
<1>3. Examples \in Seq(Known) /\ File \in Seq(Known)
  BY RegistrationKnown, KnownFacts
<1>4. Body(regs) \in Seq(Known)
  BY <1>1, <1>3, BodyFacts
<1> QED BY <1>2, <1>3, <1>4, ReverseFacts

\* A registration put first comes before all that was promised; another, behind it.
LEMMA BodyAppend ==
  ASSUME NEW regs \in Seq(Registration), NEW r \in Registration
  PROVE  Body(Append(regs, r))
           = IF r.prepend THEN <<r.profile>> \o Body(regs) ELSE Append(Body(regs), r.profile)
<1> DEFINE t == Entered(regs, TRUE)
           f == Entered(regs, FALSE)
           x == <<r.profile>>
<1>1. /\ t \in Seq(Known) /\ f \in Seq(Known) /\ Reverse(t) \in Seq(Known)
      /\ Examples \in Seq(Known) /\ File \in Seq(Known)
  BY EnteredKnown
<1>2. r.profile \in Known /\ x \in Seq(Known) /\ r.prepend \in BOOLEAN
  BY KnownFacts DEF Registration
<1>3. /\ Entered(Append(regs, r), TRUE) = IF r.prepend = TRUE THEN Append(t, r.profile) ELSE t
      /\ Entered(Append(regs, r), FALSE) = IF r.prepend = FALSE THEN Append(f, r.profile) ELSE f
  BY EnteredAppend
<1> DEFINE rt == Reverse(t)
           m == (rt \o Examples) \o File
<1>4. m \in Seq(Known)
  BY <1>1, ConcatProperties
<1>5. CASE r.prepend = TRUE
  <2>1. /\ Entered(Append(regs, r), TRUE) = Append(t, r.profile)
        /\ Entered(Append(regs, r), FALSE) = f
    BY <1>3, <1>5
  <2>2. Reverse(Append(t, r.profile)) = x \o rt
    BY <1>1, <1>2, ReverseAppend
  <2>3. Body(Append(regs, r)) = (((x \o rt) \o Examples) \o File) \o f
    BY <2>1, <2>2 DEF Body
  <2>4. Body(regs) = ((rt \o Examples) \o File) \o f
    BY DEF Body
  <2> HIDE DEF t, f, x, rt
  <2>5. x \o (((rt \o Examples) \o File) \o f) = (((x \o rt) \o Examples) \o File) \o f
    <3>1. rt \in Seq(Known)
      BY <1>1 DEF rt, t
    <3>2. f \in Seq(Known)
      BY <1>1 DEF f
    <3>3. x \in Seq(Known)
      BY <1>2 DEF x
    <3>4. Examples \in Seq(Known) /\ File \in Seq(Known)
      BY <1>1
    <3>5. PutFirst(Known, x, rt, Examples, File, f)
      BY ConcatFour
    <3> QED BY <3>1, <3>2, <3>3, <3>4, <3>5 DEF PutFirst
  <2> QED BY <1>5, <2>3, <2>4, <2>5 DEF x
<1>6. CASE r.prepend = FALSE
  <2>1. /\ Entered(Append(regs, r), TRUE) = t
        /\ Entered(Append(regs, r), FALSE) = Append(f, r.profile)
    BY <1>3, <1>6
  <2>2. Body(Append(regs, r)) = m \o Append(f, r.profile) /\ Body(regs) = m \o f
    BY <2>1 DEF Body
  <2> HIDE DEF m, f
  <2>3. m \o Append(f, r.profile) = Append(m \o f, r.profile)
    BY <1>1, <1>2, <1>4, ConcatAppend
  <2> QED BY <1>6, <2>2, <2>3
<1> QED BY <1>2, <1>5, <1>6

LEMMA BodyEmpty == Body(<<>>) = Examples \o File
<1>1. \A b \in BOOLEAN : Entered(<<>>, b) = <<>>
  <2> SUFFICES ASSUME NEW b \in BOOLEAN PROVE Entered(<<>>, b) = <<>>
    OBVIOUS
  <2>1. Kept(<<>>, {r \in Registration : r.prepend = b}) = <<>>
    BY KeptEmpty
  <2>2. Entered(<<>>, b) = [k \in 1..Len(<<>>) |-> <<>>[k].profile]
    BY <2>1 DEF Entered
  <2>3. Entered(<<>>, b) \in Seq({}) /\ Len(Entered(<<>>, b)) = 0
    BY <2>2, EmptySeq
  <2> QED BY <2>3, EmptySeq
<1>2. Reverse(<<>>) = <<>>
  <2>1. <<>> \in Seq({}) /\ Len(<<>>) = 0
    BY EmptySeq
  <2>2. Reverse(<<>>) \in Seq({}) /\ Len(Reverse(<<>>)) = 0
    BY <2>1, ReverseFacts
  <2> QED BY <2>2, EmptySeq
<1>3. Body(<<>>) = ((<<>> \o Examples) \o File) \o <<>>
  BY <1>1, <1>2 DEF Body
<1>4. Examples \in Seq(Known) /\ File \in Seq(Known)
  BY RegistrationKnown, KnownFacts
<1>5. <<>> \o Examples = Examples
  BY <1>4, ConcatEmptySeq
<1>6. Examples \o File \in Seq(Known)
  BY <1>4, ConcatProperties
<1>7. (Examples \o File) \o <<>> = Examples \o File
  BY <1>6, ConcatEmptySeq
<1> QED BY <1>3, <1>5, <1>7

Placed(p, prepend, list) == IF prepend THEN <<p>> \o list ELSE Append(list, p)

\* The registry list is in the order of body: as many profiles before the fallback, the
\* specific ones in the same order; and body itself if none of it is a fallback.
InOrder(list, body) ==
    /\ \E front \in Seq(Known) :
         list = front \o <<Generic>> /\ Len(front) = Len(body) /\ Specific(front) = Specific(body)
    /\ body \in Seq(SpecificKnown) => list = body \o <<Generic>>

LEMMA PlacedFacts ==
  ASSUME NEW T, NEW p \in T, NEW prepend \in BOOLEAN, NEW list \in Seq(T)
  PROVE  Placed(p, prepend, list) \in Seq(T) /\ Len(Placed(p, prepend, list)) = Len(list) + 1
<1>1. <<p>> \in Seq(T) /\ Len(<<p>>) = 1 /\ Len(list) \in Nat
  BY LenProperties
<1>2. <<p>> \o list \in Seq(T) /\ Len(<<p>> \o list) = 1 + Len(list)
  BY <1>1, ConcatProperties
<1>3. Append(list, p) \in Seq(T) /\ Len(Append(list, p)) = Len(list) + 1
  BY AppendProperties
<1> QED BY <1>1, <1>2, <1>3 DEF Placed

\* If a list with p placed in it is of D, so is the list.
LEMMA PlacedIn ==
  ASSUME NEW T, NEW p \in T, NEW prepend \in BOOLEAN, NEW list \in Seq(T), NEW D,
         Placed(p, prepend, list) \in Seq(D)
  PROVE  p \in D /\ list \in Seq(D)
<1>1. Len(list) \in Nat /\ \A k \in 1..Len(list) : list[k] \in T
  BY LenProperties, ElementOfSeq
<1> DEFINE q == Placed(p, prepend, list)
<1>2. Len(q) = Len(list) + 1
  BY PlacedFacts
<1>3. \A k \in 1..(Len(list) + 1) : q[k] \in D
  <2> HIDE DEF q
  <2>1. q \in Seq(D)
    BY DEF q
  <2> QED BY <1>2, <2>1, ElementOfSeq
<1>4. ASSUME prepend PROVE q[1] = p /\ \A k \in 1..Len(list) : q[k + 1] = list[k]
  <2>1. q = <<p>> \o list
    BY <1>4 DEF Placed
  <2>2. <<p>> \in Seq(T) /\ Len(<<p>>) = 1 /\ <<p>>[1] = p
    OBVIOUS
  <2> DEFINE b == <<p>>
             c == b \o list
  <2> HIDE DEF b
  <2>3. \A k \in 1..(1 + Len(list)) : c[k] = IF k <= 1 THEN b[k] ELSE list[k - 1]
    BY <2>2, ConcatProperties DEF b
  <2>4. c[1] = p
    BY <1>1, <2>2, <2>3 DEF b
  <2>5. ASSUME NEW k \in 1..Len(list) PROVE c[k + 1] = list[k]
    <3>1. k + 1 \in 1..(1 + Len(list)) /\ ~(k + 1 <= 1) /\ (k + 1) - 1 = k
      BY <1>1
    <3> HIDE DEF c
    <3> QED BY <2>3, <3>1
  <2> HIDE DEF c, q
  <2>6. q = c
    BY <2>1 DEF c, b
  <2> QED BY <2>4, <2>5, <2>6
<1>5. ASSUME ~prepend PROVE q[Len(list) + 1] = p /\ \A k \in 1..Len(list) : q[k] = list[k]
  <2>1. q = Append(list, p)
    BY <1>5 DEF Placed
  <2> QED BY <2>1, AppendProperties
<1> HIDE DEF q
<1>6. CASE prepend
  <2>1. 1 \in 1..(Len(list) + 1) /\ \A k \in 1..Len(list) : k + 1 \in 1..(Len(list) + 1)
    BY <1>1
  <2>2. p \in D /\ \A k \in 1..Len(list) : list[k] \in D
    BY <1>3, <1>4, <1>6, <2>1
  <2> QED BY <2>2
<1>7. CASE ~prepend
  <2>1. Len(list) + 1 \in 1..(Len(list) + 1)
        /\ \A k \in 1..Len(list) : k \in 1..(Len(list) + 1)
    BY <1>1
  <2>2. p \in D /\ \A k \in 1..Len(list) : list[k] \in D
    BY <1>3, <1>5, <1>7, <2>1
  <2> QED BY <2>2
<1> QED BY <1>6, <1>7

LEMMA PlacedSpecific ==
  ASSUME NEW p \in Known, NEW prepend \in BOOLEAN, NEW s \in Seq(Known), NEW t \in Seq(Known),
         Specific(s) = Specific(t)
  PROVE  Specific(Placed(p, prepend, s)) = Specific(Placed(p, prepend, t))
<1>1. <<p>> \in Seq(Known)
  OBVIOUS
<1>2. /\ Specific(<<p>> \o s) = Specific(<<p>>) \o Specific(s)
      /\ Specific(<<p>> \o t) = Specific(<<p>>) \o Specific(t)
  <2> DEFINE b == <<p>>
  <2>1. b \in Seq(Known)
    BY <1>1
  <2> HIDE DEF b
  <2>2. /\ Specific(b \o s) = Specific(b) \o Specific(s)
        /\ Specific(b \o t) = Specific(b) \o Specific(t)
    BY <2>1, SplitConcat
  <2> QED BY <2>2 DEF b
<1>3. /\ Specific(s \o <<p>>) = Specific(s) \o Specific(<<p>>)
      /\ Specific(t \o <<p>>) = Specific(t) \o Specific(<<p>>)
  <2> DEFINE b == <<p>>
  <2>1. b \in Seq(Known)
    BY <1>1
  <2> HIDE DEF b
  <2>2. /\ Specific(s \o b) = Specific(s) \o Specific(b)
        /\ Specific(t \o b) = Specific(t) \o Specific(b)
    BY <2>1, SplitConcat
  <2> QED BY <2>2 DEF b
<1>4. Append(s, p) = s \o <<p>> /\ Append(t, p) = t \o <<p>>
  BY AppendIsConcat
<1> QED BY <1>2, <1>3, <1>4 DEF Placed

\* register_profile keeps the order, with the new profile in its place.
LEMMA InsertedInOrder ==
  ASSUME NEW list, NEW body \in Seq(Known), NEW p \in Known, NEW prepend \in BOOLEAN,
         InOrder(list, body)
  PROVE  /\ Inserted(list, p, prepend) \in Seq(Known)
         /\ InOrder(Inserted(list, p, prepend), Placed(p, prepend, body))
<1> DEFINE new == Inserted(list, p, prepend)
           placed == Placed(p, prepend, body)
           last == <<Generic>>
<1>0. /\ last \in Seq(Known) /\ Specific(last) = <<>> /\ Fallbacks(last) = last
  BY GenericFacts
<1> HIDE DEF last
<1>1. new = Placed(p, prepend, Specific(list)) \o Fallbacks(list)
  BY DEF Inserted, Placed
<1>2. placed \in Seq(Known) /\ Len(placed) = Len(body) + 1
  BY PlacedFacts
<1>3. \E front \in Seq(Known) :
        new = front \o last /\ Len(front) = Len(placed) /\ Specific(front) = Specific(placed)
  <2>1. PICK front \in Seq(Known) :
          list = front \o last /\ Len(front) = Len(body) /\ Specific(front) = Specific(body)
    BY DEF InOrder, last
  <2> DEFINE sp == Specific(front)
             fb == Fallbacks(front)
             top == Placed(p, prepend, sp)
  <2>2. /\ sp \in Seq(Known) /\ fb \in Seq(Known) /\ Specific(fb) = <<>>
        /\ Specific(sp) = sp /\ Len(sp) + Len(fb) = Len(front)
    BY SplitFacts
  <2>3. Specific(list) = sp /\ Fallbacks(list) = fb \o last
    <3>1. Specific(list) = sp \o <<>> /\ Fallbacks(list) = fb \o last
      BY <1>0, <2>1, SplitConcat
    <3>2. sp \o <<>> = sp
      <4> HIDE DEF sp
      <4> QED BY <2>2, ConcatEmptySeq
    <3> QED BY <3>1, <3>2
  <2>4. top \in Seq(Known) /\ Len(top) = Len(sp) + 1
    <3> HIDE DEF sp
    <3> QED BY <2>2, PlacedFacts
  <2>5. Specific(top) = Specific(placed)
    <3>1. Specific(sp) = Specific(body)
      BY <2>1, <2>2
    <3> HIDE DEF sp
    <3> QED BY <2>2, <3>1, PlacedSpecific
  <2>6. new = top \o (fb \o last)
    BY <1>1, <2>3
  <2> DEFINE f2 == top \o fb
  <2> HIDE DEF new, placed, sp, fb, top
  <2>7. f2 \in Seq(Known) /\ Len(f2) = Len(top) + Len(fb)
    BY <2>2, <2>4, ConcatProperties
  <2>8. top \o (fb \o last) = (top \o fb) \o last
    <3>1. top \in Seq(Known) /\ fb \in Seq(Known) /\ last \in Seq(Known) =>
            top \o (fb \o last) = (top \o fb) \o last
      BY ConcatTwo
    <3> QED BY <1>0, <2>2, <2>4, <3>1
  <2>9. Specific(f2) = Specific(top)
    <3>1. Specific(f2) = Specific(top) \o <<>>
      BY <2>2, <2>4, SplitConcat
    <3>2. Specific(top) \in Seq(Known)
      BY <2>4, SplitFacts
    <3> QED BY <3>1, <3>2, ConcatEmptySeq
  <2>10. Len(f2) = Len(placed)
    <3>1. Len(sp) \in Nat /\ Len(fb) \in Nat /\ Len(body) \in Nat
      BY <2>2, LenProperties
    <3>2. /\ Len(f2) = Len(top) + Len(fb) /\ Len(top) = Len(sp) + 1
          /\ Len(sp) + Len(fb) = Len(body) /\ Len(placed) = Len(body) + 1
      BY <1>2, <2>1, <2>2, <2>4, <2>7
    <3> HIDE DEF f2
    <3> QED BY <3>1, <3>2
  <2> HIDE DEF f2
  <2>11. new = f2 \o last
    BY <2>6, <2>8 DEF f2
  <2> QED BY <2>5, <2>7, <2>9, <2>10, <2>11
<1>4. ASSUME placed \in Seq(SpecificKnown) PROVE new = placed \o last
  <2>1. p \in SpecificKnown /\ body \in Seq(SpecificKnown)
    BY <1>4, PlacedIn
  <2>2. list = body \o last
    BY <2>1 DEF InOrder, last
  <2>3. Specific(body) = body /\ Fallbacks(body) = <<>>
    BY <2>1, SpecificAll
  <2>4. Specific(list) = body \o <<>> /\ Fallbacks(list) = <<>> \o last
    BY <1>0, <2>2, <2>3, SplitConcat
  <2>5. body \o <<>> = body /\ <<>> \o last = last
    BY <1>0, ConcatEmptySeq
  <2> QED BY <1>1, <2>4, <2>5
<1>5. new \in Seq(Known)
  <2>1. PICK front \in Seq(Known) : new = front \o last
    BY <1>3
  <2> HIDE DEF new
  <2> QED BY <1>0, <2>1, ConcatProperties
<1>6. InOrder(new, placed)
  <2> HIDE DEF new, placed
  <2> QED BY <1>3, <1>4 DEF InOrder, last
<1> QED BY <1>5, <1>6

LEMMA PrefixFacts ==
  ASSUME NEW T, NEW s \in Seq(T), NEW n \in 0..Len(s)
  PROVE  /\ SubSeq(s, 1, n) \in Seq(T) /\ Len(SubSeq(s, 1, n)) = n
         /\ \A k \in 1..n : SubSeq(s, 1, n)[k] = s[k]
<1>1. n \in Int /\ 1 \in Int /\ Len(s) \in Nat
  BY LenProperties
<1>2. \A k \in 1..n : s[k] \in T
  BY <1>1, ElementOfSeq
<1> DEFINE t == SubSeq(s, 1, n)
<1>3. /\ t \in Seq(T) /\ Len(t) = IF 1 <= n THEN (n - 1) + 1 ELSE 0
      /\ \A k \in 1..((n - 1) + 1) : t[k] = s[(1 + k) - 1]
  BY <1>1, <1>2, SubSeqProperties
<1>4. (n - 1) + 1 = n /\ (~(1 <= n) => n = 0) /\ \A k \in 1..n : (1 + k) - 1 = k
  BY <1>1
<1> HIDE DEF t
<1>5. t \in Seq(T) /\ Len(t) = n /\ \A k \in 1..n : t[k] = s[k]
  BY <1>3, <1>4
<1> QED BY <1>5 DEF t

\* A longer beginning of a sequence; the beginning of a longer sequence.
LEMMA PrefixNext ==
  ASSUME NEW T, NEW s \in Seq(T), NEW n \in Nat, n + 1 \in 0..Len(s)
  PROVE  SubSeq(s, 1, n + 1) = Append(SubSeq(s, 1, n), s[n + 1])
<1> DEFINE t == SubSeq(s, 1, n)
           u == SubSeq(s, 1, n + 1)
           a == Append(t, s[n + 1])
<1>1. Len(s) \in Nat /\ n \in 0..Len(s) /\ n + 1 \in 1..Len(s)
  BY LenProperties
<1>2. t \in Seq(T) /\ Len(t) = n /\ \A k \in 1..n : t[k] = s[k]
  BY <1>1, PrefixFacts
<1>3. u \in Seq(T) /\ Len(u) = n + 1 /\ \A k \in 1..(n + 1) : u[k] = s[k]
  BY <1>1, PrefixFacts
<1>4. s[n + 1] \in T
  BY <1>1, ElementOfSeq
<1> HIDE DEF t, u
<1>5. /\ a \in Seq(T) /\ Len(a) = n + 1 /\ a[n + 1] = s[n + 1]
      /\ \A k \in 1..n : a[k] = t[k]
  BY <1>2, <1>4, AppendProperties
<1> HIDE DEF a
<1>6. \A k \in 1..Len(u) : u[k] = a[k]
  <2> SUFFICES ASSUME NEW k \in 1..Len(u) PROVE u[k] = a[k]
    OBVIOUS
  <2>1. k \in 1..n \/ k = n + 1
    BY <1>3
  <2> QED BY <1>2, <1>3, <1>5, <2>1
<1>7. u = a
  BY <1>3, <1>5, <1>6, SeqEqual
<1> QED BY <1>7 DEF t, u, a

LEMMA PrefixKept ==
  ASSUME NEW T, NEW s \in Seq(T), NEW x \in T, NEW n \in 0..Len(s)
  PROVE  SubSeq(Append(s, x), 1, n) = SubSeq(s, 1, n)
<1> DEFINE a == Append(s, x)
           t == SubSeq(s, 1, n)
           u == SubSeq(a, 1, n)
<1>1. /\ a \in Seq(T) /\ Len(a) = Len(s) + 1 /\ Len(s) \in Nat
      /\ \A k \in 1..Len(s) : a[k] = s[k]
  BY AppendProperties, LenProperties
<1>2. t \in Seq(T) /\ Len(t) = n /\ \A k \in 1..n : t[k] = s[k]
  BY PrefixFacts
<1> HIDE DEF a, t
<1>3. n \in 0..Len(a)
  BY <1>1
<1>4. u \in Seq(T) /\ Len(u) = n /\ \A k \in 1..n : u[k] = a[k]
  BY <1>1, <1>3, PrefixFacts
<1> HIDE DEF u
<1>5. \A k \in 1..Len(t) : t[k] = u[k]
  <2> SUFFICES ASSUME NEW k \in 1..Len(t) PROVE t[k] = u[k]
    OBVIOUS
  <2>1. k \in 1..n /\ k \in 1..Len(s)
    BY <1>1, <1>2
  <2> QED BY <1>1, <1>2, <1>4, <2>1
<1>6. t = u
  BY <1>2, <1>4, <1>5, SeqEqual
<1> QED BY <1>6 DEF a, t, u

\* The registry list with the entry n of the file.
WithEntry(list, n) == Inserted(list, File[n], FALSE)

\* What the loop of load_profiles_from_yaml has after each of the first m entries.
Loads(f, list, m) ==
    f = [n \in 0..m |-> IF n = 0 THEN list ELSE WithEntry(f[n - 1], n)]

LEMMA LoadsExist == ASSUME NEW list PROVE \A m \in Nat : \E f : Loads(f, list, m)
<1> DEFINE N == {m \in Nat : \E f : Loads(f, list, m)}
<1>1. 0 \in N
  <2> DEFINE f == [n \in 0..0 |-> list]
  <2>1. Loads(f, list, 0)
    BY DEF Loads
  <2> QED BY <2>1
<1>2. ASSUME NEW m \in N PROVE m + 1 \in N
  <2>1. PICK f : Loads(f, list, m)
    OBVIOUS
  <2>2. \A n \in 0..m : f[n] = IF n = 0 THEN list ELSE WithEntry(f[n - 1], n)
    BY <2>1 DEF Loads
  <2> DEFINE new == WithEntry(f[m], m + 1)
             g == [n \in 0..(m + 1) |-> IF n <= m THEN f[n] ELSE new]
  <2>3. ASSUME NEW n \in 0..(m + 1)
        PROVE  g[n] = IF n = 0 THEN list ELSE WithEntry(g[n - 1], n)
    <3>1. m \in Nat
      OBVIOUS
    <3>2. CASE n = 0
      BY <2>2, <3>1, <3>2
    <3>3. CASE n \in 1..m
      <4>1. n \in 0..m /\ n - 1 \in 0..m /\ n # 0
        BY <3>1, <3>3
      <4>2. g[n] = f[n] /\ g[n - 1] = f[n - 1]
        BY <3>1, <4>1
      <4> HIDE DEF g
      <4> QED BY <2>2, <4>1, <4>2
    <3>4. CASE n = m + 1
      <4>1. g[m + 1] = new /\ g[m] = f[m] /\ (m + 1) - 1 = m /\ m + 1 # 0
        BY <3>1
      <4> HIDE DEF g
      <4> QED BY <3>4, <4>1
    <3> QED BY <3>1, <3>2, <3>3, <3>4
  <2>4. g = [n \in 0..(m + 1) |-> g[n]]
    OBVIOUS
  <2> HIDE DEF g
  <2>5. Loads(g, list, m + 1)
    BY <2>3, <2>4 DEF Loads
  <2> QED BY <2>5
<1>3. N = Nat
  <2>1. N \in SUBSET Nat
    OBVIOUS
  <2> HIDE DEF N
  <2> QED BY <1>1, <1>2, <2>1, SetInduction
<1> QED BY <1>3

\* When it is first used, the registry has what is shipped, then the file.
LEMMA LoadedInOrder ==
  InOrder(WithFile(Append(Examples, Generic)), Body(<<>>))
<1> DEFINE list == Append(Examples, Generic)
           m == Len(File)
           f == CHOOSE f : Loads(f, list, m)
           body(n) == Examples \o SubSeq(File, 1, n)
<1>1. m \in Nat /\ Examples \in Seq(Known) /\ File \in Seq(Known)
  BY RegistrationKnown, KnownFacts, LenProperties
<1>2. Loads(f, list, m)
  <2>1. \E g : Loads(g, list, m)
    BY <1>1, LoadsExist
  <2> QED BY <2>1
<1>3. WithFile(list) = f[m]
  BY DEF WithFile, Loads, WithEntry
<1> HIDE DEF f
<1>4. \A n \in 0..m : f[n] = IF n = 0 THEN list ELSE WithEntry(f[n - 1], n)
  BY <1>2 DEF Loads
<1> DEFINE N == {n \in Nat : n \in 0..m => InOrder(f[n], body(n))}
<1>5. 0 \in N
  <2>1. f[0] = list
    <3> HIDE DEF list, m
    <3>1. 0 \in 0..m
      BY <1>1
    <3> QED BY <1>4, <3>1
  <2>2. list = Examples \o <<Generic>>
    BY <1>1, KnownFacts, AppendIsConcat
  <2>3. SubSeq(File, 1, 0) = <<>> /\ Examples \o <<>> = Examples
    BY <1>1, SubSeqEmpty, ConcatEmptySeq
  <2>4. InOrder(list, Examples)
    BY <1>1, <2>2 DEF InOrder
  <2> QED BY <2>1, <2>3, <2>4
<1>6. ASSUME NEW n \in N PROVE n + 1 \in N
  <2>1. ASSUME n + 1 \in 0..m PROVE InOrder(f[n + 1], body(n + 1))
    <3> DEFINE x == File[n + 1]
               p == SubSeq(File, 1, n)
    <3>1. n \in Nat /\ n \in 0..m /\ n + 1 \in 1..m /\ n + 1 # 0 /\ (n + 1) - 1 = n
      BY <1>1, <2>1
    <3>2. InOrder(f[n], body(n))
      BY <3>1
    <3>3. f[n + 1] = Inserted(f[n], x, FALSE)
      BY <1>4, <2>1, <3>1 DEF WithEntry
    <3>4. x \in Known
      BY <1>1, <3>1, ElementOfSeq
    <3>5. p \in Seq(Known)
      BY <1>1, <3>1, PrefixFacts
    <3>6. SubSeq(File, 1, n + 1) = Append(p, x)
      BY <1>1, <2>1, <3>1, PrefixNext
    <3>7. Examples \o p \in Seq(Known)
      BY <1>1, <3>5, ConcatProperties
    <3> HIDE DEF x, p, m, N
    <3>8. Examples \o Append(p, x) = Append(Examples \o p, x)
      BY <1>1, <3>4, <3>5, ConcatAppend
    <3>9. Placed(x, FALSE, Examples \o p) = Append(Examples \o p, x)
      BY DEF Placed
    <3>10. InOrder(f[n], Examples \o p)
      BY <3>2 DEF p
    <3>11. InOrder(Inserted(f[n], x, FALSE), Placed(x, FALSE, Examples \o p))
      <4> DEFINE b == Examples \o p
      <4>1. b \in Seq(Known) /\ InOrder(f[n], b)
        BY <3>7, <3>10
      <4> HIDE DEF b
      <4>2. InOrder(Inserted(f[n], x, FALSE), Placed(x, FALSE, b))
        BY <3>4, <4>1, InsertedInOrder
      <4> QED BY <4>2 DEF b
    <3> QED BY <3>3, <3>6, <3>8, <3>9, <3>11
  <2> QED BY <2>1
<1>7. N = Nat
  <2>1. N \in SUBSET Nat
    OBVIOUS
  <2> HIDE DEF N
  <2> QED BY <1>5, <1>6, <2>1, SetInduction
<1>8. InOrder(f[m], body(m))
  BY <1>1, <1>7
<1>9. SubSeq(File, 1, m) = File
  BY <1>1, SubSeqFull
<1> QED BY <1>3, <1>8, <1>9, BodyEmpty

\* Neither a registration nor the file takes the id of the fallback.
Regular(regs) ==
    \A p \in {r.profile : r \in Range(regs)} \cup Range(File) : ~IsGeneric(p)

RegistryInOrder ==
    IF loaded THEN InOrder(profiles, Body(registered)) ELSE registered = <<>> /\ profiles = <<>>

HeldAsResolved ==
    \A h \in Handler :
        /\ resolving[h].upTo <= Len(registered)
        /\ Regular(registered) /\ resolving[h].of # NoIdentity /\ resolving[h].pc # "resolve" =>
             held[h] = Resolve(Promised(SubSeq(registered, 1, resolving[h].upTo)),
                               resolving[h].of)

ProfilesIInv ==
    ProfilesTypeOK /\ Len(registered) <= MaxCustom /\ RegistryInOrder /\ HeldAsResolved

\* Without a second fallback, all that is promised before the fallback is specific.
LEMMA RegularBody ==
  ASSUME NEW regs \in Seq(Registration), Regular(regs)
  PROVE  Body(regs) \in Seq(SpecificKnown)
<1> DEFINE T == {r \in Registration : r.profile \in SpecificKnown}
<1>1. Len(regs) \in Nat /\ \A k \in 1..Len(regs) : k \in DOMAIN regs /\ regs[k] \in Registration
  BY LenProperties, ElementOfSeq
<1>2. ASSUME NEW k \in 1..Len(regs) PROVE regs[k] \in T
  <2>1. regs[k] \in Range(regs) /\ regs[k] \in Registration
    BY <1>1 DEF Range
  <2>2. ~IsGeneric(regs[k].profile)
    BY <2>1 DEF Regular
  <2>3. regs[k].profile \in Known
    BY <2>1, KnownFacts DEF Registration
  <2> QED BY <2>1, <2>2, <2>3 DEF SpecificKnown
<1>3. regs \in Seq(T)
  <2> HIDE DEF T
  <2> QED BY <1>1, <1>2
<1>4. Len(File) \in Nat /\ \A k \in 1..Len(File) : k \in DOMAIN File /\ File[k] \in Known
  BY KnownFacts, LenProperties, ElementOfSeq
<1>5. \A k \in 1..Len(File) : File[k] \in SpecificKnown
  <2> SUFFICES ASSUME NEW k \in 1..Len(File) PROVE File[k] \in SpecificKnown
    OBVIOUS
  <2>1. File[k] \in Range(File) /\ File[k] \in Known
    BY <1>4 DEF Range
  <2>2. ~IsGeneric(File[k])
    BY <2>1 DEF Regular
  <2> QED BY <2>1, <2>2 DEF SpecificKnown
<1>6. File \in Seq(SpecificKnown)
  BY <1>4, <1>5, KnownFacts
<1> QED BY <1>3, <1>6, BodyFacts, KnownFacts

LEMMA RegularBefore ==
  ASSUME NEW regs \in Seq(Registration), NEW r \in Registration, Regular(Append(regs, r))
  PROVE  Regular(regs)
<1> DEFINE a == Append(regs, r)
<1>1. /\ Len(a) = Len(regs) + 1 /\ Len(regs) \in Nat /\ a \in Seq(Registration)
      /\ \A k \in 1..Len(regs) : a[k] = regs[k]
  BY AppendProperties, LenProperties
<1> HIDE DEF a
<1>2. DOMAIN a = 1..Len(a) /\ DOMAIN regs = 1..Len(regs)
  BY <1>1, LenProperties
<1>3. Range(regs) \subseteq Range(a)
  BY <1>1, <1>2 DEF Range
<1>4. Regular(a)
  BY DEF a
<1> QED BY <1>3, <1>4 DEF Regular

LEMMA InOrderType ==
  ASSUME NEW list, NEW body, InOrder(list, body) PROVE list \in Seq(Known)
BY GenericFacts, ConcatProperties DEF InOrder

\* Whatever is resolved, a handler has a profile there is.
LEMMA ResolveType ==
  ASSUME NEW list \in Seq(Known), NEW i PROVE Resolve(list, i) \in Known
<1> DEFINE S == {p \in Known : Matches(p, i)}
           hits == Kept(list, S)
<1>1. hits \in Seq(Known)
  <2> HIDE DEF S
  <2>1. hits \in Seq(Known \cap S)
    BY KeptType
  <2> QED BY <2>1
<1>2. Resolve(list, i) = IF hits = <<>> THEN Generic ELSE Head(hits)
  BY DEF Resolve
<1> HIDE DEF hits
<1>3. hits # <<>> => Head(hits) \in Known
  BY <1>1, HeadTailProperties
<1> QED BY <1>2, <1>3, KnownFacts

\* Whoever uses the registry finds it in the order of the registrations so far.
LEMMA ReadyInOrder ==
  ASSUME ProfilesIInv
  PROVE  /\ Ready \in Seq(Known) /\ InOrder(Ready, Body(registered))
         /\ Regular(registered) => Ready = Promised(registered)
<1>1. InOrder(Ready, Body(registered))
  <2>1. CASE loaded
    BY <2>1 DEF ProfilesIInv, RegistryInOrder, Ready
  <2>2. CASE ~loaded
    BY <2>2, LoadedInOrder DEF ProfilesIInv, RegistryInOrder, Ready
  <2> QED BY <2>1, <2>2
<1>2. ASSUME Regular(registered) PROVE Ready = Promised(registered)
  <2>1. registered \in Seq(Registration)
    BY DEF ProfilesIInv, ProfilesTypeOK
  <2>2. Body(registered) \in Seq(SpecificKnown)
    BY <1>2, <2>1, RegularBody
  <2> QED BY <1>1, <2>2 DEF InOrder, Promised, Body
<1> QED BY <1>1, <1>2, InOrderType

LEMMA ProfilesInitIInv == ProfilesInit => ProfilesIInv
<1> SUFFICES ASSUME ProfilesInit PROVE ProfilesIInv
  OBVIOUS
<1>1. <<>> \in Seq(Known) /\ <<>> \in Seq(Registration) /\ Len(<<>>) = 0
  BY EmptySeq
<1>2. NoResolving \in Resolving /\ NoResolving.upTo = 0 /\ NoResolving.of = NoIdentity
  BY ProfilesAssumption DEF NoResolving, Resolving
<1>3. ProfilesTypeOK
  BY <1>1, <1>2, KnownFacts DEF ProfilesInit, ProfilesTypeOK
<1>4. Len(registered) <= MaxCustom
  <2>1. registered = <<>> /\ MaxCustom \in Nat
    BY ProfilesAssumption DEF ProfilesInit
  <2>2. Len(registered) = 0
    BY <1>1, <2>1
  <2> QED BY <2>1, <2>2
<1>5. RegistryInOrder
  BY DEF ProfilesInit, RegistryInOrder
<1>6. HeldAsResolved
  <2>1. \A h \in Handler : resolving[h].upTo = 0 /\ resolving[h].of = NoIdentity
    BY <1>2 DEF ProfilesInit
  <2>2. Len(registered) = 0
    BY <1>1 DEF ProfilesInit
  <2> QED BY <2>1, <2>2 DEF HeldAsResolved
<1> QED BY <1>3, <1>4, <1>5, <1>6 DEF ProfilesIInv

\* A registration: the list is in the order of the longer history, and what a handler
\* resolved of the shorter one is as it was.
LEMMA RegisterIInv ==
  ASSUME ProfilesIInv, NEW p \in Custom, NEW prepend \in BOOLEAN, RegisterProfile(p, prepend)
  PROVE  ProfilesIInv'
<1> DEFINE r == [profile |-> p, prepend |-> prepend]
<1>1. r \in Registration /\ r.profile = p /\ (r.prepend <=> prepend) /\ p \in Known
  BY KnownFacts DEF Registration
<1>2. registered \in Seq(Registration) /\ Len(registered) \in Nat
  BY LenProperties DEF ProfilesIInv, ProfilesTypeOK
<1>3. registered' = Append(registered, r) /\ Len(registered) < MaxCustom
  BY DEF RegisterProfile
<1> HIDE DEF r
<1>4. registered' \in Seq(Registration) /\ Len(registered') = Len(registered) + 1
  BY <1>1, <1>2, <1>3, AppendProperties
<1>5. Body(registered) \in Seq(Known)
  BY <1>2, EnteredKnown
<1>6. Body(registered') = Placed(p, prepend, Body(registered))
  <2>1. Body(registered') = IF r.prepend THEN <<r.profile>> \o Body(registered)
                                         ELSE Append(Body(registered), r.profile)
    BY <1>1, <1>2, <1>3, BodyAppend
  <2> QED BY <1>1, <2>1 DEF Placed
<1>7. profiles' \in Seq(Known) /\ InOrder(profiles', Body(registered'))
  <2> DEFINE b == Body(registered)
  <2>1. InOrder(Ready, b)
    BY ReadyInOrder
  <2> HIDE DEF b
  <2>2. /\ Inserted(Ready, p, prepend) \in Seq(Known)
        /\ InOrder(Inserted(Ready, p, prepend), Placed(p, prepend, b))
    BY <1>1, <1>5, <2>1, InsertedInOrder DEF b
  <2>3. profiles' = Inserted(Ready, p, prepend)
    BY DEF RegisterProfile
  <2> QED BY <1>6, <2>2, <2>3 DEF b
<1>8. loaded' = TRUE /\ UNCHANGED <<identity, known, held, resolving>>
  BY DEF RegisterProfile
<1>9. ProfilesTypeOK'
  BY <1>4, <1>7, <1>8 DEF ProfilesIInv, ProfilesTypeOK
<1>10. RegistryInOrder'
  BY <1>7, <1>8 DEF RegistryInOrder
<1>11. HeldAsResolved'
  <2> SUFFICES ASSUME NEW h \in Handler
               PROVE  /\ resolving[h].upTo <= Len(registered')
                      /\ Regular(registered') /\ resolving[h].of # NoIdentity
                         /\ resolving[h].pc # "resolve" =>
                           held[h] = Resolve(Promised(SubSeq(registered', 1, resolving[h].upTo)),
                                             resolving[h].of)
    BY <1>8 DEF HeldAsResolved
  <2>1. resolving[h].upTo \in Nat
    <3>1. resolving[h] \in Resolving
      BY DEF ProfilesIInv, ProfilesTypeOK
    <3>2. resolving[h].upTo \in 0..MaxCustom
      BY <3>1 DEF Resolving
    <3> QED BY <3>2, ProfilesAssumption
  <2>2. resolving[h].upTo <= Len(registered)
    BY DEF ProfilesIInv, HeldAsResolved
  <2>3. SubSeq(registered', 1, resolving[h].upTo) = SubSeq(registered, 1, resolving[h].upTo)
    <3>1. resolving[h].upTo \in 0..Len(registered)
      BY <1>2, <2>1, <2>2
    <3> QED BY <1>1, <1>2, <1>3, <3>1, PrefixKept
  <2>4. Regular(registered') => Regular(registered)
    BY <1>1, <1>2, <1>3, RegularBefore
  <2>5. resolving[h].upTo <= Len(registered')
    BY <1>2, <1>4, <2>1, <2>2
  <2> QED BY <2>3, <2>4, <2>5 DEF ProfilesIInv, HeldAsResolved
<1> QED BY <1>2, <1>3, <1>4, <1>9, <1>10, <1>11, ProfilesAssumption DEF ProfilesIInv

\* A handler resolves: what it holds is the first match in the promised order.
LEMMA HoldIInv ==
  ASSUME ProfilesIInv, NEW h \in Handler, NEW i \in Sold \cup {NoIdentity}, Hold(h, i)
  PROVE  ProfilesIInv'
<1>1. Ready \in Seq(Known) /\ InOrder(Ready, Body(registered))
  BY ReadyInOrder
<1>2. registered \in Seq(Registration) /\ Len(registered) \in 0..MaxCustom
  <2>1. registered \in Seq(Registration) /\ Len(registered) <= MaxCustom
    BY DEF ProfilesIInv, ProfilesTypeOK
  <2>2. Len(registered) \in Nat
    BY <2>1, LenProperties
  <2> QED BY <2>1, <2>2, ProfilesAssumption
<1> DEFINE k == [pc |-> "note", of |-> i, upTo |-> Len(registered)]
<1>3. k \in Resolving /\ k.pc = "note" /\ k.of = i /\ k.upTo = Len(registered)
  BY <1>2 DEF Resolving
<1>4. /\ profiles' = Ready /\ loaded' = TRUE /\ held' = [held EXCEPT ![h] = Resolve(Ready, i)]
      /\ resolving' = [resolving EXCEPT ![h] = k]
      /\ UNCHANGED <<identity, known, registered>>
  BY DEF Hold
<1> HIDE DEF k
<1>5. Resolve(Ready, i) \in Known
  BY <1>1, ResolveType
<1>6. ProfilesTypeOK'
  BY <1>1, <1>3, <1>4, <1>5 DEF ProfilesIInv, ProfilesTypeOK
<1>7. RegistryInOrder'
  BY <1>1, <1>4 DEF RegistryInOrder
<1>8. HeldAsResolved'
  <2>1. /\ held \in [Handler -> Known] /\ resolving \in [Handler -> Resolving]
    BY DEF ProfilesIInv, ProfilesTypeOK
  <2>2. Regular(registered) =>
          Resolve(Ready, i) = Resolve(Promised(SubSeq(registered, 1, Len(registered))), i)
    <3>1. SubSeq(registered, 1, Len(registered)) = registered
      BY <1>2, SubSeqFull
    <3> QED BY <3>1, ReadyInOrder
  <2>3. held'[h] = Resolve(Ready, i) /\ resolving'[h] = k
    BY <1>4, <2>1
  <2>4. \A g \in Handler \ {h} : held'[g] = held[g] /\ resolving'[g] = resolving[g]
    BY <1>4, <2>1
  <2>5. Len(registered) <= Len(registered)
    BY <1>2
  <2> SUFFICES ASSUME NEW g \in Handler
               PROVE  /\ resolving'[g].upTo <= Len(registered)
                      /\ Regular(registered) /\ resolving'[g].of # NoIdentity
                         /\ resolving'[g].pc # "resolve" =>
                           held'[g] = Resolve(Promised(SubSeq(registered, 1, resolving'[g].upTo)),
                                              resolving'[g].of)
    BY <1>4 DEF HeldAsResolved
  <2>6. CASE g = h
    BY <1>3, <2>2, <2>3, <2>5, <2>6
  <2>7. CASE g # h
    BY <2>4, <2>7 DEF ProfilesIInv, HeldAsResolved
  <2> QED BY <2>6, <2>7
<1> QED BY <1>4, <1>6, <1>7, <1>8 DEF ProfilesIInv

\* A step that leaves the registry and what is held alone.
LEMMA ResolvingFrame ==
  ASSUME ProfilesIInv, UNCHANGED <<profiles, loaded, held, registered>>, ProfilesTypeOK',
         \A h \in Handler : /\ resolving'[h].upTo = resolving[h].upTo
                            /\ \/ resolving'[h].pc = "resolve"
                               \/ /\ resolving'[h].of = resolving[h].of
                                  /\ resolving[h].pc # "resolve"
                               \/ resolving'[h] = resolving[h]
  PROVE  ProfilesIInv'
<1>1. RegistryInOrder'
  BY DEF ProfilesIInv, RegistryInOrder
<1>2. HeldAsResolved'
  <2> SUFFICES ASSUME NEW h \in Handler
               PROVE  /\ resolving'[h].upTo <= Len(registered)
                      /\ Regular(registered) /\ resolving'[h].of # NoIdentity
                         /\ resolving'[h].pc # "resolve" =>
                           held[h] = Resolve(Promised(SubSeq(registered, 1, resolving'[h].upTo)),
                                             resolving'[h].of)
    BY DEF HeldAsResolved
  <2> QED BY DEF ProfilesIInv, HeldAsResolved
<1> QED BY <1>1, <1>2 DEF ProfilesIInv

LEMMA ProfilesNextIInv == ProfilesIInv /\ [ProfilesNext]_profileVars => ProfilesIInv'
<1> SUFFICES ASSUME ProfilesIInv, [ProfilesNext]_profileVars PROVE ProfilesIInv'
  OBVIOUS
<1>t. /\ held \in [Handler -> Known] /\ resolving \in [Handler -> Resolving]
      /\ identity \in Sold
      /\ known \in [of : Sold \cup {NoIdentity}, profile : {p.id : p \in Known} \cup {""}]
  BY DEF ProfilesIInv, ProfilesTypeOK
<1>1. ASSUME NEW p \in Custom, NEW prepend \in BOOLEAN, RegisterProfile(p, prepend)
      PROVE  ProfilesIInv'
  BY <1>1, RegisterIInv
<1>2. ASSUME NEW h \in Handler, NewHandler(h) PROVE ProfilesIInv'
  <2>1. NoResolving \in Resolving /\ NoResolving.upTo = 0 /\ NoResolving.of = NoIdentity
    BY ProfilesAssumption DEF NoResolving, Resolving
  <2>2. /\ held' = [held EXCEPT ![h] = Generic] /\ resolving' = [resolving EXCEPT ![h] = NoResolving]
        /\ UNCHANGED <<profiles, loaded, identity, known, registered>>
    BY <1>2 DEF NewHandler
  <2>3. ProfilesTypeOK'
    BY <2>1, <2>2, KnownFacts DEF ProfilesIInv, ProfilesTypeOK
  <2>4. RegistryInOrder'
    BY <2>2 DEF ProfilesIInv, RegistryInOrder
  <2>5. Len(registered) \in Nat
    BY LenProperties DEF ProfilesIInv, ProfilesTypeOK
  <2>6. HeldAsResolved'
    <3>1. resolving'[h] = NoResolving
      BY <1>t, <2>2
    <3>2. \A g \in Handler \ {h} : held'[g] = held[g] /\ resolving'[g] = resolving[g]
      BY <1>t, <2>2
    <3> SUFFICES ASSUME NEW g \in Handler
                 PROVE  /\ resolving'[g].upTo <= Len(registered)
                        /\ Regular(registered) /\ resolving'[g].of # NoIdentity
                           /\ resolving'[g].pc # "resolve" =>
                             held'[g] = Resolve(Promised(SubSeq(registered, 1, resolving'[g].upTo)),
                                                resolving'[g].of)
      BY <2>2 DEF HeldAsResolved
    <3>3. CASE g = h
      BY <2>1, <2>5, <3>1, <3>3
    <3>4. CASE g # h
      BY <3>2, <3>4 DEF ProfilesIInv, HeldAsResolved
    <3> QED BY <3>3, <3>4
  <2> QED BY <2>2, <2>3, <2>4, <2>6 DEF ProfilesIInv
<1>3. ASSUME NEW h \in Handler, BootHash(h) PROVE ProfilesIInv'
  <2>1. /\ known' = [known EXCEPT !.of = identity]
        /\ resolving' = [resolving EXCEPT ![h].pc = "resolve", ![h].of = identity]
        /\ UNCHANGED <<profiles, loaded, identity, held, registered>>
    BY <1>3 DEF BootHash
  <2>2. known' \in [of : Sold \cup {NoIdentity}, profile : {p.id : p \in Known} \cup {""}]
    BY <1>t, <2>1
  <2>3. resolving[h] \in Resolving
    BY <1>t
  <2>4. /\ resolving'[h].pc = "resolve" /\ resolving'[h].upTo = resolving[h].upTo
        /\ resolving'[h] \in Resolving
    BY <1>t, <2>1, <2>3 DEF Resolving
  <2>5. /\ \A g \in Handler \ {h} : resolving'[g] = resolving[g]
        /\ resolving' \in [Handler -> Resolving]
    BY <1>t, <2>1, <2>4
  <2>6. ProfilesTypeOK'
    BY <2>1, <2>2, <2>5 DEF ProfilesIInv, ProfilesTypeOK
  <2> QED BY <2>1, <2>4, <2>5, <2>6, ResolvingFrame
<1>4. ASSUME NEW h \in Handler, BootResolve(h) PROVE ProfilesIInv'
  <2>1. resolving[h].of \in Sold \cup {NoIdentity} /\ Hold(h, resolving[h].of)
    BY <1>t, <1>4 DEF BootResolve, Resolving
  <2> QED BY <2>1, HoldIInv
<1>5. ASSUME NEW h \in Handler, BeatResolve(h) PROVE ProfilesIInv'
  <2>1. known.of \in Sold /\ Hold(h, known.of)
    BY <1>t, <1>5 DEF BeatResolve
  <2> QED BY <2>1, HoldIInv
<1>6. ASSUME NEW h \in Handler, NoteProfile(h) PROVE ProfilesIInv'
  <2>1. /\ known' = [known EXCEPT !.profile = held[h].id]
        /\ resolving' = [resolving EXCEPT ![h].pc = "idle"] /\ resolving[h].pc = "note"
        /\ UNCHANGED <<profiles, loaded, identity, held, registered>>
    BY <1>6 DEF NoteProfile
  <2>2. held[h].id \in {p.id : p \in Known}
    BY <1>t
  <2>3. known' \in [of : Sold \cup {NoIdentity}, profile : {p.id : p \in Known} \cup {""}]
    BY <1>t, <2>1, <2>2
  <2>4. resolving[h] \in Resolving
    BY <1>t
  <2>5. /\ resolving'[h].upTo = resolving[h].upTo /\ resolving'[h].of = resolving[h].of
        /\ resolving'[h] \in Resolving
    BY <1>t, <2>1, <2>4 DEF Resolving
  <2>6. /\ \A g \in Handler \ {h} : resolving'[g] = resolving[g]
        /\ resolving' \in [Handler -> Resolving]
    BY <1>t, <2>1, <2>5
  <2>7. ProfilesTypeOK'
    BY <2>1, <2>3, <2>6 DEF ProfilesIInv, ProfilesTypeOK
  <2>8. resolving[h].pc # "resolve"
    BY <2>1
  <2> QED BY <2>1, <2>5, <2>6, <2>7, <2>8, ResolvingFrame
<1>7. CASE FirmwareChanges
  <2>1. identity' \in Sold /\ UNCHANGED <<profiles, loaded, known, held, resolving, registered>>
    BY <1>7 DEF FirmwareChanges
  <2>2. ProfilesTypeOK'
    BY <2>1 DEF ProfilesIInv, ProfilesTypeOK
  <2> QED BY <2>1, <2>2, ResolvingFrame
<1>8. CASE UNCHANGED profileVars
  <2>1. ProfilesTypeOK'
    BY <1>8 DEF profileVars, ProfilesIInv, ProfilesTypeOK
  <2> QED BY <1>8, <2>1, ResolvingFrame DEF profileVars
<1> QED BY <1>1, <1>2, <1>3, <1>4, <1>5, <1>6, <1>7, <1>8 DEF ProfilesNext

LEMMA ProfilesInvariance == ProfilesSpec => []ProfilesIInv
BY ProfilesInitIInv, ProfilesNextIInv, PTL DEF ProfilesSpec

\* What the order says of the whole list, the fallback included.
LEMMA OrderFacts ==
  ASSUME NEW list, NEW regs \in Seq(Registration), InOrder(list, Body(regs))
  PROVE  /\ list[Len(list)] = Generic /\ Len(list) = Len(Promised(regs))
         /\ Specific(list) = Specific(Promised(regs))
<1> DEFINE body == Body(regs)
           last == <<Generic>>
<1>1. body \in Seq(Known)
  BY EnteredKnown
<1>2. /\ last \in Seq(Known) /\ Len(last) = 1 /\ last[1] = Generic /\ Specific(last) = <<>>
  BY GenericFacts
<1>3. Promised(regs) = body \o last
  BY DEF Promised, Body
<1> HIDE DEF body, last
<1>4. PICK front \in Seq(Known) :
        list = front \o last /\ Len(front) = Len(body) /\ Specific(front) = Specific(body)
  BY DEF InOrder, body, last
<1>5. /\ Len(front \o last) = Len(front) + 1 /\ Len(front) \in Nat
      /\ \A k \in 1..(Len(front) + 1) :
           (front \o last)[k] = IF k <= Len(front) THEN front[k] ELSE last[k - Len(front)]
  <2>1. /\ Len(front \o last) = Len(front) + Len(last) /\ Len(front) \in Nat
        /\ \A k \in 1..(Len(front) + Len(last)) :
             (front \o last)[k] = IF k <= Len(front) THEN front[k] ELSE last[k - Len(front)]
    BY <1>2, ConcatProperties, LenProperties
  <2> QED BY <1>2, <2>1
<1>6. Len(body \o last) = Len(body) + 1
  <2>1. Len(body \o last) = Len(body) + Len(last)
    BY <1>1, <1>2, ConcatProperties
  <2> QED BY <1>2, <2>1
<1>7. (front \o last)[Len(front) + 1] = Generic
  <2>1. /\ Len(front) + 1 \in 1..(Len(front) + 1) /\ ~(Len(front) + 1 <= Len(front))
        /\ (Len(front) + 1) - Len(front) = 1
    BY <1>5
  <2> QED BY <1>2, <1>5, <2>1
<1>8. Specific(front \o last) = Specific(front) \o <<>> /\ Specific(body \o last) = Specific(body) \o <<>>
  BY <1>1, <1>2, SplitConcat
<1> QED BY <1>3, <1>4, <1>5, <1>6, <1>7, <1>8

\* The registry keeps the order its registrations promise, the fallback last, and every
\* handler acts on the first profile of it that matched what its charger said
\* (registry.py:119-181, 206-240; handler.py:136-181), for any file, any registrations
\* and any number of handlers.
THEOREM ProfilesInOrder == ProfilesSpec => []ProfilesOrdered
<1>1. ProfilesIInv => ProfilesOrdered
  <2> SUFFICES ASSUME ProfilesIInv PROVE ProfilesOrdered
    OBVIOUS
  <2>1. registered \in Seq(Registration)
    BY DEF ProfilesIInv, ProfilesTypeOK
  <2>2. loaded => InOrder(profiles, Body(registered))
    BY DEF ProfilesIInv, RegistryInOrder
  <2>3. loaded => /\ profiles[Len(profiles)] = Generic
                  /\ Len(profiles) = Len(Promised(registered))
                  /\ Specific(profiles) = Specific(Promised(registered))
    BY <2>1, <2>2, OrderFacts
  <2>4. loaded /\ Regular(registered) => profiles = Promised(registered)
    BY ReadyInOrder DEF Ready
  <2> QED BY <2>3, <2>4 DEF ProfilesIInv, HeldAsResolved, ProfilesOrdered, Regular
<1> QED BY <1>1, ProfilesInvariance, PTL

-----------------------------------------------------------------------------
(* Which of two shipped profiles a charger gets.                           *)

\* Keeping twice is keeping what is in both.
LEMMA KeptTwice ==
  ASSUME NEW T, NEW S, NEW R
  PROVE  \A list \in Seq(T) : Kept(Kept(list, S), R) = Kept(list, S \cap R)
<1> DEFINE U == {list \in Seq(T) : Kept(Kept(list, S), R) = Kept(list, S \cap R)}
<1>1. <<>> \in U
  BY KeptEmpty, EmptySeq
<1>2. ASSUME NEW s \in Seq(T), s \in U, NEW x \in T PROVE Append(s, x) \in U
  <2>1. Append(s, x) \in Seq(T)
    BY AppendProperties
  <2>2. Kept(s, S) \in Seq(T)
    <3>1. Kept(s, S) \in Seq(T \cap S)
      BY KeptType
    <3> QED BY <3>1
  <2>3. /\ Kept(Append(s, x), S) = IF x \in S THEN Append(Kept(s, S), x) ELSE Kept(s, S)
        /\ Kept(Append(s, x), S \cap R)
             = IF x \in S \cap R THEN Append(Kept(s, S \cap R), x) ELSE Kept(s, S \cap R)
        /\ Kept(Append(Kept(s, S), x), R)
             = IF x \in R THEN Append(Kept(Kept(s, S), R), x) ELSE Kept(Kept(s, S), R)
    BY <2>2, KeptAppend
  <2>4. Kept(Kept(s, S), R) = Kept(s, S \cap R)
    BY <1>2
  <2>5. Kept(Kept(Append(s, x), S), R) = Kept(Append(s, x), S \cap R)
    <3>1. CASE x \in S
      <4>1. Kept(Append(s, x), S) = Append(Kept(s, S), x) /\ (x \in S \cap R <=> x \in R)
        BY <2>3, <3>1
      <4>2. CASE x \in R
        BY <2>3, <2>4, <4>1, <4>2
      <4>3. CASE x \notin R
        BY <2>3, <2>4, <4>1, <4>3
      <4> QED BY <4>2, <4>3
    <3>2. CASE x \notin S
      <4>1. Kept(Append(s, x), S) = Kept(s, S) /\ x \notin S \cap R
        BY <2>3, <3>2
      <4> QED BY <2>3, <2>4, <4>1
    <3> QED BY <3>1, <3>2
  <2> QED BY <2>1, <2>5
<1>3. Seq(T) \subseteq U
  <2> HIDE DEF U
  <2> QED BY <1>1, <1>2, SequenceSetInduction
<1> QED BY <1>3

-----------------------------------------------------------------------------
\* The two profiles that match the portable charger, and the lists of profiles in which
\* the one that is not meant for it comes before the other.
Rivals == {Hongjiali120, Hongjiali30}

Shadowing == {list \in Seq(Known) : Kept(list, Rivals) # <<>> => Kept(list, Rivals)[1] = Hongjiali120}

LEMMA RivalFacts ==
  /\ Hongjiali120 # Hongjiali30 /\ Hongjiali30 # Generic /\ MaxpowerCcs2 \notin Rivals
  /\ Rivals \subseteq SpecificKnown /\ MaxpowerCcs2 \in Known
  /\ \A i : Matches(Hongjiali30, i) => Matches(Hongjiali120, i)
<1>1. /\ Hongjiali120.id # Hongjiali30.id /\ Hongjiali30.id # Generic.id
      /\ Hongjiali120.id # Generic.id /\ MaxpowerCcs2.id # Hongjiali120.id
      /\ MaxpowerCcs2.id # Hongjiali30.id
  BY DEF Hongjiali120, Hongjiali30, Generic, MaxpowerCcs2
<1>2. ASSUME NEW i, Matches(Hongjiali30, i) PROVE Matches(Hongjiali120, i)
  BY <1>2 DEF Matches, Hongjiali30, Hongjiali120
<1> QED BY <1>1, <1>2 DEF Rivals, SpecificKnown, Known, IsGeneric

LEMMA ShadowingConcat ==
  ASSUME NEW a \in Shadowing, NEW b \in Shadowing
  PROVE  a \o b \in Shadowing
<1> DEFINE x == Kept(a, Rivals)
           y == Kept(b, Rivals)
<1>1. a \in Seq(Known) /\ b \in Seq(Known) /\ a \o b \in Seq(Known)
  BY ConcatProperties DEF Shadowing
<1>2. Kept(a \o b, Rivals) = x \o y
  BY <1>1, KeptConcat
<1>3. x \in Seq(Known \cap Rivals) /\ y \in Seq(Known \cap Rivals)
  BY <1>1, KeptType
<1>4. (x # <<>> => x[1] = Hongjiali120) /\ (y # <<>> => y[1] = Hongjiali120)
  BY DEF Shadowing
<1> HIDE DEF x, y
<1>5. CASE x = <<>>
  <2>1. x \o y = y
    BY <1>3, <1>5, ConcatEmptySeq
  <2> QED BY <1>1, <1>2, <1>4, <2>1 DEF Shadowing
<1>6. CASE x # <<>>
  <2>1. Len(x) \in Nat /\ Len(x) # 0 /\ Len(y) \in Nat
    BY <1>3, <1>6, EmptySeq, LenProperties
  <2>2. \A k \in 1..(Len(x) + Len(y)) : (x \o y)[k] = IF k <= Len(x) THEN x[k] ELSE y[k - Len(x)]
    BY <1>3, ConcatProperties
  <2>3. 1 \in 1..(Len(x) + Len(y)) /\ 1 <= Len(x)
    BY <2>1
  <2>4. (x \o y)[1] = x[1]
    BY <2>2, <2>3
  <2> QED BY <1>1, <1>2, <1>4, <1>6, <2>4 DEF Shadowing
<1> QED BY <1>5, <1>6

LEMMA ShadowingWithout ==
  ASSUME NEW list \in Seq(Known \ {Hongjiali30})
  PROVE  list \in Shadowing
<1> DEFINE D == Known \ {Hongjiali30}
           x == Kept(list, Rivals)
<1>1. x \in Seq(D \cap Rivals)
  <2> HIDE DEF D
  <2>1. list \in Seq(D)
    BY DEF D
  <2> QED BY <2>1, KeptType
<1>2. D \cap Rivals \subseteq {Hongjiali120} /\ list \in Seq(Known)
  BY DEF Rivals
<1> HIDE DEF x, D
<1>3. ASSUME x # <<>> PROVE x[1] = Hongjiali120
  <2>1. Len(x) \in Nat /\ Len(x) # 0
    BY <1>1, <1>3, EmptySeq, LenProperties
  <2>2. 1 \in 1..Len(x)
    BY <2>1
  <2>3. x[1] \in D \cap Rivals
    BY <1>1, <2>2, ElementOfSeq
  <2> QED BY <1>2, <2>3
<1> QED BY <1>2, <1>3 DEF Shadowing, x

LEMMA ShadowingExamples == Examples \in Shadowing
<1> DEFINE D == Known \ {Hongjiali30}
           a == <<MaxpowerCcs2>>
           b == Append(a, Hongjiali120)
<1>1. CASE NoExamples
  <2>1. Examples \in Seq(D)
    BY <1>1, EmptySeq DEF Examples
  <2> HIDE DEF D
  <2> QED BY <2>1, ShadowingWithout DEF D
<1>2. CASE ~NoExamples
  <2>1. Examples = Append(b, Hongjiali30)
    BY <1>2 DEF Examples
  <2>2. /\ a \in Seq(Known \ Rivals) /\ a \in Seq(Known)
        /\ b \in Seq(Known) /\ Append(b, Hongjiali30) \in Seq(Known)
    <3>1. /\ MaxpowerCcs2 \in Known \ Rivals /\ MaxpowerCcs2 \in Known
          /\ Hongjiali120 \in Known /\ Hongjiali30 \in Known
      BY RivalFacts DEF Known
    <3>2. a \in Seq(Known \ Rivals) /\ a \in Seq(Known)
      BY <3>1
    <3> HIDE DEF a
    <3>3. b \in Seq(Known)
      BY <3>1, <3>2, AppendProperties
    <3> HIDE DEF b
    <3> QED BY <3>1, <3>2, <3>3, AppendProperties
  <2>3. Kept(a, Rivals) = <<>>
    <3> HIDE DEF a
    <3> QED BY <2>2, KeptNone
  <2>4. Hongjiali120 \in Known \cap Rivals /\ Hongjiali30 \in Known \cap Rivals
    BY DEF Known, Rivals
  <2>5. Kept(b, Rivals) = Append(Kept(a, Rivals), Hongjiali120)
    <3> HIDE DEF a
    <3> QED BY <2>2, <2>4, KeptAppend
  <2>6. Kept(Append(b, Hongjiali30), Rivals) = Append(Kept(b, Rivals), Hongjiali30)
    <3> HIDE DEF b
    <3> QED BY <2>2, <2>4, KeptAppend
  <2>7. Kept(Examples, Rivals) = Append(Append(<<>>, Hongjiali120), Hongjiali30)
    BY <2>1, <2>3, <2>5, <2>6
  <2>8. Kept(Examples, Rivals)[1] = Hongjiali120
    BY <2>7
  <2> QED BY <2>1, <2>2, <2>8 DEF Shadowing
<1> QED BY <1>1, <1>2

\* What is promised has the one before the other, unless the deployment brings the other.
LEMMA BodyShadowing ==
  ASSUME Hongjiali30 \notin Custom \cup Range(File), NEW regs \in Seq(Registration)
  PROVE  Body(regs) \in Shadowing
<1> DEFINE D == Known \ {Hongjiali30}
           Q == {r \in Registration : r.profile \in D}
<1>1. Registration = Q
  BY KnownFacts DEF Registration
<1>2. File \in Seq(D)
  <2>1. File \in Seq(Known) /\ Len(File) \in Nat
    BY KnownFacts, LenProperties
  <2>2. \A k \in 1..Len(File) : File[k] \in Known /\ File[k] \in Range(File)
    <3>1. DOMAIN File = 1..Len(File)
      BY <2>1, LenProperties
    <3> QED BY <2>1, <3>1, ElementOfSeq DEF Range
  <2>3. \A k \in 1..Len(File) : File[k] \in D
    BY <2>2
  <2> HIDE DEF D
  <2> QED BY <2>1, <2>3
<1> DEFINE t == Reverse(Entered(regs, TRUE))
           f == Entered(regs, FALSE)
<1>3. t \in Seq(D) /\ f \in Seq(D)
  <2> HIDE DEF D
  <2>1. regs \in Seq({r \in Registration : r.profile \in D})
    BY <1>1
  <2>2. Entered(regs, TRUE) \in Seq(D) /\ Entered(regs, FALSE) \in Seq(D)
    BY <2>1, EnteredType
  <2> QED BY <2>2, ReverseFacts
<1> HIDE DEF t, f
<1>4. t \in Shadowing /\ f \in Shadowing /\ File \in Shadowing /\ Examples \in Shadowing
  BY <1>2, <1>3, ShadowingWithout, ShadowingExamples
<1>5. t \o Examples \in Shadowing
  BY <1>4, ShadowingConcat
<1>6. (t \o Examples) \o File \in Shadowing
  <2> DEFINE g == t \o Examples
  <2>1. g \in Shadowing
    BY <1>5
  <2> HIDE DEF g
  <2>2. g \o File \in Shadowing
    BY <1>4, <2>1, ShadowingConcat
  <2> QED BY <2>2 DEF g
<1>7. ((t \o Examples) \o File) \o f \in Shadowing
  <2> DEFINE g == (t \o Examples) \o File
  <2>1. g \in Shadowing
    BY <1>6
  <2> HIDE DEF g
  <2>2. g \o f \in Shadowing
    BY <1>4, <2>1, ShadowingConcat
  <2> QED BY <2>2 DEF g
<1> QED BY <1>7 DEF Body, t, f

\* The registry keeps that order, as it keeps that of all specific profiles.
LEMMA RegistryShadowing ==
  ASSUME NEW list, NEW body \in Shadowing, InOrder(list, body)
  PROVE  list \in Shadowing
<1> DEFINE last == <<Generic>>
           S == {p \in Known : ~IsGeneric(p)}
<1>1. body \in Seq(Known)
  BY DEF Shadowing
<1>2. last \in Shadowing
  <2>1. Generic \in Known \ {Hongjiali30}
    BY KnownFacts, RivalFacts
  <2>2. last \in Seq(Known \ {Hongjiali30})
    BY <2>1
  <2> HIDE DEF last
  <2> QED BY <2>2, ShadowingWithout
<1> HIDE DEF last
<1>3. PICK front \in Seq(Known) : list = front \o last /\ Specific(front) = Specific(body)
  BY DEF InOrder, last
<1>4. Kept(front, Rivals) = Kept(body, Rivals)
  <2>1. S \cap Rivals = Rivals
    BY RivalFacts DEF SpecificKnown
  <2>2. Specific(front) = Kept(front, S) /\ Specific(body) = Kept(body, S)
    BY DEF Specific
  <2> HIDE DEF S
  <2>3. /\ Kept(Kept(front, S), Rivals) = Kept(front, S \cap Rivals)
        /\ Kept(Kept(body, S), Rivals) = Kept(body, S \cap Rivals)
    BY <1>1, KeptTwice
  <2> QED BY <1>3, <2>1, <2>2, <2>3
<1>5. front \in Shadowing
  BY <1>4 DEF Shadowing
<1> QED BY <1>2, <1>3, <1>5, ShadowingConcat

\* From such a list the other is never resolved, whatever the charger says it is.
LEMMA ResolveShadowed ==
  ASSUME NEW list \in Shadowing, NEW i
  PROVE  Resolve(list, i) # Hongjiali30
<1> DEFINE S == {p \in Known : Matches(p, i)}
           hits == Kept(list, S)
<1>1. Resolve(list, i) = IF hits = <<>> THEN Generic ELSE Head(hits)
  BY DEF Resolve
<1>2. list \in Seq(Known)
  BY DEF Shadowing
<1>3. hits \in Seq(Known \cap S) /\ hits \in Seq(Known)
  <2> HIDE DEF S
  <2>1. hits \in Seq(Known \cap S)
    BY <1>2, KeptType
  <2> HIDE DEF hits
  <2> QED BY <2>1
<1>4. Hongjiali30 \in S => S \cap Rivals = Rivals
  <2>1. Rivals \subseteq Known
    BY DEF Rivals, Known
  <2> QED BY <2>1, RivalFacts DEF Rivals
<1>5. Kept(hits, Rivals) = Kept(list, S \cap Rivals)
  <2> HIDE DEF S
  <2> QED BY <1>2, KeptTwice
<1>6. (hits = <<>> \/ Head(hits) # Hongjiali30) => Resolve(list, i) # Hongjiali30
  BY <1>1, RivalFacts
<1> SUFFICES ASSUME hits # <<>>, Head(hits) = Hongjiali30 PROVE FALSE
  BY <1>6
<1> DEFINE h == <<Hongjiali30>>
           rest == Tail(hits)
<1>7. Hongjiali30 \in S
  <2> HIDE DEF S, hits
  <2>1. Head(hits) \in Known \cap S
    BY <1>3, HeadTailProperties
  <2> QED BY <2>1
<1>8. Kept(hits, Rivals) = Kept(list, Rivals)
  <2> HIDE DEF S, hits
  <2> QED BY <1>4, <1>5, <1>7
<1> HIDE DEF S, hits
<1>9. hits = h \o rest /\ rest \in Seq(Known)
  <2>1. rest \in Seq(Known)
    BY <1>3, HeadTailProperties
  <2>2. hits = <<Head(hits)>> \o Tail(hits)
    BY <1>3
  <2> QED BY <2>1, <2>2
<1>10. Hongjiali30 \in Known \cap Rivals
  BY DEF Known, Rivals
<1>11. h \in Seq(Known) /\ h \in Seq(Known \cap Rivals) /\ Len(h) = 1 /\ h[1] = Hongjiali30
  BY <1>10
<1> HIDE DEF h, rest
<1>12. Kept(hits, Rivals) = h \o Kept(rest, Rivals)
  <2>1. Kept(h, Rivals) = h
    BY <1>11, KeptAll
  <2>2. Kept(h \o rest, Rivals) = Kept(h, Rivals) \o Kept(rest, Rivals)
    BY <1>9, <1>11, KeptConcat
  <2> QED BY <1>9, <2>1, <2>2
<1> DEFINE r == Kept(rest, Rivals)
<1>13. r \in Seq(Known \cap Rivals)
  BY <1>9, KeptType
<1> HIDE DEF r
<1>14. h \o r # <<>> /\ (h \o r)[1] = Hongjiali30
  <2>1. Len(r) \in Nat /\ Len(h \o r) = Len(h) + Len(r)
    BY <1>11, <1>13, ConcatProperties, LenProperties
  <2>2. Len(h \o r) # 0
    BY <1>11, <2>1
  <2>3. h \o r # <<>>
    <3>1. Len(<<>>) = 0
      BY EmptySeq
    <3> QED BY <2>2, <3>1
  <2>4. \A k \in 1..(Len(h) + Len(r)) : (h \o r)[k] = IF k <= Len(h) THEN h[k] ELSE r[k - Len(h)]
    BY <1>11, <1>13, ConcatProperties
  <2>5. 1 \in 1..(Len(h) + Len(r)) /\ 1 <= Len(h)
    BY <1>11, <2>1
  <2>6. (h \o r)[1] = h[1]
    BY <2>4, <2>5
  <2> QED BY <1>11, <2>3, <2>6
<1>15. Kept(list, Rivals) # <<>> /\ Kept(list, Rivals)[1] = Hongjiali30
  BY <1>8, <1>12, <1>14 DEF r
<1> QED BY <1>15, RivalFacts DEF Shadowing

\* The profile shipped for the 30 kW portable charger (examples.py:138) is never acted on,
\* unless the deployment registers or files it itself: the one for the 120 kW charger,
\* which comes first (examples.py:207), matches whatever it matches (registry.py:231).
THEOREM PortableNeverHeld ==
  ASSUME Hongjiali30 \notin Custom \cup Range(File)
  PROVE  ProfilesSpec => [](\A h \in Handler : held[h] # Hongjiali30)
<1> DEFINE Never == \A h \in Handler : held[h] # Hongjiali30
<1>1. ProfilesInit => Never
  BY RivalFacts DEF ProfilesInit
<1>2. ASSUME ProfilesIInv, Never, [ProfilesNext]_profileVars PROVE Never'
  <2>1. held \in [Handler -> Known] /\ registered \in Seq(Registration)
    BY <1>2 DEF ProfilesIInv, ProfilesTypeOK
  <2>2. ASSUME NEW h \in Handler, NEW i, Hold(h, i) PROVE Never'
    <3>1. Body(registered) \in Shadowing
      BY <2>1, BodyShadowing
    <3>2. InOrder(Ready, Body(registered))
      BY <1>2, ReadyInOrder
    <3>3. Ready \in Shadowing
      <4> DEFINE b == Body(registered)
      <4>1. b \in Shadowing /\ InOrder(Ready, b)
        BY <3>1, <3>2
      <4> HIDE DEF b
      <4> QED BY <4>1, RegistryShadowing
    <3>4. Resolve(Ready, i) # Hongjiali30
      BY <3>3, ResolveShadowed
    <3>5. held' = [held EXCEPT ![h] = Resolve(Ready, i)]
      BY <2>2 DEF Hold
    <3> QED BY <1>2, <2>1, <3>4, <3>5
  <2>3. ASSUME NEW h \in Handler, NewHandler(h) PROVE Never'
    BY <1>2, <2>1, <2>3, RivalFacts DEF NewHandler
  <2>4. CASE UNCHANGED held
    BY <1>2, <2>4
  <2> QED BY <1>2, <2>2, <2>3, <2>4 DEF ProfilesNext, RegisterProfile, BootHash, BootResolve,
             BeatResolve, NoteProfile, FirmwareChanges, profileVars
<1> QED BY <1>1, <1>2, ProfilesInvariance, PTL DEF ProfilesSpec

-----------------------------------------------------------------------------
(* The seven together.  A behaviour of the instance is one of each of them, *)
(* as the steps of the others leave its variables alone.                    *)

LEMMA PlatformParts ==
  PlatformSpec => /\ Spec /\ SettingsSpec /\ PricingSpec /\ SetupSpec
                  /\ BackupSpec /\ CodeSpec /\ ProfilesSpec
<1>1. PlatformInit => /\ Init /\ SettingsInit /\ PricingInit /\ SetupInit
                      /\ BackupInit /\ CodeInit /\ ProfilesInit
  BY DEF PlatformInit
<1>2. [PlatformNext]_platform => /\ [Next]_vars /\ [SettingsNext]_settingsVars
                                 /\ [PricingNext]_pricingVars /\ [SetupNext]_setupVars
                                 /\ [BackupNext]_backupVars /\ [CodeNext]_codeVars
                                 /\ [ProfilesNext]_profileVars
  BY DEF PlatformNext, platform, Resting
<1> QED BY <1>1, <1>2, PTL DEF PlatformSpec, Spec, SettingsSpec, PricingSpec, SetupSpec,
           BackupSpec, CodeSpec, ProfilesSpec

\* Whichever of the seven moves, every row, file, entry, key, step and history variable
\* is of its kind (the sources named above).
THEOREM PlatformTypesCorrect == PlatformSpec => []PlatformTypeOK
<1>1. BackupsIInv => BackupTypeOK
  <2> SUFFICES ASSUME BackupsIInv PROVE BackupTypeOK
    OBVIOUS
  <2>1. ASSUME NEW b, IsBase(b) PROVE Base(b)
    BY <2>1 DEF IsBase, Base, Range
  <2> QED BY <2>1 DEF BackupsIInv, BackupShapes, AreDumps, BackupTypeOK
<1> DEFINE I == /\ PkiIInv /\ SettingsIInv /\ PricingIInv /\ SetupIInv
                /\ BackupsIInv /\ CodesIInv /\ ProfilesIInv
<1>2. I => PlatformTypeOK
  BY <1>1 DEF PkiIInv, SettingsIInv, PricingIInv, SetupIInv, CodesIInv, ProfilesIInv,
     PlatformTypeOK
<1> QED BY <1>2, PlatformParts, PkiInvariance, SettingsInvariance, PricingInvariance,
           SetupInvariance, BackupsInvariance, CodesInvariance, ProfilesInvariance, PTL

\* Whichever of the seven moves, what was shown of each of them holds: no step of one
\* reaches what another promises.
THEOREM PlatformIsSound ==
  PlatformSpec => [](/\ PkiSound /\ SettingCacheFresh /\ SpotFresh /\ SetupSound
                     /\ BackupsSound /\ CodesSpent /\ ProfilesOrdered)
BY PlatformParts, CertificatesAreSound, SettingsAreFresh, SpotObeysOperator, SetupIsSound,
   BackupsAreSound, CodesAreSpent, ProfilesInOrder, PTL
=============================================================================
