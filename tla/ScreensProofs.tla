---------------------------- MODULE ScreensProofs ----------------------------
(***************************************************************************)
(* What the screens owe their administrator, for any lists, peers, days,   *)
(* ranges and passes, and without a bound on their number.  A behaviour    *)
(* of Screens is about one of them: a step of it is a step of that screen  *)
(* or leaves it alone (the lemmas ...Moves), and each screen has an        *)
(* invariant of its own.                                                   *)
(***************************************************************************)
EXTENDS Screens, FiniteSetTheorems, WellFoundedInduction, TLAPS

LEMMA ScreensMove ==
  ASSUME [ScreensNext]_screensVars
  PROVE  /\ [PFNext]_pfVars
         /\ [FDNext]_fdVars
         /\ [EFNext]_efVars
         /\ [CDNext]_cdVars
         /\ [SHNext]_shVars
         /\ [SDNext]_sdVars
         /\ [PSNext]_psVars
         /\ [TVNext]_tvVars
         /\ [DBNext]_dbVars
         /\ [SPNext]_shpVars
         /\ [SLNext]_slVars
<1>1. [PFNext]_pfVars BY DEF ScreensNext, screensVars, pfVars
<1>2. [FDNext]_fdVars BY DEF ScreensNext, screensVars, fdVars
<1>3. [EFNext]_efVars BY DEF ScreensNext, screensVars, efVars
<1>4. [CDNext]_cdVars BY DEF ScreensNext, screensVars, cdVars
<1>5. [SHNext]_shVars BY DEF ScreensNext, screensVars, shVars
<1>6. [SDNext]_sdVars BY DEF ScreensNext, screensVars, sdVars
<1>7. [PSNext]_psVars BY DEF ScreensNext, screensVars, psVars, PSNext, serverVars, jobVars, dialogVars
<1>8. [TVNext]_tvVars BY DEF ScreensNext, screensVars, tvVars
<1>9. [DBNext]_dbVars BY DEF ScreensNext, screensVars, dbVars
<1>10. [SLNext]_slVars BY DEF ScreensNext, screensVars, slVars, themeVars, barVars
<1>11. [SPNext]_shpVars BY DEF ScreensNext, screensVars, shpVars
<1> QED BY <1>1, <1>2, <1>3, <1>4, <1>5, <1>6, <1>7, <1>8, <1>9, <1>10, <1>11

-----------------------------------------------------------------------------
(* Sorting (ScreenBase): the place of a position is the number of those      *)
(* before it, so the places are a bijection.                                 *)

LEMMA LengthOfFunction ==
  ASSUME NEW S, NEW n \in Nat, NEW f \in [1 .. n -> S]
  PROVE  f \in Seq(S) /\ Len(f) = n
<1>1. f \in Seq(S) OBVIOUS
<1>2. 1 .. n = 1 .. Len(f) /\ Len(f) \in Nat BY <1>1
<1> QED BY <1>1, <1>2

(* The comparison is that of a key each position has.                          *)
Compares(S, less, key) ==
    S \subseteq Int /\ key \in [S -> Int] /\ \A i, j \in S : <<i, j>> \in less <=> key[i] < key[j]

LEMMA BeforeIsAnOrder ==
  ASSUME NEW S, NEW less, NEW key, Compares(S, less, key)
  PROVE  /\ \A i, j \in S : j \in Before(S, less, i) <=> key[j] < key[i] \/ (key[j] = key[i] /\ j < i)
         /\ \A i \in S : Before(S, less, i) \subseteq S \ {i}
         /\ \A i \in S : \A j \in Before(S, less, i) :
              Before(S, less, j) \subseteq Before(S, less, i) \ {j}
<1>1. \A i \in S : i \in Int /\ key[i] \in Int BY DEF Compares
<1>2. \A i, j \in S : j \in Before(S, less, i) <=> key[j] < key[i] \/ (key[j] = key[i] /\ j < i)
  <2> SUFFICES ASSUME NEW i \in S, NEW j \in S
               PROVE  j \in Before(S, less, i) <=> key[j] < key[i] \/ (key[j] = key[i] /\ j < i)
    OBVIOUS
  <2>1. (<<i, j>> \in less <=> key[i] < key[j]) /\ (<<j, i>> \in less <=> key[j] < key[i])
    BY DEF Compares
  <2> QED BY <1>1, <2>1 DEF Before
<1>3. \A i : Before(S, less, i) \subseteq S BY DEF Before
<1>4. \A i \in S : i \notin Before(S, less, i) BY <1>1, <1>2
<1>5. \A i, j, x \in S :
        j \in Before(S, less, i) /\ x \in Before(S, less, j) => x \in Before(S, less, i)
  BY <1>1, <1>2
<1>6. \A i \in S : \A j \in Before(S, less, i) :
        Before(S, less, j) \subseteq Before(S, less, i) \ {j}
  BY <1>3, <1>4, <1>5
<1> QED BY <1>2, <1>3, <1>4, <1>6

(* How many come before: none are as many for two positions.                   *)
LEMMA BeforeGrows ==
  ASSUME NEW S, IsFiniteSet(S), NEW less, NEW key, Compares(S, less, key)
  PROVE  \A i \in S :
           /\ Cardinality(Before(S, less, i)) \in 0 .. Cardinality(S) - 1
           /\ \A j \in Before(S, less, i) :
                Cardinality(Before(S, less, j)) < Cardinality(Before(S, less, i))
<1> DEFINE B(i) == Before(S, less, i)
<1>1. \A i \in S : B(i) \subseteq S \ {i} BY BeforeIsAnOrder
<1>2. \A i \in S : \A j \in B(i) : B(j) \subseteq B(i) \ {j} BY BeforeIsAnOrder
<1> HIDE DEF B
<1>3. Cardinality(S) \in Nat BY FS_CardinalityType
<1>4. ASSUME NEW i \in S PROVE IsFiniteSet(B(i)) /\ Cardinality(B(i)) \in Nat
  <2>1. B(i) \in SUBSET S BY <1>1
  <2>2. IsFiniteSet(B(i)) BY <2>1, FS_Subset
  <2> QED BY <2>2, FS_CardinalityType
<1>5. ASSUME NEW i \in S PROVE Cardinality(B(i)) <= Cardinality(S) - 1
  <2>1. IsFiniteSet(S \ {i}) /\ Cardinality(S \ {i}) = Cardinality(S) - 1 BY FS_RemoveElement
  <2>2. B(i) \in SUBSET (S \ {i}) BY <1>1
  <2> QED BY <2>1, <2>2, FS_Subset
<1>6. ASSUME NEW i \in S, NEW j \in B(i) PROVE Cardinality(B(j)) < Cardinality(B(i))
  <2>1. j \in S BY <1>1, <1>6
  <2>2. IsFiniteSet(B(i) \ {j}) /\ Cardinality(B(i) \ {j}) = Cardinality(B(i)) - 1
    BY <1>4, <1>6, FS_RemoveElement
  <2>3. B(j) \in SUBSET (B(i) \ {j}) BY <1>2, <1>6
  <2>4. Cardinality(B(j)) <= Cardinality(B(i)) - 1 BY <2>2, <2>3, FS_Subset
  <2>5. Cardinality(B(i)) \in Nat /\ Cardinality(B(j)) \in Nat BY <1>4, <2>1
  <2> QED BY <2>4, <2>5
<1>7. \A i \in S : Cardinality(B(i)) \in 0 .. Cardinality(S) - 1 BY <1>3, <1>4, <1>5
<1> QED BY <1>6, <1>7 DEF B

(* A comparison of keys sorts: every position stands in the result, and the    *)
(* keys do not fall.                                                           *)
LEMMA StableSortSorts ==
  ASSUME NEW S, IsFiniteSet(S), NEW less, NEW key, Compares(S, less, key)
  PROVE  /\ StableSort(S, less) \in [1 .. Cardinality(S) -> S]
         /\ \A i \in S : \E k \in 1 .. Cardinality(S) : StableSort(S, less)[k] = i
         /\ \A k, m \in 1 .. Cardinality(S) :
              k < m => key[StableSort(S, less)[k]] <= key[StableSort(S, less)[m]]
<1> DEFINE n == Cardinality(S)
           B(i) == Before(S, less, i)
           sorted == StableSort(S, less)
           rank == [i \in S |-> Cardinality(B(i)) + 1]
<1>1. n \in Nat BY FS_CardinalityType
<1>2. \A i \in S : Cardinality(B(i)) \in 0 .. n - 1 BY BeforeGrows
<1>3. \A i \in S : \A j \in B(i) : Cardinality(B(j)) < Cardinality(B(i)) BY BeforeGrows
<1>4. \A i \in S : i \in Int /\ key[i] \in Int BY DEF Compares
<1>5. \A i, j \in S : i = j \/ i \in B(j) \/ j \in B(i) BY <1>4, BeforeIsAnOrder
<1>6. \A i, j \in S : j \in B(i) => key[j] <= key[i] BY <1>4, BeforeIsAnOrder
<1>7. sorted = [k \in 1 .. n |-> CHOOSE i \in S : Cardinality(B(i)) = k - 1]
  BY DEF StableSort
<1> HIDE DEF B, n, sorted
<1>8. rank \in Injection(S, 1 .. n)
  <2>1. rank \in [S -> 1 .. n] BY <1>1, <1>2
  <2>2. ASSUME NEW i \in S, NEW j \in S, rank[i] = rank[j] PROVE i = j
    <3>1. Cardinality(B(i)) = Cardinality(B(j)) BY <1>2, <2>2
    <3>2. i \notin B(j) /\ j \notin B(i)
      BY <1>2, <1>3, <3>1
    <3> QED BY <1>5, <3>2
  <2> HIDE DEF rank
  <2>3. \A i, j \in S : rank[i] = rank[j] => i = j BY <2>2
  <2> QED BY <2>1, <2>3 DEF Injection, IsInjective
<1>9. \A k \in 1 .. n : \E i \in S : rank[i] = k
  <2>1. IsFiniteSet(1 .. n) /\ Cardinality(1 .. n) = n BY <1>1, FS_Interval
  <2> HIDE DEF rank
  <2>2. Cardinality(S) = Cardinality(1 .. n) BY <2>1 DEF n
  <2>3. rank \in Surjection(S, 1 .. n) BY <1>8, <2>1, <2>2, FS_Injection
  <2> QED BY <2>3 DEF Surjection
<1>10. ASSUME NEW k \in 1 .. n
       PROVE  sorted[k] \in S /\ Cardinality(B(sorted[k])) = k - 1
  <2>1. PICK i \in S : rank[i] = k BY <1>9
  <2>2. Cardinality(B(i)) = k - 1 BY <1>2, <2>1
  <2>3. sorted[k] = CHOOSE j \in S : Cardinality(B(j)) = k - 1 BY <1>7
  <2> QED BY <2>2, <2>3
<1>11. sorted \in [1 .. n -> S] BY <1>7, <1>10
<1>12. ASSUME NEW i \in S PROVE \E k \in 1 .. n : sorted[k] = i
  <2> DEFINE k == Cardinality(B(i)) + 1
  <2>1. k \in 1 .. n /\ k - 1 = Cardinality(B(i)) BY <1>1, <1>2
  <2>2. sorted[k] \in S /\ Cardinality(B(sorted[k])) = Cardinality(B(i)) BY <1>10, <2>1
  <2>3. Cardinality(B(i)) \in Int BY <1>2
  <2> HIDE DEF k
  <2>4. i \notin B(sorted[k]) /\ sorted[k] \notin B(i) BY <1>3, <2>2, <2>3
  <2>5. sorted[k] = i BY <1>5, <2>2, <2>4
  <2> QED BY <2>1, <2>5
<1>13. ASSUME NEW k \in 1 .. n, NEW m \in 1 .. n, k < m PROVE key[sorted[k]] <= key[sorted[m]]
  <2>1. sorted[k] \in S /\ Cardinality(B(sorted[k])) = k - 1
        /\ sorted[m] \in S /\ Cardinality(B(sorted[m])) = m - 1
    BY <1>10
  <2>2. sorted[m] \notin B(sorted[k]) /\ sorted[m] # sorted[k] BY <1>3, <1>13, <2>1
  <2>3. sorted[k] \in B(sorted[m]) BY <1>5, <2>1, <2>2
  <2> QED BY <1>6, <2>1, <2>3
<1> QED BY <1>11, <1>12, <1>13 DEF sorted, n

-----------------------------------------------------------------------------
(* The page of a share (SharePage)                                         *)

(* A refusal is remembered until a question for the details fails, or is asked  *)
(* by a page that never had them.                                             *)
RefusalKept ==
    /\ shpVerdict = "refused" /\ ~shpFailed
    /\ shpAnswer["details"] # Null \/ shpFetch["details"] = Null
    => shpError["details"] = "refused"

(* The card has a text only while the page is drawn.                           *)
TextOnPage == shpText => ~NotFound(shpError, shpAnswer)

Functions ==
    /\ shpFetch = [q \in Question |-> shpFetch[q]] /\ shpError = [q \in Question |-> shpError[q]]
    /\ shpAnswer = [q \in Question |-> shpAnswer[q]]

ShareInv == Functions /\ RefusalKept /\ TextOnPage

LEMMA InitShare == SPInit => ShareInv
  BY ShareAssumption DEF SPInit, ShareInv, Functions, RefusalKept, TextOnPage, Question

(* An answer is that of one question: the others keep error and fetch.         *)
LEMMA ServeKeeps ==
  ASSUME ShareInv, NEW q \in Question, ServeQuestion(q)
  PROVE  ShareInv'
<1>1. Functions' BY DEF ShareInv, Functions, ServeQuestion
<1>2. RefusalKept'
  BY ShareAssumption DEF ShareInv, Functions, RefusalKept, ServeQuestion, Question
<1>3. TextOnPage' BY DEF ShareInv, TextOnPage, NotFound, ServeQuestion
<1> QED BY <1>1, <1>2, <1>3 DEF ShareInv

LEMMA AnswerKeeps ==
  ASSUME ShareInv, NEW q \in Question, QuestionAnswered(q)
  PROVE  ShareInv'
<1>1. Functions' BY DEF ShareInv, Functions, QuestionAnswered, Drawn
<1>2. TextOnPage' BY DEF TextOnPage, QuestionAnswered, Drawn, NotFound
<1>3. RefusalKept'
  <2>1. CASE q = "details"
    BY <2>1 DEF ShareInv, Functions, RefusalKept, QuestionAnswered, Drawn, Question
  <2>2. CASE q # "details"
    BY <2>2 DEF ShareInv, Functions, RefusalKept, QuestionAnswered, Drawn, Question
  <2> QED BY <2>1, <2>2
<1> QED BY <1>1, <1>2, <1>3 DEF ShareInv

LEMMA FailureKeeps ==
  ASSUME ShareInv, NEW q \in Question, QuestionFailed(q)
  PROVE  ShareInv'
<1>1. Functions' BY DEF ShareInv, Functions, QuestionFailed, Drawn
<1>2. TextOnPage' BY DEF TextOnPage, QuestionFailed, Drawn, NotFound
<1>3. RefusalKept'
  <2>1. CASE q = "details"
    BY <2>1 DEF RefusalKept, QuestionFailed
  <2>2. CASE q # "details"
    BY <2>2 DEF ShareInv, Functions, RefusalKept, QuestionFailed, Drawn, Question
  <2> QED BY <2>1, <2>2
<1> QED BY <1>1, <1>2, <1>3 DEF ShareInv

(* Asking for the details again keeps the refusal of a page that had them.       *)
LEMMA FocusKeeps ==
  ASSUME ShareInv, Focused
  PROVE  ShareInv'
<1>1. PICK stale \in SUBSET {q \in Question : shpFetch[q] = Null} : Asked(stale)
  BY DEF Focused
<1>2. Functions' BY <1>1 DEF ShareInv, Functions, Asked, Drawn
<1>3. TextOnPage' BY <1>1 DEF TextOnPage, Asked, Drawn, NotFound
<1>4. RefusalKept'
  <2>1. CASE "details" \in stale
    <3>1. /\ shpFetch["details"] = Null /\ shpFetch'["details"] = "sent" /\ "sent" # Null
          /\ UNCHANGED <<shpAnswer, shpVerdict, shpFailed>>
          /\ shpAnswer["details"] # Null => shpError'["details"] = shpError["details"]
      BY <1>1, <2>1, ShareAssumption DEF Asked, Drawn, Question
    <3> QED BY <3>1 DEF ShareInv, RefusalKept
  <2>2. CASE "details" \notin stale
    BY <1>1, <2>2 DEF ShareInv, RefusalKept, Asked, Drawn, Question
  <2> QED BY <2>1, <2>2
<1> QED BY <1>2, <1>3, <1>4 DEF ShareInv

LEMMA NextShare == ShareInv /\ [SPNext]_shpVars => ShareInv'
<1> SUFFICES ASSUME ShareInv, [SPNext]_shpVars PROVE ShareInv' OBVIOUS
<1>1. ASSUME NEW q \in Question, ServeQuestion(q) PROVE ShareInv' BY <1>1, ServeKeeps
<1>2. ASSUME NEW q \in Question, QuestionAnswered(q) PROVE ShareInv' BY <1>2, AnswerKeeps
<1>3. ASSUME NEW q \in Question, QuestionFailed(q) PROVE ShareInv' BY <1>3, FailureKeeps
<1>4. CASE Focused BY <1>4, FocusKeeps
<1>5. CASE TelegramRead \/ ShareChanged \/ UNCHANGED shpVars
  BY <1>5 DEF ShareInv, Functions, RefusalKept, TextOnPage, NotFound, TelegramRead, ShareChanged, shpVars
<1> QED BY <1>1, <1>2, <1>3, <1>4, <1>5 DEF SPNext

(* Whatever the user of a share had on the screen, its configuration and QR code *)
(* are off it once the page was told that the peer is not shared, whatever the   *)
(* other questions bring, until a question for the details fails or is on its    *)
(* way for a page that never had them (SharePage's RevokedIsHidden).             *)
THEOREM RevokedIsHiddenHolds == ScreensSpec => []RevokedIsHidden
<1>1. ScreensInit => ShareInv BY InitShare DEF ScreensInit
<1>2. ShareInv /\ [ScreensNext]_screensVars => ShareInv' BY ScreensMove, NextShare
<1>3. ShareInv => RevokedIsHidden
  BY DEF ShareInv, RefusalKept, TextOnPage, RevokedIsHidden, PeerConfigCard, PeerQRCodeCard, NotFound
<1> QED BY <1>1, <1>2, <1>3, PTL DEF ScreensSpec

-----------------------------------------------------------------------------
(* A peer's configuration (ConfigDialog)                                   *)

(* The text that is shown and the answer that a reader has begun are of the  *)
(* peer the dialog is about.                                                *)
TextOfRow ==
    /\ cdText # Null => cdText.of = cdRow
    /\ cdLoading # Null => cdLoading.of = cdRow

LEMMA TextStays ==
  ASSUME TextOfRow, [CDNext]_cdVars
  PROVE  TextOfRow'
<1>1. ASSUME NEW p \in Peer, NEW d \in {"show_config", "download_config"}, MenuEntry(d, p)
      PROVE  TextOfRow'
  <2>1. cdRow' = p /\ cdText' = (IF p # cdRow THEN Null ELSE cdText)
    BY <1>1 DEF MenuEntry, Mounts
  <2>2. cdLoading' = Null \/ cdLoading' = [of |-> p, version |-> cdCache[p]]
    BY <1>1 DEF MenuEntry, WithAnswer
  <2> QED BY <2>1, <2>2 DEF TextOfRow
<1>2. ASSUME NEW p \in Peer, ConfigRead(p) PROVE TextOfRow'
  BY <1>2 DEF TextOfRow, ConfigRead, WithAnswer
<1>3. ASSUME NEW p \in Peer, ConfigFailed(p) \/ ConfigChanges(p) PROVE TextOfRow'
  BY <1>3 DEF TextOfRow, ConfigFailed, ConfigChanges
<1>4. CASE onload \/ ConfigClosed \/ ConfigUnmounted
  BY <1>4 DEF TextOfRow, onload, ConfigClosed, ConfigUnmounted
<1>5. CASE UNCHANGED cdVars BY <1>5 DEF TextOfRow, cdVars
<1> QED BY <1>1, <1>2, <1>3, <1>4, <1>5 DEF CDNext

(* The configuration on the screen is the one of the peer whose menu was used    *)
(* (ConfigDialog's ConfigOfRow), for any peers, however the answers, the readers *)
(* and the timer that unmounts the dialog are ordered.                         *)
THEOREM ConfigOfRowHolds == ScreensSpec => []ConfigOfRow
<1>1. ScreensInit => TextOfRow BY DEF ScreensInit, CDInit, TextOfRow
<1>2. TextOfRow /\ [ScreensNext]_screensVars => TextOfRow' BY ScreensMove, TextStays
<1>3. TextOfRow => ConfigOfRow BY DEF TextOfRow, ConfigOfRow, TextOnScreen
<1> QED BY <1>1, <1>2, <1>3, PTL DEF ScreensSpec

-----------------------------------------------------------------------------
(* The dashboard (DashboardScreen)                                         *)

(* A set of numbers that is not empty has a least one: the default range.       *)
LEMMA DefaultRange == Min(ChartRange) \in ChartRange
<1> DEFINE R == OpToRel(<, Nat)
<1>1. IsWellFoundedOn(R, Nat) BY NatLessThanWellFounded, Zenon
<1> HIDE DEF R
<1>2. PICK least \in ChartRange : \A r \in ChartRange : ~(<<r, least>> \in R)
  BY <1>1, WFMin, ChartAssumption
<1>3. \A m, n \in Nat : m < n => <<m, n>> \in R BY DEF R, OpToRel
<1>4. ASSUME NEW r \in ChartRange PROVE least <= r
  <2>1. least \in Nat /\ r \in Nat /\ ~(<<r, least>> \in R) BY <1>2, ChartAssumption
  <2>2. ~(r < least) BY <2>1, <1>3
  <2> QED BY <2>1, <2>2
<1> QED BY <1>4 DEF Min

(* The answer kept for a range is about that range.                            *)
ChartsInv ==
    /\ dbRange \in ChartRange
    /\ dbCharts \in [ChartRange -> ChartRange \cup {Null}]
    /\ \A r \in ChartRange : dbCharts[r] \in {r, Null}

LEMMA ChartsStay ==
  ASSUME ChartsInv, [DBNext]_dbVars
  PROVE  ChartsInv'
<1>1. CASE setTimeRange BY <1>1 DEF ChartsInv, setTimeRange
<1>2. ASSUME NEW r \in ChartRange, DailyTrafficRead(r) PROVE ChartsInv'
  BY <1>2 DEF ChartsInv, DailyTrafficRead, QueryKey
<1>3. CASE UNCHANGED <<dbRange, dbCharts>> BY <1>3 DEF ChartsInv
<1> QED
  BY <1>1, <1>2, <1>3 DEF DBNext, dbVars, Metered, GetDeviceData, DeviceDataRead, DashboardFocused,
     ResetDialogOpened, ResetDialogDismissed, handleReset, ResetTotalTraffic, ResetAnswer

(* The chart on the dashboard is the one of the range selected                   *)
(* (DashboardScreen's ChartOfRange), for any ranges, in whatever order they are   *)
(* selected and their answers come.                                            *)
THEOREM ChartOfRangeHolds == ScreensSpec => []ChartOfRange
<1>1. ScreensInit => ChartsInv BY DefaultRange DEF ScreensInit, DBInit, ChartsInv
<1>2. ChartsInv /\ [ScreensNext]_screensVars => ChartsInv' BY ScreensMove, ChartsStay
<1>3. ChartsInv => ChartOfRange BY DEF ChartsInv, ChartOfRange, Charted, QueryKey
<1> QED BY <1>1, <1>2, <1>3, PTL DEF ScreensSpec

(* While a request is on its way no other dialog of its kind can be opened: the    *)
(* one that is open sent it.                                                   *)
OpenSentIt ==
    /\ dbOpen \in Nat /\ dbOpens \in Nat
    /\ dbReset # Null => dbReset = [dialog |-> dbReset.dialog, answer |-> dbReset.answer]
    /\ dbReset # Null /\ dbOpen # 0 => dbOpen = dbReset.dialog

LEMMA OpenSentItStays ==
  ASSUME OpenSentIt, [DBNext]_dbVars
  PROVE  OpenSentIt'
<1>1. CASE ResetDialogOpened BY <1>1 DEF OpenSentIt, ResetDialogOpened, Openable
<1>2. CASE ResetDialogDismissed \/ handleReset BY <1>2 DEF OpenSentIt, ResetDialogDismissed, handleReset
<1>3. CASE ResetTotalTraffic BY <1>3 DEF OpenSentIt, ResetTotalTraffic
<1>4. CASE ResetAnswer BY <1>4 DEF OpenSentIt, ResetAnswer
<1>5. CASE UNCHANGED <<dbOpen, dbOpens, dbReset>> BY <1>5 DEF OpenSentIt
<1> QED
  BY <1>1, <1>2, <1>3, <1>4, <1>5 DEF DBNext, dbVars, setTimeRange, DailyTrafficRead, Metered, GetDeviceData,
     DeviceDataRead, DashboardFocused

-----------------------------------------------------------------------------
(* The dialog that brings peers in (SyncDialog)                            *)

(* What is ticked has been listed since the ticks were last cleared, and so has   *)
(* what can be ticked.                                                         *)
TickedWasListed ==
    /\ sdFilter \in Filter /\ sdLists = [f \in Filter |-> sdLists[f]]
    /\ sdSelected \subseteq sdSeen
    /\ sdOpen => Listing(sdFilter) \subseteq sdSeen

LEMMA ShowingKeepsTicks ==
  ASSUME TickedWasListed, NEW open, NEW filter \in Filter, SyncShown(open, filter)
  PROVE  TickedWasListed'
  BY DEF TickedWasListed, SyncShown, Clears, Listing

LEMMA TicksStay ==
  ASSUME TickedWasListed, [SDNext]_sdVars
  PROVE  TickedWasListed'
<1>1. CASE SyncOpened \/ SyncDismissed \/ setSelectedInterface
  BY <1>1, ShowingKeepsTicks DEF SyncOpened, SyncDismissed, setSelectedInterface, TickedWasListed
<1>2. ASSUME NEW f \in Filter, SyncListRead(f) PROVE TickedWasListed'
  BY <1>2 DEF TickedWasListed, SyncListRead, Listing
<1>3. ASSUME NEW p \in RouterPeer, onCheckedChange(p) PROVE TickedWasListed'
  BY <1>3 DEF TickedWasListed, onCheckedChange, Listing
<1>4. CASE handleSubmit \/ SyncAnswered \/ UNCHANGED sdVars
  <2>1. UNCHANGED <<sdFilter, sdLists, sdSelected, sdSeen>> /\ sdOpen' \in {sdOpen, FALSE}
    BY <1>4 DEF handleSubmit, SyncAnswered, sdVars
  <2>2. Listing(sdFilter)' = Listing(sdFilter) BY <2>1 DEF Listing
  <2>3. sdOpen' => sdOpen BY <2>1, Zenon
  <2> QED BY <2>1, <2>2, <2>3 DEF TickedWasListed
<1> QED BY <1>1, <1>2, <1>3, <1>4 DEF SDNext

-----------------------------------------------------------------------------
(* The table (TableView)                                                   *)

TableRow == [id : TableId, status : SUBSET {"active", "inactive", "expired", "available", "not_available"}]

(* The index the reset dialog remembers is the index of the row it was opened      *)
(* for, until that row or one before it is lost.                                *)
AskedIsAt ==
    /\ tvData \in Seq(TableRow)
    /\ tvReset # Null /\ ~tvLost => tvReset.at \in DOMAIN tvData /\ tvData[tvReset.at].id = tvReset.asked

LEMMA DrawKeepsReset ==
  ASSUME NEW data, NEW filter, NEW name, NEW sort, NEW page, Draw(data, filter, name, sort, page)
  PROVE  tvData' = data /\ tvPage' = page /\ tvReset' \in {tvReset, Null}
  BY DEF Draw

(* A list that is read keeps the rows it had at their indices.                  *)
LEMMA ReadingKeepsRows ==
  ASSUME tvData \in Seq(TableRow), ListRead
  PROVE  /\ tvData' \in Seq(TableRow) /\ DOMAIN tvData \subseteq DOMAIN tvData'
         /\ \A at \in DOMAIN tvData : tvData'[at].id = tvData[at].id
<1> DEFINE Kept == /\ tvData' \in Seq(TableRow) /\ DOMAIN tvData \subseteq DOMAIN tvData'
                   /\ \A at \in DOMAIN tvData : tvData'[at].id = tvData[at].id
<1>1. PICK status \in RowStatus(tvKind) :
         \/ \E id \in TableId : tvData' = Append(tvData, [id |-> id, status |-> status])
         \/ \E i \in DOMAIN tvData : tvData' = [tvData EXCEPT ![i].status = status]
  BY DEF ListRead, Draw
<1>2. status \in SUBSET {"active", "inactive", "expired", "available", "not_available"}
  BY DEF RowStatus
<1>3. ASSUME NEW id \in TableId, tvData' = Append(tvData, [id |-> id, status |-> status])
      PROVE  Kept
  <2>1. [id |-> id, status |-> status] \in TableRow BY <1>2 DEF TableRow
  <2> QED BY <1>3, <2>1
<1>4. ASSUME NEW i \in DOMAIN tvData, tvData' = [tvData EXCEPT ![i].status = status]
      PROVE  Kept
  <2>1. tvData[i] \in TableRow OBVIOUS
  <2>2. [tvData[i] EXCEPT !.status = status] \in TableRow
        /\ [tvData[i] EXCEPT !.status = status].id = tvData[i].id
    BY <2>1, <1>2 DEF TableRow
  <2> QED BY <1>4, <2>2
<1> QED BY <1>1, <1>3, <1>4

LEMMA ListKeepsAsked ==
  ASSUME AskedIsAt, ListRead
  PROVE  AskedIsAt'
<1>1. tvReset' \in {tvReset, Null} /\ UNCHANGED tvLost
  BY DrawKeepsReset DEF ListRead
<1>2. tvData \in Seq(TableRow) BY DEF AskedIsAt
<1>3. tvData' \in Seq(TableRow) /\ DOMAIN tvData \subseteq DOMAIN tvData'
      /\ \A at \in DOMAIN tvData : tvData'[at].id = tvData[at].id
  BY <1>2, ReadingKeepsRows
<1> QED BY <1>1, <1>3 DEF AskedIsAt

LEMMA RemovedRow ==
  ASSUME tvData \in Seq(TableRow), NEW i \in DOMAIN tvData
  PROVE  /\ RemoveAt(tvData, i) \in Seq(TableRow)
         /\ \A at \in DOMAIN tvData : at < i =>
              at \in DOMAIN RemoveAt(tvData, i) /\ RemoveAt(tvData, i)[at] = tvData[at]
<1> DEFINE before == SubSeq(tvData, 1, i - 1)
           after == SubSeq(tvData, i + 1, Len(tvData))
<1>1. i \in 1 .. Len(tvData) /\ Len(tvData) \in Nat OBVIOUS
<1>2. /\ before \in Seq(TableRow) /\ Len(before) = i - 1
      /\ \A k \in 1 .. i - 1 : before[k] = tvData[k]
  BY <1>1
<1>3. after \in Seq(TableRow) BY <1>1
<1>4. RemoveAt(tvData, i) = before \o after BY DEF RemoveAt
<1> HIDE DEF before, after
<1>5. before \o after \in Seq(TableRow) BY <1>2, <1>3
<1>6. \A at \in 1 .. i - 1 : at \in DOMAIN (before \o after) /\ (before \o after)[at] = before[at]
  BY <1>1, <1>2, <1>3
<1>7. \A at \in DOMAIN tvData : at < i => at \in 1 .. i - 1 BY <1>1
<1> QED BY <1>2, <1>4, <1>5, <1>6, <1>7

LEMMA LossKeepsAsked ==
  ASSUME AskedIsAt, RowLost
  PROVE  AskedIsAt'
<1>1. PICK i \in DOMAIN tvData :
        /\ Draw(RemoveAt(tvData, i), tvFilter, tvName, tvSort, 0)
        /\ tvLost' = (tvLost \/ (tvReset # Null /\ i <= tvReset.at))
  BY DEF RowLost
<1>2. tvData' = RemoveAt(tvData, i) /\ tvReset' \in {tvReset, Null} BY <1>1, DrawKeepsReset
<1>3. tvData \in Seq(TableRow) BY DEF AskedIsAt
<1>4. /\ tvData' \in Seq(TableRow)
      /\ \A at \in DOMAIN tvData : at < i => at \in DOMAIN tvData' /\ tvData'[at] = tvData[at]
  BY <1>2, <1>3, RemovedRow
<1>5. ASSUME tvReset' # Null, ~tvLost'
      PROVE  tvReset'.at \in DOMAIN tvData' /\ tvData'[tvReset'.at].id = tvReset'.asked
  <2>1. tvReset' = tvReset /\ tvReset # Null BY <1>2, <1>5
  <2>2. ~tvLost /\ ~(i <= tvReset.at) BY <1>1, <1>5, <2>1
  <2>3. tvReset.at \in DOMAIN tvData /\ tvData[tvReset.at].id = tvReset.asked BY <2>1, <2>2 DEF AskedIsAt
  <2>4. tvReset.at < i BY <1>3, <2>2, <2>3
  <2> QED BY <1>4, <2>1, <2>3, <2>4
<1> QED BY <1>4, <1>5 DEF AskedIsAt

LEMMA AskedStays ==
  ASSUME AskedIsAt, [TVNext]_tvVars
  PROVE  AskedIsAt'
<1>1. CASE ListRead BY <1>1, ListKeepsAsked
<1>2. CASE RowLost BY <1>2, LossKeepsAsked
<1>3. CASE setFilterValue \/ resetColumnFilters \/ toggleSorting \/ setPageIndex
  <2>1. tvData' = tvData /\ tvReset' \in {tvReset, Null} /\ UNCHANGED tvLost
    BY <1>3, DrawKeepsReset DEF setFilterValue, resetColumnFilters, toggleSorting, setPageIndex
  <2> QED BY <2>1 DEF AskedIsAt
<1>4. CASE setDialogOpen
  <2>1. PICK at \in DOMAIN tvData : tvReset' = [at |-> at, asked |-> tvData[at].id]
    BY <1>4 DEF setDialogOpen
  <2>2. tvData' = tvData BY <1>4 DEF setDialogOpen, ShownState
  <2> QED BY <2>1, <2>2 DEF AskedIsAt
<1>5. CASE SimpleDialogClosed \/ handleResetUsage \/ ResetAnswered \/ UNCHANGED tvVars
  BY <1>5 DEF AskedIsAt, SimpleDialogClosed, handleResetUsage, ResetAnswered, ShownState, tvVars
<1> QED BY <1>1, <1>2, <1>3, <1>4, <1>5 DEF TVNext

(* Of the table: only its own button sends a reset.                            *)
LEMMA SendsAsked ==
  ASSUME AskedIsAt, [TVNext]_tvVars
  PROVE  [handleResetUsage => tvLost \/ tvSent'.id = tvReset.asked]_tvVars
  BY DEF AskedIsAt, handleResetUsage, RowOf

(* Of the dashboard.                                                           *)
LEMMA ClosesSender ==
  ASSUME OpenSentIt
  PROVE  [ResetAnswer /\ dbOpen # 0 /\ dbOpen' = 0 => dbOpen = dbReset.dialog]_dbVars
  BY DEF OpenSentIt, ResetAnswer

(* A reset resets the peer whose button was clicked, for any table, whatever is     *)
(* read between the click and the confirmation, as long as neither that peer nor    *)
(* one before it in the list is gone; and the answer to a reset of the total closes *)
(* no other dialog than the one that asked (Screens' ResetsAsAsked).                *)
THEOREM ResetsAsAskedHolds == ScreensSpec => ResetsAsAsked
<1> DEFINE Inv == AskedIsAt /\ OpenSentIt
<1>1. ScreensInit => Inv
  BY DEF ScreensInit, TVInit, DBInit, AskedIsAt, OpenSentIt
<1>2. Inv /\ [ScreensNext]_screensVars => Inv' BY ScreensMove, AskedStays, OpenSentItStays
<1>3. Inv /\ [ScreensNext]_screensVars
        => /\ [handleResetUsage => tvLost \/ tvSent'.id = tvReset.asked]_tvVars
           /\ [ResetAnswer /\ dbOpen # 0 /\ dbOpen' = 0 => dbOpen = dbReset.dialog]_dbVars
  BY ScreensMove, SendsAsked, ClosesSender
<1> QED BY <1>1, <1>2, <1>3, PTL DEF ScreensSpec, ResetsAsAsked, ResetsPeerAsked, ResetClosesOwn

(* The first parts that differ decide as the numbers the addresses are.        *)
LEMMA AddressesCompare ==
  ASSUME NEW a \in (0 .. 255) \X (0 .. 255), NEW b \in (0 .. 255) \X (0 .. 255)
  PROVE  sortingFn(a, b) <=> 256 * a[1] + a[2] < 256 * b[1] + b[2]
<1>1. DOMAIN a = {1, 2} /\ a[1] \in 0 .. 255 /\ a[2] \in 0 .. 255
      /\ b[1] \in 0 .. 255 /\ b[2] \in 0 .. 255
  OBVIOUS
<1>2. sortingFn(a, b) <=> a[1] < b[1] \/ (a[2] < b[2] /\ a[1] = b[1])
  <2>1. 1 .. 1 - 1 = {} /\ 1 .. 2 - 1 = {1} OBVIOUS
  <2>2. sortingFn(a, b) <=> \/ a[1] < b[1] /\ \A j \in 1 .. 1 - 1 : a[j] = b[j]
                            \/ a[2] < b[2] /\ \A j \in 1 .. 2 - 1 : a[j] = b[j]
    BY <1>1 DEF sortingFn
  <2> HIDE DEF sortingFn
  <2> QED BY <2>1, <2>2
<1>3. a[1] < b[1] \/ (a[2] < b[2] /\ a[1] = b[1]) <=> 256 * a[1] + a[2] < 256 * b[1] + b[2]
  <2> DEFINE p == a[1]
             q == a[2]
             r == b[1]
             s == b[2]
  <2>1. p \in 0 .. 255 /\ q \in 0 .. 255 /\ r \in 0 .. 255 /\ s \in 0 .. 255 BY <1>1
  <2> HIDE DEF p, q, r, s
  <2>2. p < r \/ (q < s /\ p = r) <=> 256 * p + q < 256 * r + s BY <2>1
  <2> QED BY <2>2 DEF p, q, r, s
<1> QED BY <1>2, <1>3, Zenon

(* A page that is not the first is one the table turned to, and it has rows.   *)
TableInv ==
    /\ tvData \in Seq(TableRow) /\ tvPage \in Nat
    /\ tvPage = 0 \/ tvPage * PageSize < Cardinality(FilteredRows(tvData, tvFilter, tvName))

LEMMA RowsAreSorted ==
  ASSUME tvData \in Seq(TableRow)
  PROVE  LET n == Cardinality(FilteredRows(tvData, tvFilter, tvName)) IN
         /\ n \in Nat
         /\ AllRows \in [1 .. n -> DOMAIN tvData]
         /\ InOrder
<1> DEFINE S == FilteredRows(tvData, tvFilter, tvName)
           n == Cardinality(S)
           address(i) == Address[tvData[i].id]
           less == {p \in {<<i, j>> : i, j \in S} :
                       \/ tvSort = "asc" /\ sortingFn(address(p[1]), address(p[2]))
                       \/ tvSort = "desc" /\ sortingFn(address(p[2]), address(p[1]))}
           key == [i \in S |-> IF tvSort = "asc" THEN Numeric(i) ELSE IF tvSort = "desc" THEN -Numeric(i) ELSE 0]
<1>1. S \subseteq 1 .. Len(tvData) /\ Len(tvData) \in Nat BY DEF FilteredRows
<1>2. IsFiniteSet(S) /\ n \in Nat
  <2>1. IsFiniteSet(1 .. Len(tvData))
    <3>1. 1 \in Int /\ Len(tvData) \in Int BY <1>1
    <3> QED BY <3>1, FS_Interval
  <2>2. S \in SUBSET (1 .. Len(tvData)) BY <1>1
  <2> HIDE DEF S
  <2>3. IsFiniteSet(S) BY <2>1, <2>2, FS_Subset
  <2> QED BY <2>3, FS_CardinalityType
<1>3. AllRows = StableSort(S, less) BY DEF AllRows, SortedRows
<1>4. \A i \in S : address(i) \in (0 .. 255) \X (0 .. 255)
  <2> TAKE i \in S
  <2>1. tvData[i] \in TableRow BY <1>1
  <2>2. tvData[i].id \in 1 .. MaxRows BY <2>1 DEF TableRow, TableId
  <2> QED BY <2>2, TableAssumption
<1>5. \A i \in S : Numeric(i) = 256 * address(i)[1] + address(i)[2] BY DEF Numeric
<1>6. \A i \in S : Numeric(i) \in Int
  <2> TAKE i \in S
  <2>1. \A a \in (0 .. 255) \X (0 .. 255) : a[1] \in Int /\ a[2] \in Int
    <3> TAKE a \in (0 .. 255) \X (0 .. 255)
    <3>1. a[1] \in 0 .. 255 /\ a[2] \in 0 .. 255 OBVIOUS
    <3>2. \A p \in 0 .. 255 : p \in Int OBVIOUS
    <3> QED BY <3>1, <3>2, Zenon
  <2> HIDE DEF address
  <2>2. address(i)[1] \in Int /\ address(i)[2] \in Int BY <2>1, <1>4, Zenon
  <2> QED BY <2>2, <1>5
<1>7. \A i, j \in S : sortingFn(address(i), address(j)) <=> Numeric(i) < Numeric(j)
  <2> HIDE DEF address
  <2> QED BY <1>4, <1>5, AddressesCompare
<1> HIDE DEF S, address
<1>8. \A i, j \in S : <<i, j>> \in less <=> \/ tvSort = "asc" /\ sortingFn(address(i), address(j))
                                            \/ tvSort = "desc" /\ sortingFn(address(j), address(i))
  OBVIOUS
<1> HIDE DEF less
<1>9. Compares(S, less, key)
  <2>1. key \in [S -> Int] BY <1>6
  <2>2. \A i, j \in S : <<i, j>> \in less <=> key[i] < key[j]
    <3>1. CASE tvSort = "asc"
      <4>1. \A i \in S : key[i] = Numeric(i) BY <3>1
      <4> HIDE DEF key
      <4> QED BY <3>1, <4>1, <1>7, <1>8
    <3>2. CASE tvSort = "desc"
      <4>1. \A i \in S : key[i] = -Numeric(i) BY <3>2
      <4>2. \A i, j \in S : key[i] < key[j] <=> Numeric(j) < Numeric(i) BY <4>1, <1>6
      <4> HIDE DEF key
      <4> QED BY <3>2, <4>2, <1>7, <1>8
    <3>3. CASE tvSort \notin {"asc", "desc"}
      <4>1. \A i \in S : key[i] = 0 BY <3>3
      <4>2. \A i, j \in S : <<i, j>> \notin less BY <3>3, <1>8
      <4> HIDE DEF key
      <4>3. \A i, j \in S : ~(key[i] < key[j])
        <5> TAKE i \in S, j \in S
        <5>1. key[i] = 0 /\ key[j] = 0 BY <4>1
        <5> QED BY <5>1
      <4> QED BY <4>2, <4>3, Zenon
    <3> QED BY <3>1, <3>2, <3>3
  <2>3. S \subseteq Int BY <1>1
  <2> HIDE DEF key
  <2> QED BY <2>1, <2>2, <2>3 DEF Compares
<1>10. /\ AllRows \in [1 .. n -> S]
       /\ \A k, m \in 1 .. n : k < m => key[AllRows[k]] <= key[AllRows[m]]
  <2> HIDE DEF key, n
  <2>1. /\ StableSort(S, less) \in [1 .. n -> S]
        /\ \A k, m \in 1 .. n :
             k < m => key[StableSort(S, less)[k]] <= key[StableSort(S, less)[m]]
    BY <1>2, <1>9, StableSortSorts, Zenon DEF n
  <2> QED BY <1>3, <2>1, Zenon
<1>11. InOrder
  <2>1. Len(AllRows) = n BY <1>2, <1>10, LengthOfFunction
  <2> SUFFICES ASSUME NEW k \in 2 .. n
               PROVE  IF tvSort = "asc" THEN Numeric(AllRows[k - 1]) <= Numeric(AllRows[k])
                      ELSE tvSort = "desc" => Numeric(AllRows[k - 1]) >= Numeric(AllRows[k])
    BY <2>1 DEF InOrder
  <2>2. k - 1 \in 1 .. n /\ k \in 1 .. n /\ k - 1 < k BY <1>2
  <2>3. AllRows[k - 1] \in S /\ AllRows[k] \in S /\ key[AllRows[k - 1]] <= key[AllRows[k]]
    BY <1>10, <2>2
  <2> QED BY <1>6, <2>3
<1> QED BY <1>1, <1>2, <1>10, <1>11 DEF S

LEMMA PageIsNotEmpty ==
  ASSUME TableInv
  PROVE  PageHasRows
<1> DEFINE n == Cardinality(FilteredRows(tvData, tvFilter, tvName))
           first == tvPage * PageSize
           last == Min({(tvPage + 1) * PageSize, Len(AllRows)})
<1>1. n \in Nat /\ AllRows \in [1 .. n -> DOMAIN tvData] BY RowsAreSorted DEF TableInv
<1>2. Len(AllRows) = n /\ AllRows \in Seq(DOMAIN tvData) BY <1>1, LengthOfFunction
<1>3. PageSize \in Nat /\ PageSize > 0 /\ tvPage \in Nat BY TableAssumption DEF TableInv
<1>4. first \in Nat /\ (tvPage + 1) * PageSize = first + PageSize BY <1>3
<1>5. first = 0 \/ first < n BY <1>3 DEF TableInv
<1>6. Visible = SubSeq(AllRows, first + 1, last) BY DEF Visible, PageOf
<1>7. last = IF first + PageSize <= n THEN first + PageSize ELSE n
  <2>1. last = Min({first + PageSize, n}) BY <1>2, <1>4
  <2>2. first + PageSize \in Int /\ n \in Int BY <1>1, <1>3, <1>4
  <2> HIDE DEF first, n, last
  <2> QED BY <2>1, <2>2 DEF Min
<1> HIDE DEF first, n, last
<1>8. n > 0 => Visible # <<>>
  <2>1. n > 0 => last \in Nat /\ first + 1 <= last /\ last <= n BY <1>1, <1>3, <1>4, <1>5, <1>7
  <2>2. n > 0 => Len(Visible) > 0 BY <1>1, <1>4, <1>6, <2>1
  <2> QED BY <2>2
<1>9. n = 0 => AllRows = <<>> BY <1>2
<1> QED BY <1>1, <1>8, <1>9 DEF PageHasRows

LEMMA TableStays ==
  ASSUME TableInv, [TVNext]_tvVars
  PROVE  TableInv'
<1>1. tvKind' = tvKind
  BY DEF TVNext, ListRead, RowLost, setFilterValue, resetColumnFilters, toggleSorting, setPageIndex,
         setDialogOpen, SimpleDialogClosed, handleResetUsage, ResetAnswered, ShownState, tvVars
<1>2. CASE ListRead
  <2>1. tvData' \in Seq(TableRow) BY <1>2, ReadingKeepsRows DEF TableInv
  <2>2. tvPage' = 0 BY <1>2, DrawKeepsReset DEF ListRead
  <2> QED BY <2>1, <2>2 DEF TableInv
<1>3. CASE RowLost
  <2>1. PICK i \in DOMAIN tvData : tvData' = RemoveAt(tvData, i) /\ tvPage' = 0
    BY <1>3, DrawKeepsReset DEF RowLost
  <2>2. tvData' \in Seq(TableRow) BY <2>1, RemovedRow DEF TableInv
  <2> QED BY <2>1, <2>2 DEF TableInv
<1>4. CASE setFilterValue \/ resetColumnFilters \/ toggleSorting
  <2>1. tvData' = tvData /\ tvPage' = 0
    BY <1>4, DrawKeepsReset DEF setFilterValue, resetColumnFilters, toggleSorting
  <2> QED BY <2>1 DEF TableInv
<1>5. CASE setPageIndex
  <2>1. PICK page \in 0 .. MaxRows :
          /\ page * PageSize < Cardinality(FilteredRows(tvData, tvFilter, tvName))
          /\ tvData' = tvData /\ tvFilter' = tvFilter /\ tvName' = tvName /\ tvPage' = page
    BY <1>5 DEF setPageIndex, Draw
  <2>2. FilteredRows(tvData, tvFilter, tvName)' = FilteredRows(tvData, tvFilter, tvName)
    BY <1>1, <2>1 DEF FilteredRows, filterFn, Includes
  <2>3. page \in Nat BY <2>1
  <2> QED BY <2>1, <2>2, <2>3 DEF TableInv
<1>6. CASE setDialogOpen \/ SimpleDialogClosed \/ handleResetUsage \/ ResetAnswered \/ UNCHANGED tvVars
  <2>1. UNCHANGED <<tvData, tvFilter, tvName, tvPage>>
    BY <1>6 DEF setDialogOpen, SimpleDialogClosed, handleResetUsage, ResetAnswered, ShownState, tvVars
  <2>2. FilteredRows(tvData, tvFilter, tvName)' = FilteredRows(tvData, tvFilter, tvName)
    BY <1>1, <2>1 DEF FilteredRows, filterFn, Includes
  <2> QED BY <2>1, <2>2 DEF TableInv
<1> QED BY <1>2, <1>3, <1>4, <1>5, <1>6 DEF TVNext

(* Rows stand in the order asked for, addresses as numbers, and a page that is shown has    *)
(* rows as long as any pass the filter (TableView's TableShows): for any number of rows,     *)
(* any addresses, also equal ones, and any page size.                                      *)
THEOREM TableShowsHolds == ScreensSpec => []TableShows
<1>1. ScreensInit => TableInv
  BY DEF ScreensInit, TVInit, TableInv
<1>2. TableInv /\ [ScreensNext]_screensVars => TableInv' BY ScreensMove, TableStays
<1>3. TableInv => TableShows BY RowsAreSorted, PageIsNotEmpty DEF TableInv, TableShows
<1> QED BY <1>1, <1>2, <1>3, PTL DEF ScreensSpec

-----------------------------------------------------------------------------
(* The form of a peer (PeerForm)                                           *)

FormTypeOK ==
    /\ pfInterfaces \in Seq(Iface) \cup {Null}
    /\ pfInterface \in Iface \cup {Null}
    /\ pfQuestions \in Seq([of : Iface, answer : {"due", "here", "failed"}])

(* The last question is about the interface in the form; once it is answered the    *)
(* address in the form is that answer or what was typed since.                   *)
LastQuestionIsCurrent ==
    LET last == Len(pfQuestions) IN
      last > 0 => /\ pfQuestions[last].of = pfInterface
                  /\ pfQuestions[last].answer = "here" => pfAddress \in {pfInterface, "typed"}

FormInv == FormTypeOK /\ LastQuestionIsCurrent

(* Choosing an interface, by hand or by default, keeps the invariant: an interface  *)
(* that was in the form already asks nothing, another one asks.                  *)
LEMMA ChoosingKeepsForm ==
  ASSUME FormInv, NEW i \in Iface \cup {Null}, i = Null => pfInterface = Null, SetInterface(i),
         UNCHANGED pfAddress, pfInterfaces' \in Seq(Iface) \cup {Null}
  PROVE  FormInv'
<1> DEFINE question == [of |-> i, answer |-> "due"]
<1>1. CASE i = pfInterface \/ i = Null
  <2>1. UNCHANGED <<pfInterface, pfQuestions>> BY <1>1 DEF SetInterface
  <2> QED BY <2>1 DEF FormInv, FormTypeOK, LastQuestionIsCurrent
<1>2. CASE i # pfInterface /\ i # Null
  <2>1. pfInterface' = i /\ pfQuestions' = Append(pfQuestions, question)
    BY <1>2 DEF SetInterface
  <2>2. question \in [of : Iface, answer : {"due", "here", "failed"}] BY <1>2
  <2>3. pfQuestions' \in Seq([of : Iface, answer : {"due", "here", "failed"}])
        /\ Len(pfQuestions') > 0 /\ pfQuestions'[Len(pfQuestions')] = question
    BY <2>1, <2>2 DEF FormInv, FormTypeOK
  <2> QED BY <1>2, <2>1, <2>3 DEF FormInv, FormTypeOK, LastQuestionIsCurrent
<1> QED BY <1>1, <1>2

LEMMA ListsKeepForm ==
  ASSUME FormInv, NEW interfaces \in Seq(Iface) \cup {Null}, NEW servers, ListsRead(interfaces, servers)
  PROVE  FormInv'
<1> DEFINE chosen == IF SetsDefaults(interfaces, servers) THEN Head(interfaces) ELSE pfInterface
<1>1. chosen \in Iface \cup {Null} /\ (chosen = Null => pfInterface = Null)
  BY InterfacesAssumption DEF FormInv, FormTypeOK, SetsDefaults
<1>2. SetInterface(chosen) /\ UNCHANGED pfAddress /\ pfInterfaces' = interfaces BY DEF ListsRead
<1> HIDE DEF chosen
<1> QED BY <1>1, <1>2, ChoosingKeepsForm

LEMMA OrdersAreLists == Orders \subseteq Seq(Iface)
  BY DEF Orders, SeqOf

LEMMA AnswerKeepsForm ==
  ASSUME FormInv, NEW q \in DOMAIN pfQuestions, AddressSuggested(q)
  PROVE  FormInv'
<1> DEFINE last == Len(pfQuestions)
<1>1. PICK answer \in {"here", "failed"} :
         /\ pfQuestions' = [pfQuestions EXCEPT ![q].answer = answer]
         /\ pfAddress' = IF answer = "here" /\ CallsBack(q) THEN pfQuestions[q].of ELSE pfAddress
  BY DEF AddressSuggested
<1>2. pfQuestions[q].answer = "due" /\ UNCHANGED <<pfInterfaces, pfInterface>> BY DEF AddressSuggested
<1>3. pfQuestions[q] \in [of : Iface, answer : {"due", "here", "failed"}] /\ last \in Nat /\ q \in 1 .. last
  <2> DEFINE Asking == [of : Iface, answer : {"due", "here", "failed"}]
  <2>1. pfQuestions \in Seq(Asking) BY DEF FormInv, FormTypeOK
  <2> HIDE DEF Asking
  <2>2. pfQuestions[q] \in Asking /\ last \in Nat /\ q \in 1 .. last BY <2>1
  <2> QED BY <2>2 DEF Asking
<1>4. pfQuestions' \in Seq([of : Iface, answer : {"due", "here", "failed"}]) /\ Len(pfQuestions') = last
  BY <1>1, <1>3 DEF FormInv, FormTypeOK
<1>5. pfQuestions'[last].of = pfQuestions[last].of
      /\ (q = last => pfQuestions'[last].answer = answer)
      /\ (q # last => pfQuestions'[last] = pfQuestions[last])
  BY <1>1, <1>3 DEF FormInv, FormTypeOK
<1>6. CASE q = last
  BY <1>1, <1>2, <1>3, <1>4, <1>5, <1>6 DEF FormInv, FormTypeOK, LastQuestionIsCurrent, CallsBack
<1>7. CASE q # last
  BY <1>1, <1>2, <1>3, <1>4, <1>5, <1>7 DEF FormInv, FormTypeOK, LastQuestionIsCurrent, CallsBack
<1> QED BY <1>6, <1>7

LEMMA FormStays ==
  ASSUME FormInv, [PFNext]_pfVars
  PROVE  FormInv'
<1>1. CASE InterfacesRead
  <2>1. PICK list \in Seq(Iface) : ListsRead(list, pfServers) BY <1>1, OrdersAreLists DEF InterfacesRead
  <2> QED BY <2>1, ListsKeepForm
<1>2. CASE ServersRead
  <2>1. PICK some \in BOOLEAN : ListsRead(pfInterfaces, some) BY <1>2 DEF ServersRead
  <2> QED BY <2>1, ListsKeepForm DEF FormInv, FormTypeOK
<1>3. CASE InterfaceSelect
  <2>1. PICK i \in ToSet(pfInterfaces) : SetInterface(i) BY <1>3 DEF InterfaceSelect
  <2>2. i \in Iface /\ i # Null BY <1>3, <2>1, InterfacesAssumption DEF InterfaceSelect, FormInv, FormTypeOK, ToSet
  <2>3. UNCHANGED <<pfAddress, pfInterfaces>> BY <1>3 DEF InterfaceSelect
  <2> QED BY <2>1, <2>2, <2>3, ChoosingKeepsForm DEF FormInv, FormTypeOK
<1>4. ASSUME NEW q \in DOMAIN pfQuestions, AddressSuggested(q) PROVE FormInv' BY <1>4, AnswerKeepsForm
<1>5. CASE AddressTyped BY <1>5 DEF AddressTyped, FormInv, FormTypeOK, LastQuestionIsCurrent
<1>6. CASE KeysGenerated \/ onSubmit \/ Submitted \/ UNCHANGED pfVars
  <2>1. UNCHANGED <<pfInterfaces, pfInterface, pfQuestions, pfAddress>>
    BY <1>6 DEF KeysGenerated, onSubmit, Submitted, pfVars
  <2> QED BY <2>1 DEF FormInv, FormTypeOK, LastQuestionIsCurrent
<1> QED BY <1>1, <1>2, <1>3, <1>4, <1>5, <1>6 DEF PFNext

(* The address in the form is one of the interface in the form, or was typed, once  *)
(* the last question is answered (PeerForm's AddressOfInterface): for any            *)
(* interfaces, any number of questions and any order of their answers.           *)
THEOREM AddressOfInterfaceHolds == ScreensSpec => []AddressOfInterface
<1>1. ScreensInit => FormInv BY DEF ScreensInit, PFInit, FormInv, FormTypeOK, LastQuestionIsCurrent
<1>2. FormInv /\ [ScreensNext]_screensVars => FormInv' BY ScreensMove, FormStays
<1>3. FormInv => AddressOfInterface BY DEF FormInv, LastQuestionIsCurrent, AddressOfInterface
<1> QED BY <1>1, <1>2, <1>3, PTL DEF ScreensSpec

-----------------------------------------------------------------------------
(* What the fields show (PeerForm)                                         *)

FieldsInv ==
    /\ fdRaw \in Amount \cup {Null} /\ fdDay \in Day \cup {Null} /\ fdZone \in -12 .. 14
    /\ fdBand # Other => fdBand = getCombinedValue(fdRaw, fdUnit)
    /\ fdBand = Other => fdRaw = Null
    /\ fdLimit = fdText

LEMMA FieldsStay ==
  ASSUME FieldsInv, [FDNext]_fdVars
  PROVE  FieldsInv'
<1>1. CASE FieldsMounted
  <2>1. PICK value \in [raw : Amount, unit : Unit] \cup {Other, Null} :
           /\ fdBand' = value
           /\ fdRaw' = IF value \in {Other, Null} THEN Null ELSE value.raw
           /\ fdUnit' = IF value \in {Other, Null} THEN "Mb" ELSE value.unit
    BY <1>1 DEF FieldsMounted
  <2>2. fdLimit' = fdText' /\ fdDay' \in Day \cup {Null} /\ fdZone' \in -12 .. 14
    BY <1>1, FieldsAssumption DEF FieldsMounted
  <2>3. CASE value \in {Other, Null}
    BY <2>1, <2>2, <2>3 DEF FieldsInv, getCombinedValue
  <2>4. CASE value \notin {Other, Null}
    <3>1. value = [raw |-> value.raw, unit |-> value.unit] /\ value.raw \in Amount
      BY <2>1, <2>4
    <3> QED BY <2>1, <2>2, <2>4, <3>1, FieldsAssumption DEF FieldsInv, getCombinedValue
  <2> QED BY <2>3, <2>4
<1>2. CASE BandwidthTyped
  BY <1>2 DEF FieldsInv, BandwidthTyped, getCombinedValue, Other
<1>3. CASE BandwidthUnit
  BY <1>3 DEF FieldsInv, BandwidthUnit, UnitSelected, getCombinedValue, Other
<1>4. CASE TrafficInput \/ SimpleDatepicker \/ UNCHANGED fdVars
  BY <1>4 DEF FieldsInv, TrafficInput, SimpleDatepicker, fdVars
<1> QED BY <1>1, <1>2, <1>3, <1>4 DEF FDNext

(* A day begins in Greenwich at an instant of that date, up to fourteen hours east.  *)
LEMMA DayOfZone ==
  ASSUME NEW day \in Int, NEW zone \in 0 .. 14
  PROVE  (24 * day + zone) \div 24 = day
  OBVIOUS

-----------------------------------------------------------------------------
(* The forms of interfaces, servers and pools (EntityForms)                *)

FormRecord == [of : EntityId \cup {Null}, row : Fields, now : Fields]

(* What is written behind an address: nothing or one prefix length, and in the rows  *)
(* of pools and in what is sent exactly one.                                     *)
EntityInv ==
    /\ efRows = [r \in EntityId |-> efRows[r]]
    /\ \A r \in EntityId : efRows[r] # Null => efRows[r] \in Fields
    /\ efForm # Null => efForm \in FormRecord
    /\ efSent # Null => efSent = [of |-> efSent.of, fields |-> efSent.fields, answer |-> efSent.answer,
                                  from |-> efSent.from]
                        /\ efSent.fields \in Fields /\ efSent.of \in EntityId \cup {Null}

OnePrefix ==
    efKind = "pool" =>
      /\ \A r \in EntityId : efRows[r] # Null => efRows[r].start = 1
      /\ efForm # Null => efForm.now.start \in {0, 1, Null}
      /\ efSent # Null => efSent.fields.start = 1

(* An addition that was meant as an edit is the one of a server without a name.      *)
UnnamedInv ==
    /\ efKind = "server" =>
         /\ \A r \in EntityId : efRows[r] # Null /\ efRows[r].name = Blank => efUnnamed
         /\ efForm # Null /\ efForm.of # Null /\ efForm.row.name = Blank => efUnnamed
    /\ efSent # Null /\ efSent.of = Null /\ efSent.from # Null => efUnnamed

EFInv == EntityInv /\ OnePrefix /\ UnnamedInv

ListInv == efList \in {Null, <<1>>, <<1, 2>>}

LEMMA InitEntity == EFInit => EFInv
  BY DEF EFInit, EFInv, EntityInv, OnePrefix, UnnamedInv

LEMMA ShownKeeps ==
  ASSUME NEW row \in Fields
  PROVE  Shown(row) \in Fields /\ Shown(row).start = row.start /\ Shown(row).name = row.name
  BY DEF Shown, Fields

LEMMA OpeningKeepsEntity ==
  ASSUME EFInv, FormOpened
  PROVE  EFInv'
<1>1. UNCHANGED <<efKind, efRows, efSent, efUnnamed>> BY DEF FormOpened
<1>2. CASE efForm' = [of |-> Null, row |-> Empty, now |-> Empty]
  <2>1. efForm' \in FormRecord /\ efForm'.now.start = Null /\ efForm'.of = Null
    BY <1>2 DEF FormRecord, Fields, Empty, Text
  <2> QED BY <1>1, <2>1 DEF EFInv, EntityInv, OnePrefix, UnnamedInv
<1>3. ASSUME NEW r \in EntityId, efRows[r] # Null,
             efForm' = [of |-> r, row |-> Shown(efRows[r]), now |-> Shown(efRows[r])]
      PROVE  EFInv'
  <2>1. efRows[r] \in Fields BY <1>3 DEF EFInv, EntityInv
  <2>2. efForm' \in FormRecord /\ efForm'.now.start = efRows[r].start /\ efForm'.row.name = efRows[r].name
    BY <1>3, <2>1, ShownKeeps DEF FormRecord
  <2> QED BY <1>1, <1>3, <2>2 DEF EFInv, EntityInv, OnePrefix, UnnamedInv
<1> QED BY <1>2, <1>3 DEF FormOpened

(* One field of the form changes.                                                *)
LEMMA FieldKeepsEntity ==
  ASSUME EFInv, efForm # Null, NEW now \in Fields, now.start \in {0, 1, efForm.now.start},
         efForm' = [efForm EXCEPT !.now = now], UNCHANGED <<efKind, efRows, efSent, efUnnamed>>
  PROVE  EFInv'
<1>1. efForm \in FormRecord BY DEF EFInv, EntityInv
<1>2. efForm' \in FormRecord /\ efForm'.now = now /\ efForm'.row = efForm.row /\ efForm'.of = efForm.of
  BY <1>1 DEF FormRecord
<1> QED BY <1>2 DEF EFInv, EntityInv, OnePrefix, UnnamedInv

LEMMA TypingKeepsEntity ==
  ASSUME EFInv, FieldTyped \/ PoolAddressTyped \/ PoolInterfaceSelect, ListInv
  PROVE  EFInv'
<1>1. efForm # Null /\ UNCHANGED <<efKind, efRows, efSent, efUnnamed>>
  BY DEF FieldTyped, PoolAddressTyped, PoolInterfaceSelect
<1>2. efForm \in FormRecord /\ efForm.now \in Fields BY <1>1 DEF EFInv, EntityInv, FormRecord
<1>3. CASE FieldTyped
  <2>1. PICK text \in Text, field \in {"name", "port", "login"} :
            efForm' = [efForm EXCEPT !.now[field] = text]
    BY <1>3 DEF FieldTyped
  <2> DEFINE now == [efForm.now EXCEPT ![field] = text]
  <2>2. now \in Fields /\ now.start = efForm.now.start
    BY <1>2, <2>1 DEF Fields
  <2>3. efForm' = [efForm EXCEPT !.now = now] BY <2>1
  <2> HIDE DEF now
  <2> QED BY <1>1, <2>2, <2>3, FieldKeepsEntity
<1>4. CASE PoolAddressTyped
  <2>1. PICK tail \in {0, 1} : efForm' = [efForm EXCEPT !.now.start = tail]
    BY <1>4 DEF PoolAddressTyped
  <2> DEFINE now == [efForm.now EXCEPT !.start = tail]
  <2>2. now \in Fields /\ now.start = tail BY <1>2, <2>1 DEF Fields
  <2>3. efForm' = [efForm EXCEPT !.now = now] BY <2>1
  <2> HIDE DEF now
  <2> QED BY <1>1, <2>1, <2>2, <2>3, FieldKeepsEntity
<1>5. CASE PoolInterfaceSelect
  <2>1. PICK i \in {1, 2} : efForm' = [efForm EXCEPT !.now.iface = i]
    BY <1>5 DEF PoolInterfaceSelect, ToSet, ListInv
  <2> DEFINE now == [efForm.now EXCEPT !.iface = i]
  <2>2. now \in Fields /\ now.start = efForm.now.start BY <1>2, <2>1 DEF Fields
  <2>3. efForm' = [efForm EXCEPT !.now = now] BY <2>1
  <2> HIDE DEF now
  <2> QED BY <1>1, <2>1, <2>2, <2>3, FieldKeepsEntity
<1> QED BY <1>3, <1>4, <1>5

LEMMA ReadingKeepsEntity ==
  ASSUME EFInv, PoolInterfacesRead
  PROVE  EFInv'
<1>1. efForm # Null /\ efForm \in FormRecord /\ efForm.now \in Fields
  BY DEF PoolInterfacesRead, EFInv, EntityInv, FormRecord
<1>2. CASE efForm' = efForm
  BY <1>2 DEF PoolInterfacesRead, EFInv, EntityInv, OnePrefix, UnnamedInv
<1>3. CASE efForm' = [efForm EXCEPT !.now.iface = Head(efList')]
  <2> DEFINE now == [efForm.now EXCEPT !.iface = Head(efList')]
  <2>1. Head(efList') = 1 BY DEF PoolInterfacesRead
  <2>2. now \in Fields /\ now.start = efForm.now.start BY <1>1, <2>1 DEF Fields
  <2>3. efForm' = [efForm EXCEPT !.now = now] BY <1>3
  <2>4. UNCHANGED <<efKind, efRows, efSent, efUnnamed>> BY DEF PoolInterfacesRead
  <2> HIDE DEF now
  <2> QED BY <1>1, <2>2, <2>3, <2>4, FieldKeepsEntity
<1> QED BY <1>2, <1>3 DEF PoolInterfacesRead

(* What is sent: the fields of the form, with one prefix length when it is a pool's.   *)
LEMMA SubmittingKeepsEntity ==
  ASSUME EFInv, EntitySubmit
  PROVE  EFInv'
<1>1. efForm # Null /\ efForm \in FormRecord /\ efForm.now \in Fields /\ Valid(efForm)
  BY DEF EntitySubmit, EFInv, EntityInv, FormRecord
<1>2. efSent' = [of |-> IF isEdit(efForm) THEN efForm.of ELSE Null, fields |-> Patched(efForm),
                 answer |-> "due", from |-> efForm.of]
  BY DEF EntitySubmit
<1>3. UNCHANGED <<efKind, efRows, efForm, efUnnamed>> BY DEF EntitySubmit
<1>4. Patched(efForm) \in Fields /\ (efKind = "pool" => Patched(efForm).start = 1)
  <2>1. CASE efKind = "pool"
    <3>1. efForm.now.start \in {0, 1}
      <4>1. efForm.now.start # Null BY <1>1, <2>1 DEF Valid
      <4>2. efForm.now.start \in {0, 1, Null} BY <1>1, <2>1 DEF EFInv, OnePrefix
      <4> QED BY <4>1, <4>2
    <3>2. Patched(efForm) = [efForm.now EXCEPT !.start = 1]
      BY <2>1, <3>1 DEF Patched, Masked
    <3> QED BY <1>1, <2>1, <3>2 DEF Fields
  <2>2. CASE efKind # "pool"
    <3>1. Patched(efForm) \in {efForm.now, [efForm.now EXCEPT !.port = Blank]}
      BY <2>2 DEF Patched
    <3>2. [efForm.now EXCEPT !.port = Blank] \in Fields BY <1>1 DEF Fields, Text
    <3> QED BY <1>1, <2>2, <3>1, <3>2
  <2> QED BY <2>1, <2>2
<1>5. /\ efSent'.of \in EntityId \cup {Null}
      /\ efSent'.of = Null /\ efSent'.from # Null => efUnnamed
  BY <1>1, <1>2 DEF isEdit, EFInv, UnnamedInv, FormRecord
<1> QED BY <1>2, <1>3, <1>4, <1>5 DEF EFInv, EntityInv, OnePrefix, UnnamedInv

(* The service changes at most the row the request is about, or a free one.            *)
LEMMA ServingKeepsEntity ==
  ASSUME EFInv, EntityServed
  PROVE  EFInv'
<1>1. efSent # Null /\ efSent.fields \in Fields /\ UNCHANGED <<efKind, efForm>>
  BY DEF EntityServed, EFInv, EntityInv
<1>2. efSent'.fields = efSent.fields /\ efSent'.of = efSent.of /\ efSent'.from = efSent.from
      /\ efSent' = [of |-> efSent'.of, fields |-> efSent'.fields, answer |-> efSent'.answer, from |-> efSent'.from]
  BY <1>1 DEF EntityServed, EFInv, EntityInv
<1>3. CASE UNCHANGED <<efRows, efUnnamed>>
  BY <1>1, <1>2, <1>3 DEF EFInv, EntityInv, OnePrefix, UnnamedInv
<1>4. CASE /\ Accepts(efSent)
           /\ \E at : efRows' = [efRows EXCEPT ![at] = Stored(efSent)]
           /\ efUnnamed' = (efUnnamed \/ (efKind = "server" /\ efSent.fields.name = Blank))
  <2>1. PICK at : efRows' = [efRows EXCEPT ![at] = Stored(efSent)] BY <1>4
  <2>2. Stored(efSent) \in Fields /\ Stored(efSent).start = efSent.fields.start
        /\ Stored(efSent).name = efSent.fields.name
    <3>1. CASE efKind = "pool" /\ efSent.of # Null
      <4>1. efSent.of \in EntityId BY <1>1, <3>1 DEF EFInv, EntityInv
      <4>2. efRows[efSent.of] # Null BY <1>4, <3>1 DEF Accepts
      <4>3. efRows[efSent.of] \in Fields BY <4>1, <4>2 DEF EFInv, EntityInv
      <4> QED BY <1>1, <3>1, <4>3 DEF Stored, Fields
    <3>2. CASE ~(efKind = "pool" /\ efSent.of # Null) BY <1>1, <3>2 DEF Stored
    <3> QED BY <3>1, <3>2
  <2>3. \A r \in EntityId : efRows'[r] = efRows[r] \/ efRows'[r] = Stored(efSent)
    BY <2>1 DEF EFInv, EntityInv
  <2>4. efRows' = [r \in EntityId |-> efRows'[r]]
    BY <2>1 DEF EFInv, EntityInv
  <2>5. efUnnamed => efUnnamed' BY <1>4
  <2> QED BY <1>1, <1>2, <1>4, <2>2, <2>3, <2>4, <2>5 DEF EFInv, EntityInv, OnePrefix, UnnamedInv
<1> QED BY <1>3, <1>4 DEF EntityServed

LEMMA EntityStays ==
  ASSUME EFInv, ListInv, [EFNext]_efVars
  PROVE  EFInv' /\ ListInv'
<1>1. CASE FormOpened BY <1>1, OpeningKeepsEntity DEF ListInv, FormOpened
<1>2. CASE FieldTyped \/ PoolAddressTyped \/ PoolInterfaceSelect
  BY <1>2, TypingKeepsEntity DEF ListInv, FieldTyped, PoolAddressTyped, PoolInterfaceSelect
<1>3. CASE PoolInterfacesRead
  <2>1. ListInv' BY <1>3 DEF PoolInterfacesRead, ListInv
  <2> QED BY <1>3, <2>1, ReadingKeepsEntity
<1>4. CASE EntitySubmit BY <1>4, SubmittingKeepsEntity DEF ListInv, EntitySubmit
<1>5. CASE EntityServed BY <1>5, ServingKeepsEntity DEF ListInv, EntityServed
<1>6. CASE EntityAnswered \/ FormClosed
  <2>1. efForm' \in {efForm, Null} /\ efSent' \in {efSent, Null} /\ UNCHANGED <<efKind, efRows, efList, efUnnamed>>
    BY <1>6 DEF EntityAnswered, FormClosed
  <2> QED BY <2>1 DEF EFInv, EntityInv, OnePrefix, UnnamedInv, ListInv
<1>7. CASE OtherKind
  BY <1>7 DEF OtherKind, EFInv, EntityInv, OnePrefix, UnnamedInv, ListInv
<1>8. CASE UNCHANGED efVars
  BY <1>8 DEF efVars, EFInv, EntityInv, OnePrefix, UnnamedInv, ListInv
<1> QED BY <1>1, <1>2, <1>3, <1>4, <1>5, <1>6, <1>7, <1>8 DEF EFNext

(* Only the service makes rows, and only for what is sent as an addition.               *)
LEMMA RowsAreAdditions ==
  ASSUME EFInv, [EFNext]_efVars, NEW r \in EntityId, efRows[r] = Null, efRows'[r] # Null
  PROVE  efSent.from = Null \/ efUnnamed
<1>1. CASE EntityServed
  <2>1. efSent # Null /\ Accepts(efSent) BY <1>1 DEF EntityServed
  <2>2. CASE efSent.of = Null BY <2>1, <2>2 DEF EFInv, UnnamedInv
  <2>3. CASE efSent.of # Null
    <3>1. efRows' = [efRows EXCEPT ![efSent.of] = Stored(efSent)] BY <1>1, <2>3 DEF EntityServed
    <3>2. efRows[efSent.of] # Null BY <2>1, <2>3 DEF Accepts
    <3> QED BY <3>1, <3>2 DEF EFInv, EntityInv
  <2> QED BY <2>2, <2>3
<1>2. CASE UNCHANGED efRows BY <1>2
<1> QED
  BY <1>1, <1>2 DEF EFNext, efVars, FormOpened, FormClosed, OtherKind, FieldTyped, PoolAddressTyped,
     PoolInterfacesRead, PoolInterfaceSelect, EntitySubmit, EntityAnswered

(* Saving the form of a row never makes a second row, unless a server was saved without  *)
(* a name (EntityForms' EditMakesNoRow): for any number of rows, edits and requests.     *)
THEOREM EditMakesNoRowHolds == ScreensSpec => EditMakesNoRow
<1> DEFINE Inv == EFInv /\ ListInv
<1>1. ScreensInit => Inv BY InitEntity DEF ScreensInit, EFInit, ListInv
<1>2. Inv /\ [ScreensNext]_screensVars => Inv' BY ScreensMove, EntityStays
<1>3. Inv /\ [ScreensNext]_screensVars
        => [\A r \in EntityId :
              efRows[r] = Null /\ efRows'[r] # Null => efSent.from = Null \/ efUnnamed]_efVars
  BY ScreensMove, RowsAreAdditions
<1> QED BY <1>1, <1>2, <1>3, PTL DEF ScreensSpec, EditMakesNoRow

(* A peer's form sends the bandwidth and the limit its fields show, for any amounts, and   *)
(* the date they show, for any days and from Greenwich to fourteen hours east of it; and   *)
(* the addresses a pool's form sends can be read by the service, for any number of pools   *)
(* and edits of them (Screens' FieldsAreSent).  West of Greenwich the date is the day      *)
(* after the one shown; that, and a bandwidth of another form, the theorem leaves out.     *)
THEOREM FieldsAreSentHolds == ScreensSpec => []FieldsAreSent
<1> DEFINE Inv == FieldsInv /\ EFInv /\ ListInv
<1>1. ScreensInit => Inv
  BY InitEntity DEF ScreensInit, EFInit, FDInit, ListInv, FieldsInv, getCombinedValue, Other
<1>2. Inv /\ [ScreensNext]_screensVars => Inv' BY ScreensMove, EntityStays, FieldsStay
<1>3. Inv => FieldsAreSent
  <2> SUFFICES ASSUME Inv PROVE FieldsAreSent OBVIOUS
  <2>1. fdDay # Null /\ fdZone >= 0 => DayShown = fdDay
    BY DayOfZone, FieldsAssumption DEF FieldsInv, DayShown
  <2>2. ShownIsSent BY <2>1 DEF FieldsInv, ShownIsSent
  <2>3. PoolAddressParses BY DEF EFInv, OnePrefix, PoolAddressParses
  <2> QED BY <2>2, <2>3 DEF FieldsAreSent
<1> QED BY <1>1, <1>2, <1>3, PTL DEF ScreensSpec

(* The interface of a peer's form after its default, and of a pool's form while the same   *)
(* list is read.                                                                        *)
LEMMA InterfaceIsChosen ==
  ASSUME [PFNext]_pfVars
  PROVE  [pfDefaults /\ pfInterface' # pfInterface => InterfaceSelect]_pfVars
<1> SUFFICES ASSUME PFNext, pfDefaults, pfInterface' # pfInterface PROVE InterfaceSelect
  BY DEF PFNext
<1>1. ASSUME NEW interfaces, NEW servers, ListsRead(interfaces, servers) PROVE FALSE
  BY <1>1 DEF ListsRead, SetsDefaults, SetInterface
<1>2. ~InterfacesRead /\ ~ServersRead BY <1>1 DEF InterfacesRead, ServersRead
<1> QED
  BY <1>2 DEF PFNext, KeysGenerated, AddressTyped, AddressSuggested, onSubmit, Submitted

LEMMA PoolInterfaceIsChosen ==
  ASSUME EFInv, [EFNext]_efVars
  PROVE  [efForm # Null /\ efForm' # Null /\ efForm'.now.iface # efForm.now.iface
            => PoolInterfaceSelect \/ efList' # efList]_efVars
<1> SUFFICES ASSUME EFNext, efForm # Null, efForm' # Null, efForm'.now.iface # efForm.now.iface
             PROVE  PoolInterfaceSelect \/ efList' # efList
  OBVIOUS
<1>1. efForm \in FormRecord /\ efForm.now \in Fields BY DEF EFInv, EntityInv, FormRecord
<1>2. efForm' # efForm OBVIOUS
<1>3. ASSUME NEW now, efForm' = [efForm EXCEPT !.now = now], now.iface = efForm.now.iface PROVE FALSE
  BY <1>1, <1>3 DEF FormRecord
<1>4. ~PoolAddressTyped
  <2> SUFFICES ASSUME PoolAddressTyped PROVE FALSE OBVIOUS
  <2>1. PICK tail \in {0, 1} : efForm' = [efForm EXCEPT !.now.start = tail] BY DEF PoolAddressTyped
  <2> DEFINE now == [efForm.now EXCEPT !.start = tail]
  <2>2. efForm' = [efForm EXCEPT !.now = now] BY <2>1
  <2>3. now.iface = efForm.now.iface BY <1>1 DEF Fields
  <2> QED BY <1>3, <2>2, <2>3
<1>5. ~FieldTyped
  <2> SUFFICES ASSUME FieldTyped PROVE FALSE OBVIOUS
  <2>1. PICK text \in Text, field \in {"name", "port", "login"} :
            efForm' = [efForm EXCEPT !.now[field] = text]
    BY DEF FieldTyped
  <2> DEFINE now == [efForm.now EXCEPT ![field] = text]
  <2>2. efForm' = [efForm EXCEPT !.now = now] BY <2>1
  <2>3. now.iface = efForm.now.iface BY <1>1, <2>1 DEF Fields
  <2> QED BY <1>3, <2>2, <2>3
<1>6. PoolInterfacesRead => efList' # efList BY <1>2 DEF PoolInterfacesRead, Differs
<1> QED
  BY <1>2, <1>4, <1>5, <1>6 DEF EFNext, FormOpened, FormClosed, OtherKind, EntitySubmit, EntityServed, EntityAnswered

(* The interface chosen in a peer's form stays chosen until it is chosen again, for any    *)
(* lists, however often they are read; the one chosen in a pool's form does as long as the *)
(* list read again is the one the form has (Screens' ChoicesStay).                        *)
THEOREM ChoicesStayHolds == ScreensSpec => ChoicesStay
<1> DEFINE Inv == EFInv /\ ListInv
<1>1. ScreensInit => Inv BY InitEntity DEF ScreensInit, EFInit, ListInv
<1>2. Inv /\ [ScreensNext]_screensVars => Inv' BY ScreensMove, EntityStays
<1>3. Inv /\ [ScreensNext]_screensVars
        => /\ [pfDefaults /\ pfInterface' # pfInterface => InterfaceSelect]_pfVars
           /\ [efForm # Null /\ efForm' # Null /\ efForm'.now.iface # efForm.now.iface
                 => PoolInterfaceSelect \/ efList' # efList]_efVars
  BY ScreensMove, InterfaceIsChosen, PoolInterfaceIsChosen
<1> QED BY <1>1, <1>2, <1>3, PTL DEF ScreensSpec, ChoicesStay, ChoiceStays, PoolChoiceStays

-----------------------------------------------------------------------------
(* The dialog that shares a peer (ShareDialog)                             *)

ShareTypeOK ==
    /\ shServer \in Share
    /\ shData \in Share \cup {Null} /\ shRead \in Share \cup {Null, Sent, Failed}
    /\ shAsked = [s \in ShareSlot |-> shAsked[s]]
    /\ \A s \in ShareSlot : shAsked[s] # Null => shAsked[s] \in ShareRequest

Out(s) == shAsked[s] # Null
Toggle(s) == Out(s) /\ shAsked[s].kind = "status"

(* While nobody leaves the dialog early, what is on its way was sent by the dialog that *)
(* is open, which has an answer to show or is waiting for one.                        *)
DialogWaits ==
    /\ \A s \in ShareSlot : Out(s) => shAsked[s].here /\ shOpen /\ shData # Null
    /\ shOpen /\ shData = Null => shRead # Null

(* One toggle at a time is on its way; the server has changed when it is not due any      *)
(* more, unless it failed.                                                            *)
OneToggle == \A s, t \in ShareSlot : Toggle(s) /\ Toggle(t) => s = t
Carried == \E s \in ShareSlot : Toggle(s) /\ shAsked[s].answer \in {"ok", "lost"}
DueToggles ==
    \A s \in ShareSlot : Toggle(s) /\ shAsked[s].answer = "due" => shServer.shared = ~shAsked[s].start

(* Otherwise the answer that is shown, or is about to be, says whether the peer is shared. *)
AnswerIsFresh ==
    ~Carried => /\ shRead \in Share => shRead.shared = shServer.shared
                /\ shRead = Null /\ shData # Null => shData.shared = shServer.shared

TrustInv == DialogWaits /\ OneToggle /\ DueToggles /\ AnswerIsFresh
ShareDialogInv == ShareTypeOK /\ (shTrusted => TrustInv)

LEMMA InitShareDialog == SHInit => ShareDialogInv
<1> SUFFICES ASSUME SHInit PROVE ShareDialogInv OBVIOUS
<1>1. ShareTypeOK BY DEF SHInit, ShareTypeOK, Share
<1>2. \A s \in ShareSlot : ~Out(s) BY DEF SHInit, Out
<1>3. Null \notin Share BY ShareDialogAssumption
<1> QED
  BY <1>1, <1>2, <1>3 DEF SHInit, ShareDialogInv, TrustInv, DialogWaits, OneToggle, DueToggles, AnswerIsFresh, Toggle

LEMMA SentIsNoShare == Sent \notin Share /\ Failed \notin Share /\ Sent # Failed
                       /\ Sent # Null /\ Failed # Null /\ Null \notin Share
<1>1. Sent \notin Share /\ Failed \notin Share BY DEF Sent, Failed, Share
<1>2. Sent.phase # Failed.phase BY DEF Sent, Failed
<1> QED BY <1>1, <1>2, ShareDialogAssumption

(* As long as no request and nothing on the server changes.                             *)
LEMMA SameRequests ==
  ASSUME UNCHANGED <<shServer, shAsked>>
  PROVE  /\ Carried' <=> Carried
         /\ OneToggle => OneToggle'
         /\ DueToggles => DueToggles'
  BY DEF Carried, OneToggle, DueToggles, Toggle, Out

LEMMA OpenedKeepsShare ==
  ASSUME ShareDialogInv, ShareOpened
  PROVE  ShareDialogInv'
<1>1. shRead' \in {shRead, Sent} /\ shOpen' = TRUE
      /\ (shRead' = Null => shRead = Null /\ shData # Null)
      /\ UNCHANGED <<shServer, shData, shAsked, shTrusted>>
  BY SentIsNoShare DEF ShareOpened
<1>2. ShareTypeOK' BY <1>1 DEF ShareDialogInv, ShareTypeOK
<1>3. TrustInv => DialogWaits' BY <1>1 DEF TrustInv, DialogWaits, Out
<1>4. TrustInv => AnswerIsFresh'
  BY <1>1, SameRequests, SentIsNoShare DEF TrustInv, AnswerIsFresh
<1> QED BY <1>1, <1>2, <1>3, <1>4, SameRequests DEF ShareDialogInv, TrustInv

(* Closing the dialog while it waits is what the property excepts.                       *)
LEMMA ClosedKeepsShare ==
  ASSUME ShareDialogInv, ShareClosed
  PROVE  ShareDialogInv'
<1>1. PICK kept \in BOOLEAN :
         shAsked' = [s \in ShareSlot |->
            IF shAsked[s] = Null THEN Null ELSE [shAsked[s] EXCEPT !.here = @ /\ kept]]
  BY DEF ShareClosed
<1>2. UNCHANGED <<shServer, shData, shRead>> /\ shOpen' = FALSE
      /\ shTrusted' = (shTrusted /\ \A s \in ShareSlot : ~Out(s))
  BY DEF ShareClosed, Out
<1>3. ShareTypeOK'
  <2>1. ASSUME NEW s \in ShareSlot, shAsked[s] \in ShareRequest
        PROVE  [shAsked[s] EXCEPT !.here = @ /\ kept] \in ShareRequest
    BY <2>1 DEF ShareRequest
  <2>2. ASSUME NEW s \in ShareSlot, shAsked'[s] # Null PROVE shAsked'[s] \in ShareRequest
    BY <1>1, <2>1, <2>2 DEF ShareDialogInv, ShareTypeOK
  <2>3. shAsked' = [s \in ShareSlot |-> shAsked'[s]] BY <1>1
  <2> QED BY <1>2, <2>2, <2>3 DEF ShareDialogInv, ShareTypeOK
<1>4. ASSUME shTrusted' PROVE TrustInv'
  <2>1. shTrusted /\ \A s \in ShareSlot : ~Out(s) BY <1>2, <1>4
  <2>2. \A s \in ShareSlot : ~Out(s)' BY <1>1, <2>1 DEF Out
  <2>3. ~Carried /\ ~Carried' BY <2>1, <2>2 DEF Carried, Toggle
  <2>4. AnswerIsFresh' BY <1>2, <2>1, <2>3 DEF ShareDialogInv, TrustInv, AnswerIsFresh
  <2> QED BY <1>2, <2>2, <2>4 DEF TrustInv, DialogWaits, OneToggle, DueToggles, Toggle
<1> QED BY <1>3, <1>4 DEF ShareDialogInv

LEMMA ReadKeepsShare ==
  ASSUME ShareDialogInv, ServeShareRead \/ ShareReadDone
  PROVE  ShareDialogInv'
<1>1. CASE ServeShareRead
  <2> DEFINE answer == [shServer EXCEPT !.expire = IF shServer.shared THEN @ ELSE Null]
  <2>1. answer \in Share /\ answer.shared = shServer.shared
    BY DEF ShareDialogInv, ShareTypeOK, Share
  <2>2. shRead' \in {answer, Failed} BY <1>1 DEF ServeShareRead
  <2> HIDE DEF answer
  <2>3. UNCHANGED <<shServer, shOpen, shData, shAsked, shTrusted>> /\ shRead = Sent BY <1>1 DEF ServeShareRead
  <2>4. ShareTypeOK' BY <2>1, <2>2, <2>3 DEF ShareDialogInv, ShareTypeOK
  <2>5. shRead' # Null BY <2>1, <2>2, SentIsNoShare
  <2>6. AnswerIsFresh' BY <2>1, <2>2, <2>3, <2>5, SentIsNoShare DEF AnswerIsFresh
  <2>7. TrustInv => DialogWaits' BY <2>3, <2>5 DEF TrustInv, DialogWaits, Out
  <2> QED BY <2>3, <2>4, <2>6, <2>7, SameRequests DEF ShareDialogInv, TrustInv
<1>2. CASE ShareReadDone /\ shRead = Failed
  <2>1. shTrusted' = FALSE BY <1>2 DEF ShareReadDone
  <2>2. ShareTypeOK' BY <1>2 DEF ShareReadDone, ShareDialogInv, ShareTypeOK
  <2> QED BY <2>1, <2>2 DEF ShareDialogInv
<1>3. CASE ShareReadDone /\ shRead # Failed
  <2>1. shRead \in Share /\ shData' = shRead /\ shRead' = Null
        /\ UNCHANGED <<shServer, shOpen, shAsked, shTrusted>>
    BY <1>3 DEF ShareReadDone, ShareDialogInv, ShareTypeOK
  <2>2. ShareTypeOK' BY <2>1 DEF ShareDialogInv, ShareTypeOK
  <2>3. TrustInv => DialogWaits' BY <2>1, SentIsNoShare DEF TrustInv, DialogWaits, Out
  <2>4. TrustInv => AnswerIsFresh' BY <2>1, SameRequests, SentIsNoShare DEF TrustInv, AnswerIsFresh
  <2> QED BY <2>1, <2>2, <2>3, <2>4, SameRequests DEF ShareDialogInv, TrustInv
<1> QED BY <1>1, <1>2, <1>3

(* A new request: the calendar's, or the button's, which needs all others to be answered.    *)
LEMMA AskKeepsShare ==
  ASSUME ShareDialogInv, NEW kind \in {"status", "expire"}, NEW day \in ShareDay \cup {Null}, Ask(kind, day),
         shOpen, shRead = Null,
         kind = "status" => \A s \in ShareSlot : ~Waiting(s),
         kind = "expire" => isShared
  PROVE  ShareDialogInv'
<1> DEFINE new == [kind |-> kind, start |-> ~isShared, day |-> day, answer |-> "due", here |-> TRUE]
<1>1. PICK slot \in ShareSlot : shAsked[slot] = Null /\ shAsked' = [shAsked EXCEPT ![slot] = new]
  <2> DEFINE slot == CHOOSE s \in ShareSlot : shAsked[s] = Null
  <2>1. slot \in ShareSlot /\ shAsked[slot] = Null BY DEF Ask
  <2>2. shAsked' = [shAsked EXCEPT ![slot] = new] BY DEF Ask
  <2> QED BY <2>1, <2>2
<1>2. UNCHANGED <<shServer, shOpen, shData, shRead, shTrusted>> BY DEF Ask
<1>3. new \in ShareRequest /\ new.kind = kind /\ new.answer = "due" /\ new.here /\ new.start = ~isShared
  BY DEF ShareRequest
<1>4. isShared = (shData # Null /\ shData.shared) BY DEF isShared
<1> HIDE DEF new
<1>5. shAsked'[slot] = new /\ \A s \in ShareSlot : s # slot => shAsked'[s] = shAsked[s]
  BY <1>1 DEF ShareDialogInv, ShareTypeOK
<1>6. ShareTypeOK'
  <2>1. shAsked' = [s \in ShareSlot |-> shAsked'[s]] BY <1>1 DEF ShareDialogInv, ShareTypeOK
  <2> QED BY <1>2, <1>3, <1>5, <2>1 DEF ShareDialogInv, ShareTypeOK
<1>7. ASSUME shTrusted PROVE TrustInv'
  <2>1. TrustInv BY <1>7 DEF ShareDialogInv
  <2>2. kind = "status" => \A s \in ShareSlot : ~Out(s)
    BY <2>1 DEF TrustInv, DialogWaits, Waiting, Out
  <2>3. DialogWaits' BY <1>2, <1>3, <1>5, <2>1 DEF TrustInv, DialogWaits, Out
  <2>4. OneToggle' BY <1>3, <1>5, <2>1, <2>2 DEF TrustInv, OneToggle, Toggle, Out
  <2>5. Carried' => Carried BY <1>3, <1>5 DEF Carried, Toggle, Out
  <2>6. Carried => Carried'
    <3>1. \A s \in ShareSlot : Out(s) => s # slot BY <1>1 DEF Out
    <3> QED BY <1>5, <3>1 DEF Carried, Toggle, Out
  <2>7. AnswerIsFresh' BY <1>2, <2>1, <2>6 DEF TrustInv, AnswerIsFresh
  <2>8. kind = "status" => shServer.shared = isShared
    <3>1. kind = "status" => ~Carried BY <2>2 DEF Carried, Toggle
    <3>2. shData # Null BY <2>1 DEF TrustInv, DialogWaits
    <3>3. kind = "status" => shData.shared = shServer.shared BY <2>1, <3>1, <3>2 DEF TrustInv, AnswerIsFresh
    <3>4. shData.shared \in BOOLEAN BY <3>2 DEF ShareDialogInv, ShareTypeOK, Share
    <3>5. isShared = shData.shared BY <1>4, <3>2, <3>4
    <3> QED BY <3>3, <3>5
  <2>9. shServer.shared \in BOOLEAN BY DEF ShareDialogInv, ShareTypeOK, Share
  <2>10. DueToggles'
    <3>1. ASSUME NEW s \in ShareSlot, Toggle(s)', shAsked'[s].answer = "due"
          PROVE  shServer'.shared = ~shAsked'[s].start
      <4>1. CASE s = slot
        <5>1. kind = "status" BY <1>3, <1>5, <3>1, <4>1 DEF Toggle
        <5>2. shAsked'[s].start = ~isShared BY <1>3, <1>5, <4>1
        <5>3. shServer'.shared = isShared BY <1>2, <2>8, <5>1
        <5>4. isShared \in BOOLEAN BY DEF isShared
        <5> QED BY <5>2, <5>3, <5>4
      <4>2. CASE s # slot BY <1>2, <1>5, <2>1, <3>1, <4>2 DEF TrustInv, DueToggles, Toggle, Out
      <4> QED BY <4>1, <4>2
    <3> QED BY <3>1 DEF DueToggles
  <2> QED BY <2>3, <2>4, <2>7, <2>10 DEF TrustInv
<1> QED BY <1>2, <1>6, <1>7 DEF ShareDialogInv

(* What a request does: a toggle that is due is the only one, and flips what is shared.       *)
LEMMA ServingKeepsShare ==
  ASSUME ShareDialogInv, NEW s \in ShareSlot, ServeShare(s)
  PROVE  ShareDialogInv'
<1>1. PICK answer \in {"ok", "lost", "failed"} :
         /\ shAsked' = [shAsked EXCEPT ![s].answer = answer]
         /\ \/ answer # "failed" /\ (TogglePeerShareStatus(s) \/ UpdatePeerShareExpireTime(s))
            \/ answer = "failed" /\ UNCHANGED shServer
  BY DEF ServeShare
<1>2. shAsked[s] # Null /\ shAsked[s].answer = "due" /\ UNCHANGED <<shOpen, shData, shRead, shTrusted>>
  BY DEF ServeShare
<1>3. shAsked[s] \in ShareRequest /\ [shAsked[s] EXCEPT !.answer = answer] \in ShareRequest
  BY <1>2 DEF ShareDialogInv, ShareTypeOK, ShareRequest
<1>4. /\ shAsked'[s] = [shAsked[s] EXCEPT !.answer = answer]
      /\ \A t \in ShareSlot : t # s => shAsked'[t] = shAsked[t]
      /\ shAsked' = [t \in ShareSlot |-> shAsked'[t]]
  BY <1>1 DEF ShareDialogInv, ShareTypeOK
<1>5. shAsked'[s].kind = shAsked[s].kind /\ shAsked'[s].answer = answer /\ shAsked'[s].here = shAsked[s].here
      /\ shAsked'[s].start = shAsked[s].start /\ shAsked[s].day \in ShareDay \cup {Null}
  BY <1>3, <1>4 DEF ShareRequest
<1>6. shServer' \in Share /\ (shServer'.shared # shServer.shared
                                => shAsked[s].kind = "status" /\ answer # "failed"
                                   /\ shServer'.shared = ~shServer.shared)
  <2>1. CASE TogglePeerShareStatus(s) /\ answer # "failed"
    BY <2>1 DEF TogglePeerShareStatus, ShareDialogInv, ShareTypeOK, Share
  <2>2. CASE UpdatePeerShareExpireTime(s)
    BY <1>5, <2>2 DEF UpdatePeerShareExpireTime, ShareDialogInv, ShareTypeOK, Share
  <2>3. CASE UNCHANGED shServer BY <2>3 DEF ShareDialogInv, ShareTypeOK
  <2> QED BY <1>1, <2>1, <2>2, <2>3
<1>7. ShareTypeOK' BY <1>2, <1>3, <1>4, <1>6 DEF ShareDialogInv, ShareTypeOK
<1>8. ASSUME shTrusted PROVE TrustInv'
  <2>1. TrustInv BY <1>8 DEF ShareDialogInv
  <2>2. \A t \in ShareSlot : (Toggle(t)' => Toggle(t)) /\ (Out(t)' => Out(t))
    BY <1>2, <1>4, <1>5 DEF Toggle, Out
  <2>3. DialogWaits' BY <1>2, <1>4, <1>5, <2>1, <2>2 DEF TrustInv, DialogWaits, Out
  <2>4. OneToggle' BY <2>1, <2>2 DEF TrustInv, OneToggle
  <2>5. DueToggles'
    <3>1. ASSUME NEW t \in ShareSlot, Toggle(t)', shAsked'[t].answer = "due"
          PROVE  shServer'.shared = ~shAsked'[t].start
      <4>1. t # s BY <1>1, <1>5, <3>1
      <4>2. Toggle(t) /\ shAsked[t] = shAsked'[t] BY <1>4, <2>2, <3>1, <4>1
      <4>3. shAsked[s].kind # "status" BY <1>2, <2>1, <4>1, <4>2 DEF TrustInv, OneToggle, Toggle, Out
      <4>4. shServer'.shared = shServer.shared BY <1>6, <4>3
      <4> QED BY <2>1, <3>1, <4>2, <4>4 DEF TrustInv, DueToggles
    <3> QED BY <3>1 DEF DueToggles
  <2>6. AnswerIsFresh'
    <3>1. CASE shServer'.shared = shServer.shared
      <4>1. ASSUME Carried PROVE Carried'
        <5>1. PICK t \in ShareSlot : Toggle(t) /\ shAsked[t].answer \in {"ok", "lost"} BY <4>1 DEF Carried
        <5>2. t # s BY <1>2, <5>1
        <5> QED BY <1>4, <5>1, <5>2 DEF Carried, Toggle, Out
      <4> QED BY <1>2, <2>1, <3>1, <4>1 DEF TrustInv, AnswerIsFresh
    <3>2. CASE shServer'.shared # shServer.shared
      <4>1. shAsked'[s].kind = "status" /\ shAsked'[s].answer \in {"ok", "lost"}
        BY <1>1, <1>5, <1>6, <3>2
      <4>2. shAsked'[s] # Null BY <1>3, <1>4, ShareDialogAssumption
      <4> QED BY <4>1, <4>2 DEF AnswerIsFresh, Carried, Toggle, Out
    <3> QED BY <3>1, <3>2
  <2> QED BY <2>3, <2>4, <2>5, <2>6 DEF TrustInv
<1> QED BY <1>2, <1>7, <1>8 DEF ShareDialogInv

(* An answer frees its slot; an ok begins a new read, so that no old answer is shown.          *)
LEMMA AnsweredKeepsShare ==
  ASSUME ShareDialogInv, NEW s \in ShareSlot, ShareAnswered(s)
  PROVE  ShareDialogInv'
<1> DEFINE answer == shAsked[s].answer
<1>1. shAsked[s] # Null /\ answer # "due" /\ shAsked' = [shAsked EXCEPT ![s] = Null]
      /\ shRead' = (IF answer = "ok" /\ shOpen /\ (shRead = Null \/ shData # Null) THEN Sent ELSE shRead)
      /\ shTrusted' = (shTrusted /\ answer # "lost")
      /\ UNCHANGED <<shServer, shOpen, shData>>
  BY DEF ShareAnswered
<1>2. answer \in {"ok", "lost", "failed"} BY <1>1 DEF ShareDialogInv, ShareTypeOK, ShareRequest
<1> HIDE DEF answer
<1>3. /\ shAsked'[s] = Null
      /\ \A t \in ShareSlot : t # s => shAsked'[t] = shAsked[t]
      /\ shAsked' = [t \in ShareSlot |-> shAsked'[t]]
  BY <1>1 DEF ShareDialogInv, ShareTypeOK
<1>4. shRead' \in {shRead, Sent} BY <1>1
<1>5. ShareTypeOK' BY <1>1, <1>3, <1>4 DEF ShareDialogInv, ShareTypeOK
<1>6. ASSUME shTrusted' PROVE TrustInv'
  <2>1. TrustInv /\ answer # "lost" BY <1>1, <1>6 DEF ShareDialogInv
  <2>2. \A t \in ShareSlot : Out(t)' => t # s /\ shAsked'[t] = shAsked[t] /\ Out(t)
    BY <1>3 DEF Out
  <2>3. shOpen /\ shData # Null BY <1>1, <2>1 DEF TrustInv, DialogWaits, Out
  <2>4. DialogWaits' BY <1>1, <2>1, <2>2, <2>3 DEF TrustInv, DialogWaits
  <2>5. \A t \in ShareSlot : Toggle(t)' => t # s /\ shAsked'[t] = shAsked[t] /\ Toggle(t)
    BY <2>2 DEF Toggle
  <2>6. OneToggle' BY <2>1, <2>5 DEF TrustInv, OneToggle
  <2>7. DueToggles'
    <3>1. ASSUME NEW t \in ShareSlot, Toggle(t)', shAsked'[t].answer = "due"
          PROVE  shServer'.shared = ~shAsked'[t].start
      BY <1>1, <2>1, <2>5, <3>1 DEF TrustInv, DueToggles
    <3> QED BY <3>1 DEF DueToggles
  <2>8. AnswerIsFresh'
    <3>1. CASE answer = "ok"
      <4>1. shRead' = Sent BY <1>1, <2>3, <3>1
      <4> QED BY <4>1, SentIsNoShare DEF AnswerIsFresh
    <3>2. CASE answer = "failed"
      <4>1. shRead' = shRead BY <1>1, <3>2
      <4>2. ASSUME Carried PROVE Carried'
        <5>1. PICK t \in ShareSlot : Toggle(t) /\ shAsked[t].answer \in {"ok", "lost"} BY <4>2 DEF Carried
        <5>2. t # s BY <3>2, <5>1 DEF answer
        <5> QED BY <1>3, <5>1, <5>2 DEF Carried, Toggle, Out
      <4> QED BY <1>1, <2>1, <4>1, <4>2 DEF TrustInv, AnswerIsFresh
    <3> QED BY <1>2, <2>1, <3>1, <3>2
  <2> QED BY <2>4, <2>6, <2>7, <2>8 DEF TrustInv
<1> QED BY <1>5, <1>6 DEF ShareDialogInv

LEMMA ShareStays ==
  ASSUME ShareDialogInv, [SHNext]_shVars
  PROVE  ShareDialogInv'
<1>1. CASE ShareOpened BY <1>1, OpenedKeepsShare
<1>2. CASE ShareClosed BY <1>2, ClosedKeepsShare
<1>3. CASE ServeShareRead \/ ShareReadDone BY <1>3, ReadKeepsShare
<1>4. CASE handleToggleStatus
  BY <1>4, AskKeepsShare DEF handleToggleStatus, Ready
<1>5. CASE handleExpireDateChange
  <2>1. PICK day \in ShareDay \cup {Null} : Ask("expire", day) BY <1>5 DEF handleExpireDateChange
  <2> QED BY <1>5, <2>1, AskKeepsShare DEF handleExpireDateChange
<1>6. ASSUME NEW s \in ShareSlot, ServeShare(s) PROVE ShareDialogInv' BY <1>6, ServingKeepsShare
<1>7. ASSUME NEW s \in ShareSlot, ShareAnswered(s) PROVE ShareDialogInv' BY <1>7, AnsweredKeepsShare
<1>8. CASE OthersShare
  BY <1>8 DEF OthersShare, ShareDialogInv, ShareTypeOK, Share
<1>9. CASE UNCHANGED shVars
  <2>1. UNCHANGED <<shServer, shOpen, shData, shRead, shAsked, shTrusted>> BY <1>9 DEF shVars
  <2>2. ShareTypeOK' BY <2>1 DEF ShareDialogInv, ShareTypeOK
  <2>3. TrustInv => DialogWaits' /\ AnswerIsFresh' BY <2>1, SameRequests DEF TrustInv, DialogWaits, AnswerIsFresh, Out
  <2> QED BY <2>1, <2>2, <2>3, SameRequests DEF ShareDialogInv, TrustInv
<1> QED BY <1>1, <1>2, <1>3, <1>4, <1>5, <1>6, <1>7, <1>8, <1>9 DEF SHNext

LEMMA ToggleIsAsSaid ==
  ASSUME ShareDialogInv, NEW s \in ShareSlot, ServeShare(s), shServer'.shared # shServer.shared, shTrusted
  PROVE  shServer'.shared = shAsked[s].start
<1>1. Toggle(s) /\ shAsked[s].answer = "due" /\ shServer'.shared = ~shServer.shared
  <2>1. CASE TogglePeerShareStatus(s)
    BY <2>1 DEF TogglePeerShareStatus, ServeShare, Toggle, Out, ShareDialogInv, ShareTypeOK, Share
  <2>2. CASE UpdatePeerShareExpireTime(s)
    BY <2>2 DEF UpdatePeerShareExpireTime, ShareDialogInv, ShareTypeOK, Share
  <2> QED BY <2>1, <2>2 DEF ServeShare
<1>2. shServer.shared = ~shAsked[s].start BY <1>1 DEF ShareDialogInv, TrustInv, DueToggles
<1>3. shAsked[s].start \in BOOLEAN BY <1>1 DEF ShareDialogInv, ShareTypeOK, ShareRequest, Toggle, Out
<1> QED BY <1>1, <1>2, <1>3

(* A click does what the screen said (Screens' ClicksDoAsShown): a toggle starts or stops the   *)
(* share as its button said, for any number of requests that are served and answered in any     *)
(* order, and only ticks that were listed under the filter are sent, for any router.            *)
THEOREM ClicksDoAsShownHolds == ScreensSpec => ClicksDoAsShown
<1> DEFINE Inv == ShareDialogInv /\ TickedWasListed
<1>1. ScreensInit => Inv
  BY InitShareDialog DEF ScreensInit, SDInit, TickedWasListed, Filter, Listing
<1>2. Inv /\ [ScreensNext]_screensVars => Inv' BY ScreensMove, ShareStays, TicksStay
<1>3. Inv /\ [ScreensNext]_screensVars
        => /\ [\A s \in ShareSlot :
                 ServeShare(s) /\ shServer'.shared # shServer.shared /\ shTrusted
                   => shServer'.shared = shAsked[s].start]_shVars
           /\ [handleSubmit => sdSent' \subseteq sdSeen]_sdVars
  <2> SUFFICES ASSUME Inv
               PROVE  /\ \A s \in ShareSlot :
                           ServeShare(s) /\ shServer'.shared # shServer.shared /\ shTrusted
                             => shServer'.shared = shAsked[s].start
                      /\ handleSubmit => sdSent' \subseteq sdSeen
    OBVIOUS
  <2> QED BY ToggleIsAsSaid DEF handleSubmit, TickedWasListed
<1> QED BY <1>1, <1>2, <1>3, PTL DEF ScreensSpec, ClicksDoAsShown, ToggleDoesWhatItSaid, SendsWhatIsListed

-----------------------------------------------------------------------------
(* Theme, font and sidebar (Shell)                                         *)

(* The page is painted and listened for in the theme that is chosen, and the browser has       *)
(* kept what this tab has chosen.                                                           *)
ShellTypeOK ==
    /\ slTheme \in Theme /\ slFont \in Font /\ slOpen \in BOOLEAN
    /\ slForm # Null => slForm \in [theme : Theme, font : Font]
    /\ slKept = [theme |-> slKept.theme, font |-> slKept.font, open |-> slKept.open]
    /\ slKept.theme \in Theme \cup {Null} /\ slKept.font \in Font \cup {Null} /\ slKept.open \in BOOLEAN \cup {Null}

Painting == slHeard = slTheme /\ slRoot = applyTheme(slTheme, slDark)

Keeping ==
    slAlone => /\ KeptOr(slKept.theme, "dark") = slTheme
               /\ KeptOr(slKept.font, FirstFont) = slFont
               /\ KeptOr(slKept.open, TRUE) = slOpen

ShellInv == ShellTypeOK /\ Painting /\ Keeping

LEMMA InitShell == SLInit => ShellInv
  BY ShellAssumption DEF SLInit, ShellInv, ShellTypeOK, Painting, Keeping, KeptOr, applyTheme, Theme

LEMMA SameShell ==
  ASSUME ShellInv, UNCHANGED <<slTheme, slHeard, slDark, slRoot, slFont, slKept, slOpen, slAlone>>,
         slForm' \in [theme : Theme, font : Font] \cup {Null}
  PROVE  ShellInv'
<1>1. Painting' /\ Keeping' BY DEF ShellInv, Painting, Keeping, applyTheme, KeptOr
<1>2. ShellTypeOK' BY DEF ShellInv, ShellTypeOK
<1> QED BY <1>1, <1>2 DEF ShellInv

LEMMA SettingKeepsShell ==
  ASSUME ShellInv, NEW theme \in Theme, setTheme(theme), UNCHANGED slOpen,
         slForm' \in [theme : Theme, font : Font] \cup {Null}
  PROVE  ShellInv'
<1>1. slKept' = [theme |-> theme, font |-> slKept.font, open |-> slKept.open]
  BY DEF setTheme, ShellInv, ShellTypeOK
<1>2. slTheme' = theme /\ slHeard' = theme /\ slRoot' = applyTheme(theme, slDark)
      /\ UNCHANGED <<slDark, slFont, slAlone>>
  BY DEF setTheme, Painted, Registered
<1> QED BY <1>1, <1>2, ShellAssumption DEF ShellInv, ShellTypeOK, Painting, Keeping, KeptOr

LEMMA ShellStays ==
  ASSUME ShellInv, [SLNext]_slVars
  PROVE  ShellInv'
<1> USE DEF themeVars, barVars
<1>0. slForm \in [theme : Theme, font : Font] \cup {Null} BY DEF ShellInv, ShellTypeOK
<1>1. CASE handleChange
  <2>1. slRoot' = applyTheme(slTheme, slDark')
    BY <1>1 DEF handleChange, ShellInv, Painting, applyTheme
  <2> QED BY <1>1, <2>1 DEF handleChange, ShellInv, ShellTypeOK, Painting, Keeping
<1>2. CASE ThemeSwitch
  <2>1. PICK theme \in Theme : setTheme(theme) BY <1>2 DEF ThemeSwitch
  <2> QED BY <1>0, <1>2, <2>1, SettingKeepsShell DEF ThemeSwitch
<1>3. CASE AppearanceForm
  <2>1. slForm' \in [theme : Theme, font : Font] BY <1>0, <1>3 DEF AppearanceForm, Theme
  <2> QED BY <1>3, <2>1 DEF AppearanceForm, ShellInv, ShellTypeOK, Painting, Keeping
<1>4. CASE UpdatePreferences
  <2>1. slForm \in [theme : Theme, font : Font] BY <1>0, <1>4 DEF UpdatePreferences
  <2>2. slKept' = [theme |-> IF slForm.theme = slTheme THEN slKept.theme ELSE slForm.theme,
                   font |-> IF slForm.font = slFont THEN slKept.font ELSE slForm.font, open |-> slKept.open]
    BY <1>4 DEF UpdatePreferences, ShellInv, ShellTypeOK
  <2>3. slTheme' = slForm.theme /\ slFont' = slForm.font /\ slHeard' = slForm.theme
        /\ slRoot' = applyTheme(slForm.theme, slDark) /\ UNCHANGED <<slDark, slForm, slOpen, slAlone>>
    BY <1>4 DEF UpdatePreferences, Painted, Registered
  <2> QED BY <2>1, <2>2, <2>3, ShellAssumption DEF ShellInv, ShellTypeOK, Painting, Keeping, KeptOr
<1>5. CASE toggleSidebar
  <2>1. UNCHANGED <<slTheme, slHeard, slDark, slRoot, slFont, slForm, slAlone>> BY <1>5 DEF toggleSidebar
  <2>2. CASE UNCHANGED <<slOpen, slKept>>
    BY <2>1, <2>2 DEF ShellInv, ShellTypeOK, Painting, Keeping
  <2>3. CASE setOpen(~slOpen)
    <3>1. slKept' = [theme |-> slKept.theme, font |-> slKept.font, open |-> ~slOpen] /\ slOpen' = ~slOpen
      BY <2>3 DEF setOpen, ShellInv, ShellTypeOK
    <3>2. slKept'.open = ~slOpen /\ slKept'.theme = slKept.theme /\ slKept'.font = slKept.font BY <3>1
    <3>3. slKept'.open # Null BY <3>2, ShellAssumption
    <3> QED BY <2>1, <3>1, <3>2, <3>3 DEF ShellInv, ShellTypeOK, Painting, Keeping, KeptOr
  <2> QED BY <1>5, <2>2, <2>3 DEF toggleSidebar
<1>6. CASE SheetClosed \/ isMobile \/ SearchToggled
  BY <1>0, <1>6, SameShell DEF SheetClosed, isMobile, SearchToggled
<1>7. CASE Arrives /\ UNCHANGED <<slTheme, slHeard, slDark, slRoot, slFont, slKept, slOpen, slAlone>>
  BY <1>7, SameShell DEF Arrives, ShellInv, ShellTypeOK
<1>8. CASE runCommand /\ \E theme \in Theme : setTheme(theme) /\ UNCHANGED slForm
  BY <1>0, <1>8, SettingKeepsShell DEF runCommand
<1>9. CASE SignedInAgain \/ Reloaded
  <2>1. slOpen' = KeptOr(slKept.open, TRUE) /\ slForm' = Null /\ UNCHANGED <<slKept, slDark, slAlone>>
    BY <1>9 DEF SignedInAgain, Reloaded, AuthenticatedLayout
  <2>2. \/ UNCHANGED <<slTheme, slHeard, slRoot, slFont>>
        \/ /\ slTheme' = KeptOr(slKept.theme, "dark") /\ slHeard' = slTheme' /\ slRoot' = applyTheme(slTheme', slDark)
           /\ slFont' = KeptOr(slKept.font, FirstFont)
    BY <1>9 DEF SignedInAgain, Reloaded
  <2>3. slOpen' \in BOOLEAN BY <2>1 DEF KeptOr, ShellInv, ShellTypeOK
  <2>4. slTheme' \in Theme /\ slFont' \in Font
    BY <2>2, ShellAssumption DEF KeptOr, ShellInv, ShellTypeOK, Theme
  <2>5. slAlone => slOpen' = slOpen BY <2>1 DEF ShellInv, Keeping
  <2> QED BY <2>1, <2>2, <2>3, <2>4, <2>5 DEF ShellInv, ShellTypeOK, Painting, Keeping
<1>10. CASE OtherTab
  <2>1. slAlone' = FALSE /\ UNCHANGED <<slTheme, slHeard, slDark, slRoot, slFont, slForm, slOpen>>
    BY <1>10 DEF OtherTab
  <2>2. \/ \E theme \in Theme : slKept' = [theme |-> theme, font |-> slKept.font, open |-> slKept.open]
        \/ \E font \in Font : slKept' = [theme |-> slKept.theme, font |-> font, open |-> slKept.open]
        \/ \E open \in BOOLEAN \cup {Null} : slKept' = [theme |-> slKept.theme, font |-> slKept.font, open |-> open]
    BY <1>10 DEF OtherTab, ShellInv, ShellTypeOK
  <2>3. ShellTypeOK' BY <2>1, <2>2 DEF ShellInv, ShellTypeOK
  <2>4. Painting' BY <2>1 DEF ShellInv, Painting, applyTheme
  <2> QED BY <2>1, <2>3, <2>4 DEF ShellInv, Keeping
<1>11. CASE UNCHANGED slVars
  BY <1>0, <1>11, SameShell DEF slVars
<1> QED
  BY <1>1, <1>2, <1>3, <1>4, <1>5, <1>6, <1>7, <1>8, <1>9, <1>10, <1>11 DEF SLNext, SidebarMenuLink, runCommand

(* The page looks as it was told to, at once and after a reload (Screens' LooksAsChosen):      *)
(* however the theme, the font and the sidebar are changed, and for any fonts.                 *)
THEOREM LooksAsChosenHolds == ScreensSpec => LooksAsChosen
<1>1. ScreensInit => ShellInv BY InitShell DEF ScreensInit
<1>2. ShellInv /\ [ScreensNext]_screensVars => ShellInv' BY ScreensMove, ShellStays
<1>3. ShellInv /\ ShellInv' /\ [ScreensNext]_screensVars
        => /\ [RootShowsTheme']_slVars
           /\ [(Reloaded \/ SignedInAgain) /\ slAlone => UNCHANGED <<slTheme, slFont, slRoot, slOpen>>]_slVars
  <2>1. ShellInv' => RootShowsTheme' BY DEF ShellInv, Painting, RootShowsTheme
  <2>2. ShellInv /\ (Reloaded \/ SignedInAgain) /\ slAlone => UNCHANGED <<slTheme, slFont, slRoot, slOpen>>
    BY DEF Reloaded, SignedInAgain, AuthenticatedLayout, themeVars, ShellInv, Painting, Keeping
  <2> QED BY <2>1, <2>2
<1> QED BY <1>1, <1>2, <1>3, PTL DEF ScreensSpec, LooksAsChosen, ReloadKeeps

-----------------------------------------------------------------------------
(* The connection history (PeerSessions)                                   *)

Session == [from : Int, to : Int \cup {Null}]

SessionsTypeOK ==
    /\ psClock \in Int
    /\ psRouter \in [on : BOOLEAN, handshake : Int \cup {Null}, listed : BOOLEAN]
    /\ psRows \in Seq(Session)
    /\ psPass \in [SessionPass -> Observation \cup {Null}]
    /\ psMerged \in BOOLEAN /\ psTrusted \in BOOLEAN

OpenRows == {i \in DOMAIN psRows : psRows[i].to = Null}

(* A pass no other has overlapped: it is alone and the sessions are as it read them.          *)
LoneIsAlone ==
    \A k \in SessionPass : psLone = k /\ psPass[k] # Null =>
        /\ \A other \in SessionPass \ {k} : psPass[other] = Null
        /\ psPass[k].opens = OpenRows

(* Until passes overlap, and again after one that did not, at most one session is open.       *)
MergedInv ==
    psMerged => /\ \A i, j \in OpenRows : i = j
                /\ \A k \in SessionPass : psPass[k] # Null => psLone = k

(* A session that ended at t is over for good: the handshake is a later one, or the peer is    *)
(* off and gets on without it, or it is too old to count.                                   *)
Over(t) ==
    \/ psRouter.handshake = Null \/ ~psRouter.on
    \/ psRouter.handshake >= t
    \/ psClock - psRouter.handshake >= OnlineTimeout

RowsInOrder ==
    /\ \A i, j \in DOMAIN psRows : i < j => psRows[i].to # Null /\ psRows[i].to <= psRows[j].from
    /\ \A i \in DOMAIN psRows :
         /\ psRows[i].from <= psClock
         /\ psRows[i].to # Null => psRows[i].to <= psClock /\ Over(psRows[i].to)

(* What a pass has read goes for the sessions it will write to: online, the handshake comes     *)
(* after all that have ended; offline, the connection is over.                               *)
ObservedInOrder(obs) ==
    /\ obs.now <= psClock /\ obs.age >= 0
    /\ \A i \in DOMAIN psRows : psRows[i].from <= obs.now
    /\ obs.online => \A i \in DOMAIN psRows : psRows[i].to # Null => psRows[i].to <= obs.now - obs.age
    /\ ~obs.online => Over(obs.now)

TrustedInv ==
    psTrusted => /\ psMerged /\ psRouter.listed
                 /\ psRouter.handshake # Null => psRouter.handshake <= psClock
                 /\ RowsInOrder
                 /\ \A k \in SessionPass : psPass[k] # Null => ObservedInOrder(psPass[k])

SessionsInv == SessionsTypeOK /\ LoneIsAlone /\ MergedInv /\ TrustedInv

LEMMA InitSessions == PSInit => SessionsInv
<1> SUFFICES ASSUME PSInit PROVE SessionsInv OBVIOUS
<1>1. SessionsTypeOK BY DEF PSInit, SessionsTypeOK
<1>2. DOMAIN psRows = {} /\ \A k \in SessionPass : psPass[k] = Null BY DEF PSInit
<1>3. LoneIsAlone /\ MergedInv BY <1>2 DEF LoneIsAlone, MergedInv, OpenRows
<1>4. TrustedInv BY <1>2 DEF PSInit, TrustedInv, RowsInOrder
<1> QED BY <1>1, <1>3, <1>4 DEF SessionsInv

(* What the clock and the router do changes no session and no pass; what is over stays over.     *)
LEMMA RouterKeepsSessions ==
  ASSUME SessionsInv, Tick \/ Handshake \/ SwitchPeer
  PROVE  SessionsInv'
<1>1. UNCHANGED <<psRows, psPass, psLone, psMerged>> /\ psClock' \in Int /\ psClock' >= psClock
      /\ psTrusted' \in BOOLEAN /\ (psTrusted' => psTrusted)
  <2>1. CASE Tick BY <2>1 DEF Tick, serverVars, jobVars, SessionsInv, SessionsTypeOK
  <2>2. CASE Handshake BY <2>2 DEF Handshake, jobVars, SessionsInv, SessionsTypeOK
  <2>3. CASE SwitchPeer
    <3>1. psTrusted' \in BOOLEAN /\ (psTrusted' => psTrusted) BY <2>3 DEF SwitchPeer
    <3>2. UNCHANGED <<psClock, psRows, psPass, psLone, psMerged>> BY <2>3 DEF SwitchPeer, jobVars
    <3> QED BY <3>1, <3>2 DEF SessionsInv, SessionsTypeOK
  <2> QED BY <2>1, <2>2, <2>3
<1>2. psRouter' \in [on : BOOLEAN, handshake : Int \cup {Null}, listed : BOOLEAN]
  BY DEF Tick, Handshake, SwitchPeer, serverVars, SessionsInv, SessionsTypeOK
<1>3. SessionsTypeOK' BY <1>1, <1>2 DEF SessionsInv, SessionsTypeOK
<1>4. LoneIsAlone' /\ MergedInv' BY <1>1 DEF SessionsInv, LoneIsAlone, MergedInv, OpenRows
<1>5. ASSUME psTrusted' PROVE TrustedInv'
  <2>1. psTrusted /\ psMerged /\ psRouter.listed /\ RowsInOrder
        /\ (psRouter.handshake # Null => psRouter.handshake <= psClock)
    BY <1>1, <1>5 DEF SessionsInv, TrustedInv
  <2>2. psRouter'.listed /\ (psRouter'.handshake # Null => psRouter'.handshake <= psClock')
    <3>1. CASE Tick BY <2>1, <3>1 DEF Tick, serverVars, SessionsInv, SessionsTypeOK
    <3>2. CASE Handshake BY <2>1, <3>2 DEF Handshake, SessionsInv, SessionsTypeOK
    <3>3. CASE SwitchPeer BY <1>5, <2>1, <3>3 DEF SwitchPeer, SessionsInv, SessionsTypeOK
    <3> QED BY <3>1, <3>2, <3>3
  <2>3. ASSUME NEW t \in Int, t <= psClock, Over(t) PROVE Over(t)'
    <3>1. CASE Tick BY <2>3, <3>1, SessionsAssumption DEF Tick, serverVars, Over, SessionsInv, SessionsTypeOK
    <3>2. CASE Handshake BY <2>3, <3>2 DEF Handshake, Over, SessionsInv, SessionsTypeOK
    <3>3. CASE SwitchPeer BY <1>5, <2>3, <3>3 DEF SwitchPeer, Over, SessionsInv, SessionsTypeOK
    <3> QED BY <3>1, <3>2, <3>3
  <2>4. RowsInOrder'
    <3>1. \A i \in DOMAIN psRows : psRows[i] \in Session BY DEF SessionsInv, SessionsTypeOK
    <3> QED BY <1>1, <2>1, <2>3, <3>1 DEF RowsInOrder, Session, SessionsInv, SessionsTypeOK
  <2>5. ASSUME NEW k \in SessionPass, psPass[k] # Null PROVE ObservedInOrder(psPass[k])'
    <3>0. PICK obs : obs = psPass[k] OBVIOUS
    <3>1. obs \in Observation /\ ObservedInOrder(obs) BY <2>1, <2>5, <3>0 DEF SessionsInv, SessionsTypeOK, TrustedInv
    <3>2. obs.now \in Int /\ psClock \in Int BY <3>1 DEF Observation, SessionsInv, SessionsTypeOK
    <3>3. psPass'[k] = obs /\ psRows' = psRows BY <1>1, <3>0
    <3>4. ~obs.online => Over(obs.now)' BY <2>3, <3>1, <3>2 DEF ObservedInOrder
    <3>5. ObservedInOrder(obs)' BY <1>1, <3>1, <3>2, <3>3, <3>4 DEF ObservedInOrder
    <3> QED BY <3>3, <3>5 DEF ObservedInOrder
  <2> QED BY <1>1, <2>1, <2>2, <2>4, <2>5 DEF TrustedInv
<1> QED BY <1>3, <1>4, <1>5 DEF SessionsInv, TrustedInv

(* What a pass reads goes for the sessions there are.                                          *)
LEMMA TrackingKeepsSessions ==
  ASSUME SessionsInv, NEW k \in SessionPass, TrackPeerSessions(k)
  PROVE  SessionsInv'
<1>1. PICK obs : obs = observePeerSession OBVIOUS
<1>2. obs \in Observation
  BY <1>1 DEF observePeerSession, Observation, SessionsInv, SessionsTypeOK
<1>3. psPass' = [psPass EXCEPT ![k] = obs] /\ UNCHANGED <<psClock, psRouter, psRows>>
  BY <1>1 DEF TrackPeerSessions
<1>4. PICK alone \in BOOLEAN :
         /\ alone <=> \A other \in SessionPass : psPass[other] = Null
         /\ psLone' = IF alone THEN k ELSE Null
         /\ psMerged' = (psMerged /\ alone) /\ psTrusted' = (psTrusted /\ alone)
  BY DEF TrackPeerSessions
<1>5. psPass'[k] = obs /\ \A j \in SessionPass : j # k => psPass'[j] = psPass[j]
  BY <1>3 DEF SessionsInv, SessionsTypeOK
<1>6. obs.opens = OpenRows BY <1>1 DEF observePeerSession, OpenRows
<1>7. SessionsTypeOK' BY <1>2, <1>3, <1>4 DEF SessionsInv, SessionsTypeOK
<1>8. LoneIsAlone'
  <2>1. ASSUME NEW j \in SessionPass, psLone' = j PROVE j = k /\ alone
    BY <1>4, <2>1, SessionsAssumption
  <2>2. OpenRows' = OpenRows BY <1>3 DEF OpenRows
  <2> QED BY <1>4, <1>5, <1>6, <2>1, <2>2 DEF LoneIsAlone
<1>9. MergedInv'
  <2>1. OpenRows' = OpenRows BY <1>3 DEF OpenRows
  <2> QED BY <1>4, <1>5, <2>1 DEF SessionsInv, MergedInv
<1>10. TrustedInv'
  <2> SUFFICES ASSUME psTrusted' PROVE TrustedInv' BY DEF TrustedInv
  <2>1. psTrusted /\ alone /\ TrustedInv /\ RowsInOrder /\ psRouter.listed /\ psMerged
    BY <1>4 DEF SessionsInv, TrustedInv
  <2>2. RowsInOrder' BY <1>3, <2>1 DEF RowsInOrder, Over
  <2>3. obs.now = psClock
        /\ obs.age = (IF psRouter.handshake # Null THEN psClock - psRouter.handshake ELSE 0)
        /\ (obs.online <=> psRouter.handshake # Null /\ psRouter.on /\ obs.age < OnlineTimeout)
    BY <1>1, <2>1 DEF observePeerSession
  <2>4. psClock \in Int /\ psRouter.handshake \in Int \cup {Null} /\ OnlineTimeout \in Nat
        /\ (psRouter.handshake # Null => psRouter.handshake <= psClock)
    BY <2>1, SessionsAssumption DEF SessionsInv, SessionsTypeOK, TrustedInv
  <2>5. \A i \in DOMAIN psRows : psRows[i] \in Session BY DEF SessionsInv, SessionsTypeOK
  <2>6. obs.age >= 0 BY <2>3, <2>4
  <2>7. \A i \in DOMAIN psRows : psRows[i].from <= obs.now BY <2>1, <2>3 DEF RowsInOrder
  <2>8. ~obs.online => Over(obs.now) BY <2>3, <2>4 DEF Over
  <2>9. ASSUME obs.online, NEW i \in DOMAIN psRows, psRows[i].to # Null PROVE psRows[i].to <= obs.now - obs.age
    <3>1. psRows[i].to \in Int /\ Over(psRows[i].to) BY <2>1, <2>5, <2>9 DEF RowsInOrder, Session
    <3> QED BY <2>3, <2>4, <2>9, <3>1 DEF Over
  <2>10. ObservedInOrder(obs) BY <2>3, <2>4, <2>6, <2>7, <2>8, <2>9 DEF ObservedInOrder
  <2>11. ASSUME NEW j \in SessionPass, psPass'[j] # Null PROVE ObservedInOrder(psPass[j])'
    <3>1. psPass'[j] = obs BY <1>4, <1>5, <2>1, <2>11
    <3> QED BY <1>3, <2>10, <3>1 DEF ObservedInOrder, Over
  <2> QED BY <1>3, <1>4, <2>1, <2>2, <2>4, <2>11 DEF TrustedInv
<1> QED BY <1>7, <1>8, <1>9, <1>10 DEF SessionsInv

(* A pass that is done, whatever it wrote, leaves no other when it was alone.                     *)
LEMMA DoneKeepsLone ==
  ASSUME SessionsInv, NEW k \in SessionPass, psPass[k] # Null,
         psPass' = [psPass EXCEPT ![k] = Null], psLone' = IF psLone = k THEN Null ELSE psLone
  PROVE  /\ LoneIsAlone' /\ psPass' \in [SessionPass -> Observation \cup {Null}]
         /\ psLone = k => \A j \in SessionPass : psPass'[j] = Null
         /\ psMerged => psLone = k
         /\ psLone = k => psPass[k].opens = OpenRows
         /\ psTrusted => psMerged
         /\ psPass[k] \in Observation
<1>1. psPass'[k] = Null /\ \A j \in SessionPass : j # k => psPass'[j] = psPass[j]
  BY DEF SessionsInv, SessionsTypeOK
<1>2. psPass' \in [SessionPass -> Observation \cup {Null}] BY DEF SessionsInv, SessionsTypeOK
<1>3. psLone = k => psPass[k].opens = OpenRows /\ \A j \in SessionPass \ {k} : psPass[j] = Null
  BY DEF SessionsInv, LoneIsAlone
<1>4. ASSUME NEW j \in SessionPass, psLone' = j, psPass'[j] # Null PROVE FALSE
  <2>1. psLone = j /\ j # k BY <1>1, <1>4, SessionsAssumption
  <2> QED BY <1>1, <1>4, <2>1 DEF SessionsInv, LoneIsAlone
<1>5. psMerged => psLone = k BY DEF SessionsInv, MergedInv
<1>6. psTrusted => psMerged BY DEF SessionsInv, TrustedInv
<1>7. psPass[k] \in Observation BY DEF SessionsInv, SessionsTypeOK
<1> QED BY <1>1, <1>2, <1>3, <1>4, <1>5, <1>6, <1>7 DEF LoneIsAlone

(* A session is begun: there was none open, and it begins after all others have ended.           *)
LEMMA BeginningKeepsSessions ==
  ASSUME SessionsInv, NEW k \in SessionPass, psPass[k] # Null, Opens(psPass[k]),
         psRows' = Append(psRows, [from |-> psPass[k].now - psPass[k].age, to |-> Null])
  PROVE  /\ psRows' \in Seq(Session)
         /\ psLone = k => \A i, j \in OpenRows' : i = j
         /\ psTrusted /\ UNCHANGED <<psClock, psRouter>> => RowsInOrder'
<1>1. PICK obs : obs = psPass[k] OBVIOUS
<1>2. obs \in Observation BY <1>1 DEF SessionsInv, SessionsTypeOK
<1>3. obs.now \in Int /\ obs.age \in Int /\ obs.online /\ obs.opens = {} BY <1>1, <1>2 DEF Observation, Opens
<1> DEFINE new == [from |-> obs.now - obs.age, to |-> Null]
<1>4. new \in Session /\ new.from = obs.now - obs.age /\ new.to = Null BY <1>3 DEF Session
<1>5. psRows' = Append(psRows, new) BY <1>1
<1> HIDE DEF new
<1>6. psRows \in Seq(Session) BY DEF SessionsInv, SessionsTypeOK
<1>7. /\ psRows' \in Seq(Session) /\ DOMAIN psRows' = 1 .. Len(psRows) + 1 /\ DOMAIN psRows = 1 .. Len(psRows)
      /\ psRows'[Len(psRows) + 1] = new /\ Len(psRows) \in Nat
      /\ \A i \in DOMAIN psRows : psRows'[i] = psRows[i] /\ psRows[i] \in Session
  BY <1>4, <1>5, <1>6
<1>8. ASSUME psLone = k PROVE \A i \in DOMAIN psRows : psRows[i].to # Null
  BY <1>1, <1>3, <1>8 DEF SessionsInv, LoneIsAlone, OpenRows
<1>9. ASSUME psLone = k PROVE \A i, j \in OpenRows' : i = j
  <2>1. \A i \in OpenRows' : i = Len(psRows) + 1 BY <1>7, <1>8, <1>9 DEF OpenRows
  <2> QED BY <2>1
<1>10. ASSUME psTrusted, UNCHANGED <<psClock, psRouter>> PROVE RowsInOrder'
  <2>1. psLone = k /\ RowsInOrder /\ ObservedInOrder(obs)
    BY <1>1, <1>10 DEF SessionsInv, TrustedInv, MergedInv
  <2>2. psClock \in Int BY DEF SessionsInv, SessionsTypeOK
  <2>3. \A i \in DOMAIN psRows : psRows[i].to # Null /\ psRows[i].to <= new.from
    BY <1>3, <1>4, <1>8, <2>1 DEF ObservedInOrder
  <2>4. new.from <= psClock BY <1>3, <1>4, <2>1, <2>2 DEF ObservedInOrder
  <2>5. ASSUME NEW i \in DOMAIN psRows', NEW j \in DOMAIN psRows', i < j
        PROVE  psRows'[i].to # Null /\ psRows'[i].to <= psRows'[j].from
    <3>1. i \in DOMAIN psRows BY <1>7, <2>5
    <3>2. CASE j \in DOMAIN psRows BY <1>7, <2>1, <2>5, <3>1, <3>2 DEF RowsInOrder
    <3>3. CASE j = Len(psRows) + 1 BY <1>7, <2>3, <3>1, <3>3
    <3> QED BY <1>7, <3>2, <3>3
  <2>6. ASSUME NEW i \in DOMAIN psRows'
        PROVE  /\ psRows'[i].from <= psClock'
               /\ psRows'[i].to # Null => psRows'[i].to <= psClock' /\ Over(psRows[i].to)'
    <3>1. CASE i \in DOMAIN psRows BY <1>7, <1>10, <2>1, <3>1 DEF RowsInOrder, Over
    <3>2. CASE i = Len(psRows) + 1 BY <1>4, <1>7, <1>10, <2>4, <3>2
    <3> QED BY <1>7, <3>1, <3>2
  <2> QED BY <2>5, <2>6 DEF RowsInOrder
<1> QED BY <1>7, <1>9, <1>10

(* Sessions are ended: of those that were open all but the newest, when nothing fails, and the   *)
(* newest too when the peer is off line.                                                      *)
LEMMA EndingKeepsSessions ==
  ASSUME SessionsInv, NEW k \in SessionPass, psPass[k] # Null, NEW newest \in psPass[k].opens,
         NEW failed \in SUBSET psPass[k].opens, psRows' = EndSessions(psPass[k], newest, failed),
         psLone = k => psPass[k].opens = OpenRows
  PROVE  /\ psRows' \in Seq(Session)
         /\ psMerged => \A i, j \in OpenRows' : i = j
         /\ psLone = k /\ failed = {} => \A i, j \in OpenRows' : i = j
         /\ psTrusted /\ UNCHANGED <<psClock, psRouter>> => RowsInOrder'
<1>1. PICK obs : obs = psPass[k] OBVIOUS
<1>2. obs \in Observation BY <1>1 DEF SessionsInv, SessionsTypeOK
<1>3. obs.now \in Int /\ obs.age \in Int /\ OnlineTimeout \in Int /\ newest \in obs.opens /\ failed \subseteq obs.opens
      /\ Null \notin Int
  BY <1>1, <1>2, SessionsAssumption DEF Observation
<1>4. /\ psRows \in Seq(Session) /\ Len(psRows) \in Nat /\ DOMAIN psRows = 1 .. Len(psRows)
      /\ \A i \in DOMAIN psRows : psRows[i] \in Session /\ psRows[i].from \in Int
                                  /\ psRows[i].to \in Int \cup {Null}
  <2>1. psRows \in Seq(Session) BY DEF SessionsInv, SessionsTypeOK
  <2>2. \A i \in DOMAIN psRows : psRows[i] \in Session BY <2>1
  <2> QED BY <2>1, <2>2 DEF Session
<1>5. ASSUME NEW i \in DOMAIN psRows
      PROVE  /\ Ends(obs, i, newest) \in Int \cup {Null}
             /\ i # newest => Ends(obs, i, newest) # Null
             /\ obs.online => Ends(obs, newest, newest) = Null
             /\ ~obs.online /\ psRows[i].from <= obs.now /\ i = newest
                  => Ends(obs, i, newest) \in Int /\ Ends(obs, i, newest) <= obs.now
  BY <1>3, <1>4 DEF Ends, estimateDisconnectAt
<1>6. ASSUME NEW i \in DOMAIN psRows
      PROVE  /\ psRows'[i] = IF i \in obs.opens \ failed /\ Ends(obs, i, newest) # Null
                             THEN [psRows[i] EXCEPT !.to = Ends(obs, i, newest)] ELSE psRows[i]
             /\ psRows'[i] \in Session /\ psRows'[i].from = psRows[i].from
             /\ psRows'[i].to = IF i \in obs.opens \ failed /\ Ends(obs, i, newest) # Null
                                THEN Ends(obs, i, newest) ELSE psRows[i].to
  <2> DEFINE end == Ends(obs, i, newest)
  <2>1. psRows'[i] = IF i \in obs.opens \ failed /\ end # Null
                     THEN [psRows[i] EXCEPT !.to = end] ELSE psRows[i]
    BY <1>1 DEF EndSessions
  <2>2. end \in Int \cup {Null} /\ psRows[i] \in Session BY <1>4, <1>5
  <2> HIDE DEF end
  <2>3. [psRows[i] EXCEPT !.to = end] \in Session /\ [psRows[i] EXCEPT !.to = end].from = psRows[i].from
        /\ [psRows[i] EXCEPT !.to = end].to = end
    BY <2>2 DEF Session
  <2>4. psRows'[i] \in Session /\ psRows'[i].from = psRows[i].from
        /\ psRows'[i].to = IF i \in obs.opens \ failed /\ end # Null THEN end ELSE psRows[i].to
    BY <2>1, <2>2, <2>3
  <2> QED BY <2>1, <2>4 DEF end
<1>7. DOMAIN psRows' = DOMAIN psRows /\ psRows' \in Seq(Session)
  <2>1. psRows' = [i \in 1 .. Len(psRows) |-> psRows'[i]] BY <1>1, <1>4 DEF EndSessions
  <2> HIDE DEF EndSessions
  <2>2. psRows' \in [1 .. Len(psRows) -> Session] BY <1>4, <1>6, <2>1
  <2> QED BY <1>4, <2>1, <2>2
<1>8. OpenRows' \subseteq OpenRows
  BY <1>6, <1>7 DEF OpenRows
<1>9. ASSUME psMerged PROVE \A i, j \in OpenRows' : i = j
  BY <1>8, <1>9 DEF SessionsInv, MergedInv
<1>10. ASSUME psLone = k, failed = {} PROVE \A i, j \in OpenRows' : i = j
  <2>1. ASSUME NEW i \in OpenRows' PROVE i = newest
    <3>1. i \in DOMAIN psRows /\ i \in obs.opens /\ psRows'[i].to = Null
      BY <1>1, <1>7, <1>8, <1>10, <2>1 DEF OpenRows
    <3> QED BY <1>5, <1>6, <1>10, <3>1
  <2> QED BY <2>1
<1>11. ASSUME psTrusted, UNCHANGED <<psClock, psRouter>> PROVE RowsInOrder'
  <2>1. psMerged /\ psLone = k /\ RowsInOrder /\ ObservedInOrder(obs) /\ obs.opens = OpenRows
    BY <1>1, <1>11 DEF SessionsInv, TrustedInv, MergedInv
  <2>2. psClock \in Int /\ psRouter.handshake \in Int \cup {Null} BY DEF SessionsInv, SessionsTypeOK
  <2>3. \A i \in OpenRows : i = newest BY <1>3, <2>1 DEF SessionsInv, MergedInv
  <2>4. newest \in DOMAIN psRows /\ psRows[newest].to = Null BY <1>3, <2>1 DEF OpenRows
  <2>5. ASSUME NEW i \in DOMAIN psRows, psRows'[i].to # psRows[i].to
        PROVE  i = newest /\ ~obs.online /\ psRows'[i].to \in Int /\ psRows'[i].to <= obs.now
    <3>1. i = newest BY <1>6, <2>1, <2>3, <2>5
    <3>2. ~obs.online BY <1>5, <1>6, <2>5, <3>1
    <3>3. psRows[i].from <= obs.now BY <2>1 DEF ObservedInOrder
    <3> QED BY <1>5, <1>6, <2>5, <3>1, <3>2, <3>3
  <2>6. ASSUME NEW i \in DOMAIN psRows', NEW j \in DOMAIN psRows', i < j
        PROVE  psRows'[i].to # Null /\ psRows'[i].to <= psRows'[j].from
    <3>1. psRows[i].to # Null /\ psRows[i].to <= psRows[j].from BY <1>7, <2>1, <2>6 DEF RowsInOrder
    <3>2. i # newest BY <2>4, <3>1
    <3>3. i \in DOMAIN psRows /\ j \in DOMAIN psRows BY <1>7
    <3>4. psRows'[i].to = psRows[i].to BY <2>5, <3>2, <3>3, Zenon
    <3>5. psRows'[j].from = psRows[j].from BY <1>6, <3>3, Zenon
    <3> QED BY <3>1, <3>4, <3>5
  <2>7. ASSUME NEW i \in DOMAIN psRows'
        PROVE  /\ psRows'[i].from <= psClock'
               /\ psRows'[i].to # Null => psRows'[i].to <= psClock' /\ Over(psRows[i].to)'
    <3>1. psRows'[i].from <= psClock' BY <1>6, <1>7, <1>11, <2>1 DEF RowsInOrder
    <3>2. CASE psRows'[i].to = psRows[i].to
      BY <1>7, <1>11, <2>1, <3>1, <3>2 DEF RowsInOrder, Over
    <3>3. CASE psRows'[i].to # psRows[i].to
      <4>1. ~obs.online /\ psRows'[i].to \in Int /\ psRows'[i].to <= obs.now BY <1>7, <2>5, <3>3
      <4>2. Over(obs.now) /\ obs.now <= psClock BY <2>1, <4>1 DEF ObservedInOrder
      <4>3. psRows'[i].to <= psClock BY <1>3, <2>2, <4>1, <4>2
      <4>4. Over(psRows[i].to)' BY <1>3, <1>11, <2>2, <4>1, <4>2, SessionsAssumption DEF Over
      <4> QED BY <1>11, <3>1, <4>3, <4>4
    <3> QED BY <3>2, <3>3
  <2> QED BY <2>6, <2>7 DEF RowsInOrder
<1> QED BY <1>7, <1>9, <1>10, <1>11

LEMMA SyncingKeepsSessions ==
  ASSUME SessionsInv, NEW k \in SessionPass, syncPeerSession(k) \/ SyncFailed(k)
  PROVE  SessionsInv'
<1>1. psPass[k] # Null /\ psPass' = [psPass EXCEPT ![k] = Null]
      /\ psLone' = (IF psLone = k THEN Null ELSE psLone)
      /\ UNCHANGED <<psClock, psRouter, psTrusted>>
  BY DEF syncPeerSession, SyncFailed
<1>2. /\ LoneIsAlone' /\ psPass' \in [SessionPass -> Observation \cup {Null}]
      /\ psLone = k => \A j \in SessionPass : psPass'[j] = Null
      /\ psMerged => psLone = k
      /\ psLone = k => psPass[k].opens = OpenRows
      /\ psTrusted => psMerged
  BY <1>1, DoneKeepsLone
<1>3. ASSUME psRows' \in Seq(Session), psMerged' \in BOOLEAN, psMerged => psMerged', psMerged' => psLone = k,
             psMerged' => \A i, j \in OpenRows' : i = j, psTrusted => RowsInOrder'
      PROVE  SessionsInv'
  <2>1. SessionsTypeOK' BY <1>1, <1>2, <1>3 DEF SessionsInv, SessionsTypeOK
  <2>2. MergedInv' BY <1>2, <1>3 DEF MergedInv
  <2>3. TrustedInv' BY <1>1, <1>2, <1>3 DEF SessionsInv, TrustedInv
  <2> QED BY <1>2, <2>1, <2>2, <2>3 DEF SessionsInv
<1>4. psMerged \in BOOLEAN /\ (psMerged => \A i, j \in OpenRows : i = j) /\ psRows \in Seq(Session)
      /\ (psTrusted => RowsInOrder)
  BY DEF SessionsInv, SessionsTypeOK, MergedInv, TrustedInv
<1>5. UNCHANGED psRows => OpenRows' = OpenRows /\ (RowsInOrder => RowsInOrder')
  BY <1>1 DEF OpenRows, RowsInOrder, Over
<1>6. CASE SyncFailed(k)
  <2>1. UNCHANGED <<psRows, psMerged>> BY <1>6 DEF SyncFailed
  <2> QED BY <1>2, <1>3, <1>4, <1>5, <2>1
<1>7. CASE syncPeerSession(k)
  <2>1. CASE /\ Opens(psPass[k]) /\ psMerged' = (psMerged \/ psLone = k)
             /\ psRows' = Append(psRows, [from |-> psPass[k].now - psPass[k].age, to |-> Null])
    <3>1. psMerged' => psLone = k BY <1>2, <2>1
    <3> QED BY <1>1, <1>3, <1>4, <2>1, <3>1, BeginningKeepsSessions
  <2>2. CASE /\ psPass[k].opens = {} /\ psMerged' = (psMerged \/ psLone = k) /\ UNCHANGED psRows
    <3>1. psMerged' => psLone = k /\ OpenRows = {} BY <1>2, <2>2
    <3> QED BY <1>3, <1>4, <1>5, <2>2, <3>1
  <2>3. ASSUME NEW newest \in psPass[k].opens, NEW failed \in SUBSET psPass[k].opens,
               psRows' = EndSessions(psPass[k], newest, failed),
               psMerged' = (psMerged \/ (psLone = k /\ failed = {}))
        PROVE  SessionsInv'
    <3>1. /\ psRows' \in Seq(Session)
          /\ psMerged => \A i, j \in OpenRows' : i = j
          /\ psLone = k /\ failed = {} => \A i, j \in OpenRows' : i = j
          /\ psTrusted => RowsInOrder'
      BY <1>1, <1>2, <2>3, EndingKeepsSessions
    <3>2. (psMerged' => psLone = k) /\ psMerged' \in BOOLEAN /\ (psMerged => psMerged') BY <1>2, <1>4, <2>3
    <3> QED BY <1>3, <2>3, <3>1, <3>2
  <2> QED BY <1>7, <2>1, <2>2, <2>3 DEF syncPeerSession
<1> QED BY <1>6, <1>7

LEMMA SessionsStay ==
  ASSUME SessionsInv, [PSNext]_psVars
  PROVE  SessionsInv'
<1>1. CASE Tick \/ Handshake \/ SwitchPeer BY <1>1, RouterKeepsSessions
<1>2. ASSUME NEW k \in SessionPass, TrackPeerSessions(k) PROVE SessionsInv' BY <1>2, TrackingKeepsSessions
<1>3. ASSUME NEW k \in SessionPass, syncPeerSession(k) \/ SyncFailed(k) PROVE SessionsInv'
  BY <1>3, SyncingKeepsSessions
<1>4. CASE UNCHANGED <<psClock, psRouter, psRows, psPass, psLone, psMerged, psTrusted>>
  <2>1. SessionsTypeOK' /\ LoneIsAlone' /\ MergedInv'
    BY <1>4 DEF SessionsInv, SessionsTypeOK, LoneIsAlone, MergedInv, OpenRows
  <2>2. TrustedInv' BY <1>4 DEF SessionsInv, TrustedInv, RowsInOrder, ObservedInOrder, Over
  <2> QED BY <2>1, <2>2 DEF SessionsInv
<1>5. ASSUME DialogNext \/ UNCHANGED psVars
      PROVE  UNCHANGED <<psClock, psRouter, psRows, psPass, psLone, psMerged, psTrusted>>
  BY <1>5 DEF DialogNext, GetPeerSessions, PollFailed, SessionsToggled, serverVars, jobVars, psVars
<1> QED BY <1>1, <1>2, <1>3, <1>4, <1>5 DEF PSNext, JobNext

(* No two sessions cover the same moment and only the last is open, while passes do not overlap;  *)
(* and a pass that is not overlapped leaves one session open at most (PeerSessions'               *)
(* SessionsDoNotOverlap): for any number of passes and sessions, any timeout and any length of      *)
(* time.                                                                                       *)
THEOREM SessionsDoNotOverlapHolds == ScreensSpec => []SessionsDoNotOverlap
<1>1. ScreensInit => SessionsInv BY InitSessions DEF ScreensInit
<1>2. SessionsInv /\ [ScreensNext]_screensVars => SessionsInv' BY ScreensMove, SessionsStay
<1>3. SessionsInv => SessionsDoNotOverlap
  <2> SUFFICES ASSUME SessionsInv PROVE SessionsDoNotOverlap OBVIOUS
  <2>1. psMerged => Ongoing(psRows) <= 1
    <3> DEFINE open == {i \in DOMAIN psRows : Status(psRows[i]) = "ongoing"}
    <3>1. open = OpenRows BY DEF OpenRows, Status
    <3>2. ASSUME psMerged PROVE open = {} \/ \E i : open = {i}
      BY <3>1, <3>2 DEF SessionsInv, MergedInv
    <3>3. Ongoing(psRows) = Cardinality(open) BY DEF Ongoing
    <3> HIDE DEF open
    <3>4. Cardinality({}) = 0 BY FS_EmptySet
    <3>5. \A i : Cardinality({i}) = 1 BY FS_Singleton, Zenon
    <3>6. psMerged => Ongoing(psRows) = 0 \/ Ongoing(psRows) = 1 BY <3>2, <3>3, <3>4, <3>5, Zenon
    <3> QED BY <3>6
  <2>2. psTrusted => \A i, j \in DOMAIN psRows : i < j => psRows[i].to # Null /\ psRows[i].to <= psRows[j].from
    BY DEF SessionsInv, TrustedInv, RowsInOrder
  <2> QED BY <2>1, <2>2 DEF SessionsDoNotOverlap
<1> QED BY <1>1, <1>2, <1>3, PTL DEF ScreensSpec

(* A session that has ended ended after it began.                                            *)
EndsAfterItBegins ==
    psTrusted => \A i \in DOMAIN psRows : psRows[i].to # Null => psRows[i].from <= psRows[i].to

(* What was last listed is a list of sessions.                                               *)
HistoryTypeOK == psData # Null => psData \in Seq(Session)

LEMMA NewestIsFirst ==
  ASSUME NEW rows \in Seq(Session)
  PROVE  /\ Newest(rows) \in Seq(Session) /\ Len(Newest(rows)) = Len(rows)
         /\ rows # <<>> => /\ \E i \in DOMAIN rows : Newest(rows)[1] = rows[i]
                           /\ \A i \in DOMAIN rows : rows[i].from <= Newest(rows)[1].from
<1> DEFINE S == DOMAIN rows
           less == {p \in {<<i, j>> : i, j \in S} : rows[p[1]].from > rows[p[2]].from}
           key == [i \in S |-> -rows[i].from]
           order == StableSort(S, less)
           n == Len(rows)
<1>1. n \in Nat /\ S = 1 .. n OBVIOUS
<1>2. IsFiniteSet(S) /\ Cardinality(S) = n
  <2>1. 1 \in Int /\ n \in Int /\ (IF 1 > n THEN 0 ELSE n - 1 + 1) = n BY <1>1
  <2> HIDE DEF n, S
  <2> QED BY <1>1, <2>1, FS_Interval
<1>3. \A i \in S : rows[i] \in Session /\ rows[i].from \in Int
  <2> TAKE i \in S
  <2>1. rows[i] \in Session OBVIOUS
  <2> QED BY <2>1 DEF Session
<1>4. \A i, j \in S : <<i, j>> \in less <=> rows[i].from > rows[j].from OBVIOUS
<1>5. Newest(rows) = [k \in S |-> rows[order[k]]] BY DEF Newest
<1> HIDE DEF less, S
<1>6. \A i \in S : key[i] = -rows[i].from OBVIOUS
<1>7. Compares(S, less, key)
  <2>1. key \in [S -> Int] BY <1>3
  <2>2. S \subseteq Int BY <1>1
  <2> HIDE DEF key
  <2>3. \A i, j \in S : <<i, j>> \in less <=> key[i] < key[j]
    <3> TAKE i \in S, j \in S
    <3>1. rows[i].from \in Int /\ rows[j].from \in Int BY <1>3
    <3>2. key[i] < key[j] <=> rows[i].from > rows[j].from BY <1>6, <3>1
    <3> QED BY <3>2, <1>4
  <2> QED BY <2>1, <2>2, <2>3 DEF Compares
<1> HIDE DEF key, n, order
<1>8. /\ order \in [1 .. n -> S]
      /\ \A i \in S : \E k \in 1 .. n : order[k] = i
      /\ \A k, m \in 1 .. n : k < m => key[order[k]] <= key[order[m]]
  <2>1. /\ order \in [1 .. Cardinality(S) -> S]
        /\ \A i \in S : \E k \in 1 .. Cardinality(S) : order[k] = i
        /\ \A k, m \in 1 .. Cardinality(S) : k < m => key[order[k]] <= key[order[m]]
    BY <1>2, <1>7, StableSortSorts, Zenon DEF order
  <2> QED BY <1>2, <2>1, Zenon
<1>9. Newest(rows) \in [1 .. n -> Session] BY <1>1, <1>3, <1>5, <1>8
<1>10. Newest(rows) \in Seq(Session) /\ Len(Newest(rows)) = n BY <1>1, <1>9, LengthOfFunction
<1>11. ASSUME rows # <<>>
       PROVE  /\ \E i \in S : Newest(rows)[1] = rows[i]
              /\ \A i \in S : rows[i].from <= Newest(rows)[1].from
  <2>1. 1 \in 1 .. n BY <1>1, <1>11 DEF n
  <2>2. order[1] \in S /\ Newest(rows)[1] = rows[order[1]] BY <1>1, <1>5, <1>8, <2>1
  <2>3. ASSUME NEW i \in S PROVE rows[i].from <= rows[order[1]].from
    <3>1. PICK k \in 1 .. n : order[k] = i BY <1>8
    <3>2. k = 1 \/ 1 < k BY <1>1
    <3>3. k = 1 \/ key[order[1]] <= key[i] BY <1>8, <2>1, <3>1, <3>2
    <3>4. rows[i].from \in Int /\ rows[order[1]].from \in Int BY <1>3, <2>2
    <3>5. k = 1 => rows[i].from <= rows[order[1]].from BY <3>1, <3>4
    <3>6. key[order[1]] <= key[i] => rows[i].from <= rows[order[1]].from
      BY <1>6, <2>2, <3>4
    <3> QED BY <3>3, <3>5, <3>6
  <2> QED BY <2>2, <2>3
<1> QED BY <1>10, <1>11 DEF n, S

(* The first of the history is the first of all.                                             *)
LEMMA HistoryBeginsWithNewest ==
  ASSUME psRows \in Seq(Session)
  PROVE  /\ History \in Seq(Session)
         /\ psRows # <<>> => History[1] = Newest(psRows)[1]
<1> DEFINE last == Min({HistoryLimit, Len(psRows)})
           newest == Newest(psRows)
<1>1. newest \in Seq(Session) /\ Len(newest) = Len(psRows) BY NewestIsFirst
<1>2. HistoryLimit \in Nat /\ HistoryLimit > 0 /\ Len(psRows) \in Nat BY SessionsAssumption
<1>3. last = IF HistoryLimit <= Len(psRows) THEN HistoryLimit ELSE Len(psRows)
  BY <1>2 DEF Min
<1> HIDE DEF last, newest
<1>4. History = SubSeq(newest, 1, last) BY DEF History, last, newest
<1>5. last \in Nat /\ last <= Len(newest) BY <1>1, <1>2, <1>3
<1>6. History \in Seq(Session) BY <1>1, <1>4, <1>5
<1>7. psRows # <<>> => last >= 1 BY <1>2, <1>3
<1> QED BY <1>1, <1>4, <1>5, <1>6, <1>7 DEF newest

LEMMA ListingShowsOngoing ==
  ASSUME SessionsInv, EndsAfterItBegins, GetPeerSessions, psTrusted, Ongoing(psRows) > 0
  PROVE  \E i \in DOMAIN psRows : psRows[i].to = Null /\ psData'[1].from = psRows[i].from
<1>1. psRows \in Seq(Session) BY DEF SessionsInv, SessionsTypeOK
<1>2. PICK i \in DOMAIN psRows : psRows[i].to = Null
  <2> DEFINE ongoing == {i \in DOMAIN psRows : Status(psRows[i]) = "ongoing"}
  <2>1. Cardinality(ongoing) > 0 BY DEF Ongoing
  <2>2. Cardinality({}) = 0 BY FS_EmptySet
  <2> HIDE DEF ongoing
  <2>3. ongoing # {} BY <2>1, <2>2
  <2> QED BY <2>3 DEF ongoing, Status
<1>3. \A j \in DOMAIN psRows : psRows[j].from \in Int /\ psRows[j].to \in Int \cup {Null}
  <2> TAKE j \in DOMAIN psRows
  <2>1. psRows[j] \in Session BY <1>1
  <2> QED BY <2>1 DEF Session
<1>4. ASSUME NEW j \in DOMAIN psRows PROVE psRows[j].from <= psRows[i].from
  <2>1. RowsInOrder BY DEF SessionsInv, TrustedInv
  <2>2. i < j => FALSE BY <1>2, <2>1 DEF RowsInOrder
  <2>3. j < i => psRows[j].to # Null /\ psRows[j].to <= psRows[i].from BY <2>1 DEF RowsInOrder
  <2>4. psRows[j].to # Null => psRows[j].from <= psRows[j].to BY DEF EndsAfterItBegins
  <2>5. i \in Int /\ j \in Int BY <1>1
  <2>6. CASE j < i
    <3>1. psRows[j].from \in Int /\ psRows[j].to \in Int /\ psRows[i].from \in Int BY <1>3, <2>3, <2>6
    <3> QED BY <2>3, <2>4, <2>6, <3>1
  <2>7. CASE j = i BY <1>3, <2>7
  <2> QED BY <2>2, <2>5, <2>6, <2>7
<1>5. psRows # <<>> BY <1>1
<1>6. psData'[1] = Newest(psRows)[1]
  BY <1>1, <1>5, HistoryBeginsWithNewest DEF GetPeerSessions
<1>7. PICK j \in DOMAIN psRows : Newest(psRows)[1] = psRows[j] BY <1>1, <1>5, NewestIsFirst
<1>8. psRows[i].from <= psRows[j].from BY <1>1, <1>5, <1>7, NewestIsFirst
<1>9. psRows[j].from = psRows[i].from BY <1>3, <1>4, <1>8
<1> QED BY <1>2, <1>6, <1>7, <1>9

(* Days, hours, minutes and seconds that are in range and add up.                            *)
LEMMA PartsAgree ==
  ASSUME NEW d \in Int, NEW h \in Int, NEW hours \in Int, NEW m \in Int, NEW minutes \in Int, NEW s \in Int,
         NEW inDay \in Int, NEW offHour \in Int, NEW inHour \in Int, NEW offMinute \in Int,
         0 <= inDay, inDay < 86400, 0 <= offHour, offHour < 3600, 0 <= inHour, inHour < 3600,
         0 <= offMinute, offMinute < 60, 0 <= s, s < 60,
         86400 * d + inDay = 3600 * hours + inHour, 3600 * hours + inHour = 60 * minutes + s,
         inDay = 3600 * h + offHour, inHour = 60 * m + offMinute
  PROVE  h < 24 /\ m < 60 /\ 86400 * d + 3600 * h + 60 * m + s = 86400 * d + inDay
<1> DEFINE k == 24 * d + h - hours
           l == 60 * hours + m - minutes
<1>1. k \in Int /\ 3600 * k = inHour - offHour BY SMT
<1>2. l \in Int /\ 60 * l = s - offMinute BY SMT
<1> HIDE DEF k, l
<1>3. k = 0 /\ l = 0 BY <1>1, <1>2, SMT
<1>4. offHour = inHour /\ offMinute = s BY <1>1, <1>2, <1>3, SMT
<1> QED BY <1>4, SMT

LEMMA DurationParts ==
  ASSUME NEW seconds \in Nat
  PROVE  LET shown == formatDuration(seconds) IN
         /\ shown.h < 24 /\ shown.m < 60 /\ shown.s < 60
         /\ 86400 * shown.d + 3600 * shown.h + 60 * shown.m + shown.s = seconds
<1> DEFINE d == seconds \div 86400
           inDay == seconds % 86400
           hours == seconds \div 3600
           inHour == seconds % 3600
           minutes == seconds \div 60
           s == seconds % 60
           h == inDay \div 3600
           offHour == inDay % 3600
           m == inHour \div 60
           offMinute == inHour % 60
<1>1. d \in Int /\ inDay \in Nat /\ inDay < 86400 /\ seconds = 86400 * d + inDay BY SMT
<1>2. hours \in Int /\ inHour \in Nat /\ inHour < 3600 /\ seconds = 3600 * hours + inHour BY SMT
<1>3. minutes \in Int /\ s \in Nat /\ s < 60 /\ seconds = 60 * minutes + s BY SMT
<1>4. h \in Int /\ offHour \in Nat /\ offHour < 3600 /\ inDay = 3600 * h + offHour
  <2> HIDE DEF inDay
  <2> QED BY <1>1, SMT
<1>5. m \in Int /\ offMinute \in Nat /\ offMinute < 60 /\ inHour = 60 * m + offMinute
  <2> HIDE DEF inHour
  <2> QED BY <1>2, SMT
<1>6. formatDuration(seconds) = [d |-> d, h |-> h, m |-> m, s |-> s] BY DEF formatDuration
<1> HIDE DEF d, inDay, hours, inHour, minutes, s, h, offHour, m, offMinute
<1>7. h < 24 /\ m < 60 /\ 86400 * d + 3600 * h + 60 * m + s = 86400 * d + inDay
  <2>1. /\ 0 <= inDay /\ 0 <= offHour /\ 0 <= inHour /\ 0 <= offMinute /\ 0 <= s
        /\ inDay \in Int /\ offHour \in Int /\ inHour \in Int /\ offMinute \in Int /\ s \in Int
        /\ 86400 * d + inDay = 3600 * hours + inHour /\ 3600 * hours + inHour = 60 * minutes + s
    BY <1>1, <1>2, <1>3, <1>4, <1>5, SMT
  <2> QED BY <1>1, <1>2, <1>3, <1>4, <1>5, <2>1, PartsAgree, SMT
<1> QED BY <1>1, <1>3, <1>6, <1>7, SMT

LEMMA DurationsAddUp ==
  ASSUME SessionsTypeOK, HistoryTypeOK
  PROVE  DurationAddsUp
<1>1. \A i \in DOMAIN ShownSessions : ShownSessions[i] \in Session
  BY DEF HistoryTypeOK, ShownSessions
<1>2. ASSUME NEW session \in Session PROVE sessionSeconds(session) \in Nat
  <2> DEFINE end == IF session.to = Null THEN psClock ELSE session.to
  <2>1. end \in Int /\ session.from \in Int BY DEF Session, SessionsTypeOK
  <2>2. sessionSeconds(session) = IF end < session.from THEN 0 ELSE (end - session.from) * TickSeconds
    BY DEF sessionSeconds
  <2> HIDE DEF end
  <2>3. ~(end < session.from) => end - session.from \in Nat BY <2>1
  <2>4. \A m, n \in Nat : m * n \in Nat OBVIOUS
  <2>5. ~(end < session.from) => (end - session.from) * TickSeconds \in Nat
    BY <2>3, <2>4, SessionsAssumption
  <2> QED BY <2>2, <2>5
<1> QED BY <1>1, <1>2, DurationParts DEF DurationAddsUp

LEMMA HistoryStays ==
  ASSUME SessionsInv, HistoryTypeOK, [PSNext]_psVars
  PROVE  HistoryTypeOK'
<1>1. CASE GetPeerSessions
  <2>1. psRows \in Seq(Session) BY DEF SessionsInv, SessionsTypeOK
  <2> QED BY <1>1, <2>1, HistoryBeginsWithNewest DEF GetPeerSessions, HistoryTypeOK
<1>2. CASE PollFailed \/ SessionsToggled \/ UNCHANGED psVars
  BY <1>2 DEF PollFailed, SessionsToggled, psVars, dialogVars, HistoryTypeOK
<1>3. CASE JobNext
  BY <1>3 DEF JobNext, Tick, Handshake, SwitchPeer, TrackPeerSessions, syncPeerSession, SyncFailed,
              dialogVars, HistoryTypeOK
<1> QED BY <1>1, <1>2, <1>3 DEF PSNext, DialogNext

(* A pass ends a session at a moment after it began: now, or the estimate, which is no        *)
(* earlier than the beginning.                                                               *)
LEMMA EndingKeepsForward ==
  ASSUME SessionsInv, EndsAfterItBegins, psTrusted,
         NEW k \in SessionPass, psPass[k] # Null,
         NEW newest, NEW failed, psRows' = EndSessions(psPass[k], newest, failed)
  PROVE  \A i \in DOMAIN psRows' : psRows'[i].to # Null => psRows'[i].from <= psRows'[i].to
<1> DEFINE obs == psPass[k]
<1>1. obs \in Observation BY DEF SessionsInv, SessionsTypeOK
<1>2. obs.now \in Int /\ obs.age \in Int BY <1>1 DEF Observation
<1>3. \A i \in DOMAIN psRows : psRows[i].from <= obs.now
  BY DEF SessionsInv, TrustedInv, ObservedInOrder
<1>4. psRows \in Seq(Session) BY DEF SessionsInv, SessionsTypeOK
<1> HIDE DEF obs
<1>5. psRows' = EndSessions(obs, newest, failed) BY DEF obs
<1> SUFFICES ASSUME NEW i \in DOMAIN psRows', psRows'[i].to # Null
             PROVE  psRows'[i].from <= psRows'[i].to
  OBVIOUS
<1>6. i \in DOMAIN psRows BY <1>5 DEF EndSessions
<1>7. psRows[i] \in Session /\ psRows[i].from \in Int
  <2>1. psRows[i] \in Session BY <1>4, <1>6
  <2> QED BY <2>1 DEF Session
<1> DEFINE end == Ends(obs, i, newest)
<1>8. CASE i \in obs.opens \ failed /\ end # Null
  <2>1. psRows'[i] = [psRows[i] EXCEPT !.to = end] BY <1>5, <1>6, <1>8 DEF EndSessions
  <2>2. end = obs.now \/ end = estimateDisconnectAt(obs, psRows[i].from) BY <1>8 DEF Ends
  <2>3. psRows[i].from <= estimateDisconnectAt(obs, psRows[i].from)
    BY <1>2, <1>7, SessionsAssumption DEF estimateDisconnectAt
  <2>4. psRows[i].from <= end BY <1>3, <1>6, <2>2, <2>3
  <2> HIDE DEF end
  <2>5. psRows'[i].from = psRows[i].from /\ psRows'[i].to = end BY <1>7, <2>1 DEF Session
  <2> QED BY <2>4, <2>5
<1>9. CASE ~(i \in obs.opens \ failed /\ end # Null)
  <2>1. psRows'[i] = psRows[i] BY <1>5, <1>6, <1>9 DEF EndSessions
  <2> QED BY <1>6, <2>1 DEF EndsAfterItBegins
<1> QED BY <1>8, <1>9

LEMMA ForwardStays ==
  ASSUME SessionsInv, EndsAfterItBegins, [PSNext]_psVars
  PROVE  EndsAfterItBegins'
<1>1. ASSUME psTrusted' PROVE psTrusted
  BY <1>1 DEF PSNext, JobNext, DialogNext, Tick, Handshake, SwitchPeer, TrackPeerSessions,
     syncPeerSession, SyncFailed, GetPeerSessions, PollFailed, SessionsToggled, serverVars, psVars,
     SessionsInv, SessionsTypeOK
<1>2. ASSUME NEW k \in SessionPass, syncPeerSession(k), psTrusted
      PROVE  EndsAfterItBegins'
  <2>1. psPass[k] # Null BY <1>2 DEF syncPeerSession
  <2>2. psRows \in Seq(Session) BY DEF SessionsInv, SessionsTypeOK
  <2>3. CASE psRows' = psRows BY <1>2, <2>3 DEF EndsAfterItBegins
  <2>4. ASSUME NEW from, psRows' = Append(psRows, [from |-> from, to |-> Null])
        PROVE  EndsAfterItBegins'
    <3>1. \A i \in DOMAIN psRows' : psRows'[i] = [from |-> from, to |-> Null] \/ (i \in DOMAIN psRows /\ psRows'[i] = psRows[i])
      BY <2>2, <2>4
    <3> QED BY <1>2, <3>1 DEF EndsAfterItBegins
  <2>5. ASSUME NEW newest, NEW failed, psRows' = EndSessions(psPass[k], newest, failed)
        PROVE  EndsAfterItBegins'
    BY <1>2, <2>1, <2>5, EndingKeepsForward DEF EndsAfterItBegins
  <2> QED BY <1>2, <2>3, <2>4, <2>5 DEF syncPeerSession
<1>3. CASE psRows' = psRows BY <1>1, <1>3 DEF EndsAfterItBegins
<1>4. psRows' = psRows \/ \E k \in SessionPass : syncPeerSession(k)
  BY DEF PSNext, JobNext, DialogNext, Tick, Handshake, SwitchPeer, TrackPeerSessions,
     SyncFailed, GetPeerSessions, PollFailed, SessionsToggled, serverVars, psVars
<1> QED BY <1>1, <1>2, <1>3, <1>4 DEF EndsAfterItBegins

(* The session that goes on is at the top of the history, whatever its limit, or one that     *)
(* began in the same second; and durations add up (Screens' HistoryIsRight): for any number    *)
(* of sessions and any length of time.                                                       *)
THEOREM HistoryIsRightHolds == ScreensSpec => HistoryIsRight
<1> DEFINE Inv == SessionsInv /\ EndsAfterItBegins /\ HistoryTypeOK
<1>1. ScreensInit => Inv
  <2> SUFFICES ASSUME ScreensInit PROVE Inv OBVIOUS
  <2>1. PSInit BY DEF ScreensInit
  <2>2. SessionsInv BY <2>1, InitSessions
  <2>3. EndsAfterItBegins /\ HistoryTypeOK BY <2>1 DEF PSInit, EndsAfterItBegins, HistoryTypeOK
  <2> QED BY <2>2, <2>3
<1>2. Inv /\ [ScreensNext]_screensVars => Inv' BY ScreensMove, SessionsStay, ForwardStays, HistoryStays
<1>3. Inv /\ [ScreensNext]_screensVars
        => [GetPeerSessions /\ psTrusted /\ Ongoing(psRows) > 0
             => \E i \in DOMAIN psRows : psRows[i].to = Null /\ psData'[1].from = psRows[i].from]_psVars
  BY ListingShowsOngoing
<1>4. Inv => DurationAddsUp BY DurationsAddUp DEF SessionsInv
<1> QED BY <1>1, <1>2, <1>3, <1>4, PTL DEF ScreensSpec, HistoryIsRight, OngoingIsListed
=============================================================================
