------------------------------ MODULE Screens -------------------------------
(***************************************************************************)
(* The screens of the two front ends that read something for a query: the  *)
(* lists with their filters and pages, and the details with their id.      *)
(* Every change of the query starts a reading; readings are answered in    *)
(* any order, late, or not at all.  The screens differ in the hook that    *)
(* reads and in how the query is entered.                                  *)
(***************************************************************************)
EXTENDS Integers, FiniteSets

CONSTANTS
  MaxReadings, \* bound of the readings of a screen under way at once
  MaxWorld     \* bound of the versions of what is read

ASSUME ScreensAssumption == MaxReadings \in Nat \ {0} /\ MaxWorld \in Nat

VARIABLES
  screen,   \* what the screen on the page does
  query,    \* word, and page of the list
  box,      \* text in the search box
  shown,    \* the answer on the screen, or Nothing
  failed,   \* the last reading failed: an error, or a dash, is on the screen
  readings, \* readings under way; the effect that may still use one is "live"
  world     \* version of the data at the server

screenVars == <<screen, query, box, shown, failed, readings, world>>

Words == {"all", "one"}
Queries == [word: Words, page: {0, 1}]
Home == [word |-> "all", page |-> 0]
Nothing == [query |-> Home, version |-> -1]
Unread == -1

-----------------------------------------------------------------------------
(* The hooks.  keeps: which answers stay on the screen when another        *)
(* reading begins ("any", those of the "same" query, "none"); forgives:    *)
(* which readings take an error away when they begin ("all", those for     *)
(* "another" query, "none": only an answer does); rereads: readings nobody *)
(* asks for ("never", at an "interval", on a "return" to a page that is    *)
(* not reading); drops: an error takes away what is shown.                 *)
Hook(keeps, forgives, rereads) ==
  [keeps |-> keeps, forgives |-> forgives, rereads |-> rereads, drops |-> FALSE]
Dropping(hook) == [hook EXCEPT !.drops = TRUE]

ConsoleData == Hook("any", "all", "never")
DirectoryData == Hook("any", "none", "never")
FxData == Hook("none", "all", "never")
CatalogData == Hook("none", "all", "never")
CardAdminData == Hook("same", "none", "interval")
IssuingData == Hook("same", "another", "return")
RemoteData == Hook("any", "all", "never")
UnifiedData == Dropping(Hook("any", "all", "never"))
WalletData == Dropping(Hook("none", "all", "return"))
FundsData == Hook("none", "all", "return")
CaseData == Dropping(Hook("none", "all", "interval"))
LiveData == Hook("none", "none", "never")

(* search: how words get into the query ("never", from a "box" on submit,  *)
(* with every key "typed", from a "draft" that follows the query); pages:  *)
(* the list has pages.                                                     *)
Screen(hook, search, pages) == [hook |-> hook, search |-> search, pages |-> pages]

OverviewPage == Screen(ConsoleData, "never", FALSE)
ApprovalsPage == Screen(ConsoleData, "box", TRUE)
PricingPage == Screen(ConsoleData, "box", TRUE)
AuditPage == Screen(ConsoleData, "box", TRUE)
OrdersPage == Screen(ConsoleData, "box", TRUE)
OrderPage == Screen(ConsoleData, "never", FALSE)
SystemPage == Screen(ConsoleData, "never", FALSE)

Directory == Screen(DirectoryData, "box", TRUE)
ProductList == Screen(DirectoryData, "box", TRUE)
ChannelList == Screen(DirectoryData, "box", TRUE)
SourceProducts == Screen(DirectoryData, "box", TRUE)
BindingChannels == Screen(DirectoryData, "typed", FALSE)
BindingProducts == Screen(Hook("none", "none", "never"), "typed", FALSE)

TransactionList == Screen(FxData, "draft", TRUE)
ReportPage == Screen(FxData, "draft", TRUE)
TransactionDetail == Screen(FxData, "never", FALSE)
CardPage == Screen(FxData, "never", FALSE)

CatalogList == Screen(CatalogData, "typed", TRUE)
CustomerOps == Screen(CatalogData, "box", TRUE)

CardList == Screen(CardAdminData, "box", TRUE)
OperationList == Screen(CardAdminData, "never", TRUE)
CardDetail == Screen(CardAdminData, "never", TRUE)
CardTransactions == Screen(CardAdminData, "box", TRUE)
OperationDetail == Screen(CardAdminData, "never", FALSE)

RecordList == Screen(IssuingData, "never", TRUE)
OrderDetail == Screen(IssuingData, "never", FALSE)
IssuedCardDetail == Screen(IssuingData, "never", FALSE)

TestWalletPage == Screen(FxData, "never", FALSE)
ClientAccounts == Screen(FxData, "never", FALSE)
CardsHome == Screen(FxData, "never", FALSE)
SpendingTrend == Screen(FxData, "never", FALSE)
CardSummary == Screen(FxData, "never", FALSE)
SnapshotTransactions == Screen(FxData, "typed", TRUE)
SnapshotTransaction == Screen(FxData, "never", FALSE)
UnifiedDetail == Screen(FxData, "never", FALSE)
UnifiedList == Screen(UnifiedData, "box", TRUE)
WalletPage == Screen(WalletData, "never", FALSE)
ManualFundsPage == Screen(FundsData, "never", TRUE)
DepositAddressPage == Screen(FundsData, "never", TRUE)
FundRecordsList == Screen(FxData, "draft", TRUE)
OnboardingCase == Screen(CaseData, "never", FALSE)
SourceList == Screen(RemoteData, "box", TRUE)
SourceDetail == Screen(RemoteData, "never", FALSE)

FundsOverview == Screen(FxData, "never", FALSE)
BalancesPage == Screen(WalletData, "draft", TRUE)
RegisteredUsers == Screen(FxData, "draft", TRUE)
CustomerAccounts == Screen(FxData, "never", TRUE)
ProductPrices == Screen(FxData, "typed", TRUE)
UserDetails == Screen(FxData, "never", FALSE)
UserAccounts == Screen(FxData, "never", TRUE)
ChannelTransactions == Screen(FxData, "box", TRUE)
LiveDirectory == Screen(LiveData, "box", TRUE)

AllScreens ==
  {OverviewPage, ApprovalsPage, PricingPage, AuditPage, OrdersPage, OrderPage, SystemPage,
   Directory, ProductList, ChannelList, SourceProducts, BindingChannels, BindingProducts,
   TransactionList, ReportPage, TransactionDetail, CardPage, CatalogList, CustomerOps,
   CardList, OperationList, CardDetail, CardTransactions, OperationDetail,
   RecordList, OrderDetail, IssuedCardDetail,
   TestWalletPage, ClientAccounts, CardsHome, SpendingTrend, CardSummary, SnapshotTransactions,
   SnapshotTransaction, UnifiedDetail, UnifiedList, WalletPage, ManualFundsPage, DepositAddressPage,
   FundRecordsList, OnboardingCase, SourceList, SourceDetail,
   FundsOverview, BalancesPage, RegisteredUsers, CustomerAccounts, ProductPrices, UserDetails,
   UserAccounts, ChannelTransactions, LiveDirectory}

-----------------------------------------------------------------------------
Reading == \E r \in readings: r.live
Started(q) == [query |-> q, answer |-> Unread, live |-> TRUE]

(* The end of an effect takes the right to answer from its reading. *)
Silent(rs) == {[r EXCEPT !.live = FALSE]: r \in rs}

Kept(q) ==
  CASE screen.hook.keeps = "any"  -> shown
    [] screen.hook.keeps = "same" -> IF shown.query = q THEN shown ELSE Nothing
    [] OTHER                      -> Nothing

Forgiven(q) ==
  screen.hook.forgives = "all" \/ (screen.hook.forgives = "another" /\ q # query)

(* The effect of a hook: what depends on the query is read again. *)
ReadFor(q) ==
  /\ Cardinality(readings) < MaxReadings
  /\ readings' = Silent(readings) \cup {Started(q)}
  /\ shown' = Kept(q)
  /\ failed' = (failed /\ ~Forgiven(q))
  /\ UNCHANGED <<screen, world>>

(* A query equal to the present one starts no effect. *)
Ask(q) == query' = q /\ q # query /\ ReadFor(q)

Type(w) ==
  /\ screen.search \in {"box", "draft"} /\ w # box
  /\ box' = w
  /\ UNCHANGED <<screen, query, shown, failed, readings, world>>

(* The form's submit, or each key where no form is: from the first page. *)
SubmitQuery == screen.search \in {"box", "draft"} /\ Ask([word |-> box, page |-> 0]) /\ UNCHANGED box
Key(w) == screen.search = "typed" /\ Ask([word |-> w, page |-> 0]) /\ UNCHANGED box

Turn(n) == screen.pages /\ Ask([query EXCEPT !.page = n]) /\ UNCHANGED box

(* A filter, a link, or Back: only a draft follows. *)
Visit(q) == Ask(q) /\ box' = IF screen.search = "draft" THEN q.word ELSE box

(* Reading again on the reader's wish, or after something was saved. *)
Reload == ReadFor(query) /\ UNCHANGED <<query, box>>

(* Reading again without anybody's wish: nothing goes until the answer. *)
Reread ==
  /\ \/ screen.hook.rereads = "interval"
     \/ screen.hook.rereads = "return" /\ ~Reading
  /\ Cardinality(readings) < MaxReadings
  /\ readings' = Silent(readings) \cup {Started(query)}
  /\ UNCHANGED <<screen, query, box, shown, failed, world>>

AnswerReading(r) ==
  /\ r.answer = Unread
  /\ readings' = (readings \ {r}) \cup {[r EXCEPT !.answer = world]}
  /\ UNCHANGED <<screen, query, box, shown, failed, world>>

(* Mistake: every answer is shown. *)
ArriveAnyway(r) ==
  /\ r.answer # Unread /\ readings' = readings \ {r}
  /\ shown' = [query |-> r.query, version |-> r.answer] /\ failed' = FALSE
  /\ UNCHANGED <<screen, query, box, world>>

(* An answer is shown unless its effect has ended. *)
Arrive(r) ==
  /\ r.answer # Unread /\ readings' = readings \ {r}
  /\ IF r.live THEN shown' = [query |-> r.query, version |-> r.answer] /\ failed' = FALSE
               ELSE UNCHANGED <<shown, failed>>
  /\ UNCHANGED <<screen, query, box, world>>

FailReading(r) ==
  /\ readings' = readings \ {r} /\ failed' = (failed \/ r.live)
  /\ shown' = IF r.live /\ screen.hook.drops THEN Nothing ELSE shown
  /\ UNCHANGED <<screen, query, box, world>>

WorldChanges ==
  /\ world < MaxWorld /\ world' = world + 1
  /\ UNCHANGED <<screen, query, box, shown, failed, readings>>

ScreensInit ==
  /\ screen \in AllScreens /\ query = Home /\ box = "all" /\ world = 0
  /\ shown = Nothing /\ failed = FALSE /\ readings = {Started(Home)}

ScreensNext ==
  \/ \E w \in Words: Type(w) \/ Key(w)
  \/ \E n \in {0, 1}: Turn(n)
  \/ \E q \in Queries: Visit(q)
  \/ SubmitQuery \/ Reload \/ Reread \/ WorldChanges
  \/ \E r \in readings: AnswerReading(r) \/ Arrive(r) \/ FailReading(r)

AnyAnswer == [query: Queries, version: -1..MaxWorld]
AnyReading == [query: Queries, answer: -1..MaxWorld, live: BOOLEAN]

ScreensTypes ==
  /\ screen \in AllScreens /\ query \in Queries /\ box \in Words
  /\ shown \in AnyAnswer /\ failed \in BOOLEAN /\ world \in 0..MaxWorld
  /\ readings \subseteq AnyReading

-----------------------------------------------------------------------------
(* A screen that neither reads nor shows an error shows the answer to its  *)
(* present query, a screen that clears never shows another's, and what is  *)
(* shown for one query is never replaced by an older answer to it: the     *)
(* effects' flags and the request counter see to it (the hooks).           *)
ShownForTheQuery ==
  /\ []( /\ ~Reading /\ ~failed => shown # Nothing /\ shown.query = query
         /\ screen.hook.keeps # "any" /\ shown # Nothing => shown.query = query )
  /\ [][shown' # Nothing /\ shown # Nothing /\ shown'.query = shown.query
          => shown'.version >= shown.version]_screenVars
=============================================================================
