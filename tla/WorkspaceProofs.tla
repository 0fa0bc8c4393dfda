-------------------------- MODULE WorkspaceProofs ---------------------------
(***************************************************************************)
(* What is proved of each part holds where the parts run side by side: a   *)
(* step of the whole is a step of one part and leaves the others' tables   *)
(* and pages alone, whatever the order of the parts' steps, so that each   *)
(* part does nothing it would not do alone.                                *)
(***************************************************************************)
EXTENDS MCWorkspace, BackOfficeProofs, ManagementProofs, CryptoProofs, PageProofs

LEMMA PartsMove ==
  ASSUME [Next]_vars
  PROVE  /\ [FinanceNext]_financeVars
         /\ [CardNext]_cardVars
         /\ [ManagementNext]_managementVars
         /\ [CatalogNext]_catalogVars
         /\ [WalletNext]_walletVars
         /\ [PortalNext]_portalVars
         /\ [CvvNext]_cvvVars
         /\ [CheckoutNext]_checkoutVars
         /\ [FxNext]_fxVars
         /\ [CryptoNext]_cryptoVars
         /\ [ScreensNext]_screenVars
         /\ [EditorsNext]_editorVars
         /\ [ConfirmNext]_confirmVars
         /\ [InboxNext]_inboxVars
         /\ [DeskNext]_deskVars
<1>1. CASE UNCHANGED vars
  BY <1>1 DEF vars
<1>2. CASE FinancePart
  BY <1>2 DEF FinancePart
<1>3. CASE CardPart
  BY <1>3 DEF CardPart
<1>4. CASE ManagementPart
  BY <1>4 DEF ManagementPart
<1>5. CASE CatalogPart
  BY <1>5 DEF CatalogPart
<1>6. CASE WalletPart
  BY <1>6 DEF WalletPart
<1>7. CASE PortalPart
  BY <1>7 DEF PortalPart
<1>8. CASE CvvPart
  BY <1>8 DEF CvvPart
<1>9. CASE CheckoutPart
  BY <1>9 DEF CheckoutPart
<1>10. CASE FxPart
  BY <1>10 DEF FxPart
<1>11. CASE CryptoPart
  BY <1>11 DEF CryptoPart
<1>12. CASE ScreensPart
  BY <1>12 DEF ScreensPart
<1>13. CASE EditorsPart
  BY <1>13 DEF EditorsPart
<1>14. CASE ConfirmPart
  BY <1>14 DEF ConfirmPart
<1>15. CASE InboxPart
  BY <1>15 DEF InboxPart
<1>16. CASE DeskPart
  BY <1>16 DEF DeskPart
<1> QED BY <1>1, <1>2, <1>3, <1>4, <1>5, <1>6, <1>7, <1>8, <1>9, <1>10, <1>11, <1>12, <1>13, <1>14, <1>15,
              <1>16 DEF Next

LEMMA PartsRun == Spec =>
  /\ FinanceSpec
  /\ CardSpec
  /\ ManagementSpec
  /\ CatalogSpec
  /\ WalletSpec
  /\ PortalSpec
  /\ CvvSpec
  /\ CheckoutSpec
  /\ FxSpec
  /\ CryptoSpec
  /\ ScreensInit /\ [][ScreensNext]_screenVars
  /\ EditorsInit /\ [][EditorsNext]_editorVars
  /\ ConfirmInit /\ [][ConfirmNext]_confirmVars
  /\ InboxInit /\ [][InboxNext]_inboxVars
  /\ DeskInit /\ [][DeskNext]_deskVars
<1>1. Init =>
         /\ FinanceInit
         /\ CardInit
         /\ ManagementInit
         /\ CatalogInit
         /\ WalletInit
         /\ PortalInit
         /\ CvvInit
         /\ CheckoutInit
         /\ FxInit
         /\ CryptoInit
         /\ ScreensInit
         /\ EditorsInit
         /\ ConfirmInit
         /\ InboxInit
         /\ DeskInit
  BY DEF Init, Start
<1>2. [Next]_vars =>
         /\ [FinanceNext]_financeVars
         /\ [CardNext]_cardVars
         /\ [ManagementNext]_managementVars
         /\ [CatalogNext]_catalogVars
         /\ [WalletNext]_walletVars
         /\ [PortalNext]_portalVars
         /\ [CvvNext]_cvvVars
         /\ [CheckoutNext]_checkoutVars
         /\ [FxNext]_fxVars
         /\ [CryptoNext]_cryptoVars
         /\ [ScreensNext]_screenVars
         /\ [EditorsNext]_editorVars
         /\ [ConfirmNext]_confirmVars
         /\ [InboxNext]_inboxVars
         /\ [DeskNext]_deskVars
  BY PartsMove
<1> QED BY <1>1, <1>2, PTL
        DEF Spec, FinanceSpec, CardSpec, ManagementSpec, CatalogSpec, WalletSpec, PortalSpec, CvvSpec,
            CheckoutSpec, FxSpec, CryptoSpec

(* The variables of the part that runs keep to their types.                *)
THEOREM WorkspaceTyped == Spec => []WorkspaceTypes
<1>1. /\ FinanceTypes /\ CardTypes /\ ManagementTypes /\ CatalogTypes /\ WalletTypes
      /\ PortalTypes /\ CvvTypes /\ CheckoutTypes /\ FxTypes /\ CryptoTypes
      /\ ScreensTypes /\ EditorsTypes /\ ConfirmTypes /\ InboxTypes /\ DeskTypes
      => WorkspaceTypes
  BY DEF WorkspaceTypes
<1> QED BY <1>1, PartsRun, PTL,
          FinanceTyped, CardsTyped, ManagementTypesHold, CatalogTyped, WalletTyped, PortalTyped, CvvTyped,
          CheckoutTyped, FxTyped, CryptoTyped, ScreensTyped, EditorsTyped, ConfirmTyped, InboxTyped,
          DeskTyped

(* Everything the checked run claims of the local workspace, the pages and *)
(* the crypto funds orders holds of their composition, for any constants:  *)
(* no part needs another to stand still.                                   *)
THEOREM WorkspaceHolds == Spec =>
  /\ []HoldsFit
  /\ []ExecutedAsReviewed
  /\ []DeliveredFromHolds
  /\ []RestrictedAsReviewed
  /\ []CardMoneyFits
  /\ []SessionsCurrent
  /\ []CardsAsListed
  /\ []WalletMatchesOrders
  /\ []AppliedOnce
  /\ []SecretIsKept
  /\ []OneOrderUnknown
  /\ []ReportsAreCurrent
  /\ []ConfirmedOnceAsShown
  /\ []PaidOutOnce
  /\ []NothingStranded
  /\ DecidedStays
  /\ FreezeStopsQueued
  /\ LatestLinkOnce
  /\ OpenedAsShown
  /\ ShownForward
  /\ OrderedAsShown
  /\ ShownForTheQuery
  /\ SavesOnlyWhatWasTyped
  /\ MarksWhatWasThere
  /\ FreezesAsSaid
<1> QED
    BY HoldsAlwaysFit, AlwaysExecutedAsReviewed, AlwaysDeliveredFromHolds, AlwaysRestrictedAsReviewed,
       CardMoneyAlwaysFits, SessionsStayCurrent, CardsAlwaysAsListed, WalletAlwaysMatches, AlwaysAppliedOnce,
       SecretAlwaysKept, AlwaysOneOrderUnknown, ReportsAlwaysCurrent, AlwaysConfirmedOnce, AlwaysPaidOutOnce,
       NeverStranded, DecisionsStay, FreezeAlwaysStopsQueued, AlwaysLatestLinkOnce, AlwaysOpenedAsShown,
       AlwaysShownForward, AlwaysOrderedAsShown, AlwaysForTheQuery, AlwaysSavesWhatWasTyped,
       AlwaysMarksWhatWasThere, AlwaysFreezesAsSaid, PartsRun, PTL
=============================================================================
