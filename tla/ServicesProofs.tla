--------------------------- MODULE ServicesProofs ---------------------------
(***************************************************************************)
(* The parts side by side, as the small instances of MCServices run them.  *)
(* Each part sees a behaviour of its own, with steps in which it rests, so *)
(* that what is proved of the parts holds when they run together.          *)
(***************************************************************************)
EXTENDS MCServices, EventLifecycleProofs, AccountsProofs, GuardsProofs, ReportsProofs, TLAPS

\* A step of the composition is one of a part, or the part rests.
LEMMA PartSteps ==
  ASSUME [ServicesNext]_ServicesVars
  PROVE  /\ [Next]_vars /\ [AccountsNext]_accountVars /\ [GuardsNext]_guardVars
         /\ [PresenceNext]_presenceVars /\ [DeliveryNext]_deliveryVars
         /\ [ReportsNext]_reportVars /\ [CatalogueNext]_catalogueVars
  <1>1. CASE UNCHANGED ServicesVars BY <1>1 DEF ServicesVars
  <1>2. CASE lifecyclePart BY <1>2 DEF lifecyclePart
  <1>3. CASE accountsPart BY <1>3 DEF accountsPart
  <1>4. CASE guardsPart BY <1>4 DEF guardsPart
  <1>5. CASE presencePart BY <1>5 DEF presencePart
  <1>6. CASE deliveryPart BY <1>6 DEF deliveryPart
  <1>7. CASE reportsPart BY <1>7 DEF reportsPart
  <1>8. CASE cataloguePart BY <1>8 DEF cataloguePart
  <1> QED BY <1>1, <1>2, <1>3, <1>4, <1>5, <1>6, <1>7, <1>8 DEF ServicesNext

\* The composition implements every part.
THEOREM ServicesImplementParts ==
  ServicesSpec => /\ Spec /\ AccountsSpec /\ GuardsSpec /\ PresenceSpec
                  /\ DeliverySpec /\ ReportsSpec /\ CatalogueSpec
  <1>1. ServicesInit => /\ Init /\ AccountsInit /\ GuardsInit /\ PresenceInit
                        /\ DeliveryInit /\ ReportsInit /\ CatalogueInit
    BY DEF ServicesInit
  <1> QED
    BY <1>1, PartSteps, PTL
    DEF ServicesSpec, Spec, AccountsSpec, GuardsSpec, PresenceSpec, DeliverySpec, ReportsSpec,
        CatalogueSpec

\* Every variable of every part keeps its type.
THEOREM ServicesTypeCorrect == ServicesSpec => []ServicesTypeOK
  <1>1. TypeInv => TypeOK BY DEF TypeInv
  <1>2. CatalogueInv => CatalogueTypeOK BY DEF CatalogueInv
  <1>3. TypeOK /\ AccountsTypeOK /\ GuardsTypeOK /\ PresenceTypeOK /\ DeliveryTypeOK
          /\ ReportsTypeOK /\ CatalogueTypeOK => ServicesTypeOK
    BY DEF ServicesTypeOK
  <1>4. GuardsInv => GuardsTypeOK BY DEF GuardsInv
  <1> QED
    BY <1>1, <1>2, <1>3, <1>4, ServicesImplementParts, LifecycleTypeCorrect, AccountsTypeCorrect,
       GuardsInductive, PresenceTypeCorrect, DeliveryTypeCorrect, ReportsTypeCorrect,
       CatalogueInductive, PTL

\* What was proved of one part holds of all of them together: every invariant
\* that holds for any number of requests, admins and tabs.
THEOREM ServicesKeepPromises ==
  ServicesSpec => [](/\ ApprovedIsApplied /\ RootOrSessions /\ ZonesOffered
                     /\ ApprovedDocsSeen
                     /\ AttemptsBounded /\ LockHolds /\ NonceBuysOnce
                     /\ ConnectionsBounded
                     /\ LostOnlyByFailures /\ TwinsOnlyByCrash
                     /\ ReportsAgree /\ DashboardNotAhead)
  BY ServicesImplementParts, ChangesAreApplied, NeverBoth, MapsOfOwnTypes, ApprovedWereSeen,
     AttemptsStayBounded, CounterUnderLock, OnePurchase, ConnectionsStayBounded,
     NothingLostEarly, TwinsAreCounted, ReportsKeepAgreeing, DashboardStaysBehind, PTL
=============================================================================
