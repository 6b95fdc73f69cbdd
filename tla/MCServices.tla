----------------------------- MODULE MCServices -----------------------------
(***************************************************************************)
(* Small instances, for TLC, of seven parts of the server that share no    *)
(* state: a behaviour is one of one part, and the others rest.             *)
(***************************************************************************)
EXTENDS EventLifecycle, Accounts, Guards, Presence, Delivery, Reports, Catalogue

VARIABLE part

lifecyclePart == part = "lifecycle" /\ Next
                    /\ UNCHANGED <<accountVars, guardVars, presenceVars, deliveryVars,
                                   reportVars, catalogueVars>>
accountsPart  == part = "accounts" /\ AccountsNext
                    /\ UNCHANGED <<vars, guardVars, presenceVars, deliveryVars, reportVars,
                                   catalogueVars>>
guardsPart    == part = "guards" /\ GuardsNext
                    /\ UNCHANGED <<vars, accountVars, presenceVars, deliveryVars, reportVars,
                                   catalogueVars>>
presencePart  == part = "presence" /\ PresenceNext
                    /\ UNCHANGED <<vars, accountVars, guardVars, deliveryVars, reportVars,
                                   catalogueVars>>
deliveryPart  == part = "delivery" /\ DeliveryNext
                    /\ UNCHANGED <<vars, accountVars, guardVars, presenceVars, reportVars,
                                   catalogueVars>>
reportsPart   == part = "reports" /\ ReportsNext
                    /\ UNCHANGED <<vars, accountVars, guardVars, presenceVars, deliveryVars,
                                   catalogueVars>>
cataloguePart == part = "catalogue" /\ CatalogueNext
                    /\ UNCHANGED <<vars, accountVars, guardVars, presenceVars, deliveryVars,
                                   reportVars>>

\* What rests starts in one state only.
AnyVersion == CHOOSE v \in Versions : TRUE

ServicesInit ==
    /\ part \in {"lifecycle", "accounts", "guards", "presence", "delivery", "reports",
                 "catalogue"}
    /\ Init /\ AccountsInit /\ GuardsInit /\ PresenceInit /\ DeliveryInit /\ ReportsInit
    /\ CatalogueInit
    /\ part # "lifecycle" => row.core = AnyVersion /\ \A r \in Requests : change[r].to = AnyVersion

ServicesNext ==
    /\ part' = part
    /\ \/ lifecyclePart \/ accountsPart \/ guardsPart \/ presencePart \/ deliveryPart
       \/ reportsPart \/ cataloguePart

ServicesVars == <<part, vars, accountVars, guardVars, presenceVars, deliveryVars, reportVars,
                  catalogueVars>>

ServicesSpec ==
    ServicesInit /\ [][ServicesNext]_ServicesVars /\ AccountsFairness /\ DeliveryFairness

\* Every variable has its type.
ServicesTypeOK ==
    /\ TypeOK /\ AccountsTypeOK /\ GuardsTypeOK /\ PresenceTypeOK /\ DeliveryTypeOK
    /\ ReportsTypeOK /\ CatalogueTypeOK

\* Sockets <<visitor, namespace, n>>: two users who logged in, one of them with
\* two tabs, and one who registered.
ThreeVisitors == [u \in Visitors |-> IF u = "c" THEN "register" ELSE "login"]
SocketOwner == [s \in Sockets |-> s[1]]
SocketSpace == [s \in Sockets |-> s[2]]
FourSockets == {<<"a", "waiting-room", 1>>, <<"a", "waiting-room", 2>>,
                <<"b", "waiting-room", 1>>, <<"c", "payment-events", 1>>}

\* Two orders of one type, for a ticket each.
SameLine == [s \in Sales |-> "t1"]
OneTicket == [s \in Sales |-> 1]
AtTen == [t \in Lines |-> 10]
=============================================================================
