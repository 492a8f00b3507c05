---------------------------- MODULE MCAdjudication ----------------------------
(***************************************************************************)
(* Small tables for Adjudication: three countries in a fixed order, one    *)
(* demographic each and two kits.  A cheap kit resolves on the LOW row of  *)
(* the ERT; the costly one has a component cost, a pair bonus that lifts   *)
(* it to the MEDIUM row and the coalition card.                            *)
(***************************************************************************)
EXTENDS Adjudication

MCOrder  == <<"arden", "dinesia", "fluma">>
MCRegime == [arden |-> "ARDEN", dinesia |-> "DINESIA", fluma |-> "FLUMA"]
MCHomeOf == [coast |-> "ARDEN", delta |-> "DINESIA", shore |-> "FLUMA"]

MCKitOf ==
  [cheap  |-> [alignment |-> "MALIGN", cv |-> 4, pair |-> 0, extra |-> 0,
               coalition |-> FALSE, reach |-> {"coast", "delta"}],
   costly |-> [alignment |-> "RESILIENCY", cv |-> 6, pair |-> 2, extra |-> 1,
               coalition |-> TRUE, reach |-> {"coast"}]]

Construct(k)        == [type |-> "CONSTRUCT", kit |-> k]
Activate(p, pd, c)  == [type |-> "ACTIVATE", of |-> p, pd |-> pd, core |-> c]
Boost(p, s)         == [type |-> "BOOST", of |-> p, seq |-> s]
Double(p, pd)       == [type |-> "DOUBLE", of |-> p, pd |-> pd, core |-> FALSE]
UseAbility          == [type |-> "REGIME"]

\* Every kind of slot; some of these plans cannot be carried out.
AllPlans ==
  [arden |-> {<<Construct("cheap"), Boost("arden", 3), Activate("arden", "coast", FALSE)>>,
              <<Construct("cheap"), Activate("arden", "coast", TRUE), Double("arden", "coast")>>,
              <<UseAbility, Construct("costly"), Activate("arden", "coast", FALSE)>>},
   dinesia |-> {<<UseAbility>>,
                <<Construct("costly"), Activate("dinesia", "coast", FALSE)>>},
   fluma |-> {<<>>, <<UseAbility, Construct("cheap")>>}]

\* Plans the engine can carry out when nobody interferes.
SoundPlans ==
  [arden |-> {<<>>, <<UseAbility>>,
              <<Construct("costly"), Boost("arden", 3), Activate("arden", "coast", FALSE)>>},
   dinesia |-> {<<UseAbility>>,
                <<Construct("cheap"), Activate("dinesia", "coast", FALSE)>>},
   fluma |-> {<<UseAbility>>, <<Construct("cheap"), Activate("fluma", "coast", TRUE)>>}]

\* FLUMA moves first and its neighbour pays with a core modifier.
FlumaOrder == <<"fluma", "arden", "dinesia">>

NoCubes == [t \in Types |-> [p \in {"arden", "dinesia", "fluma"} |-> 0]]

\* Resilient cubes of two players on the coast, so that removing one is a
\* choice, and a malign cube for the ARDEN regime.
Mixed == [MALIGN |-> [NoCubes["MALIGN"] EXCEPT !["fluma"] = 1],
          RESILIENCY |-> [NoCubes["RESILIENCY"] EXCEPT !["arden"] = 1, !["dinesia"] = 1]]

Table(manual, wealth, cubes, holder) ==
  [manual |-> manual,
   resources |-> [p \in {"arden", "dinesia", "fluma"} |-> wealth],
   influence |-> [coast |-> cubes, delta |-> NoCubes, shore |-> NoCubes],
   legitimacy |-> [coast |-> holder, delta |-> NoHolder, shore |-> NoHolder],
   aged |-> [p \in {"arden", "dinesia", "fluma"} |-> "NONE"]]

MCOpenings ==
  {Table(TRUE, 4, Mixed, "dinesia"), Table(FALSE, 3, Mixed, NoHolder),
   [Table(FALSE, 1, NoCubes, NoHolder) EXCEPT
      !.aged["fluma"] = "costly", !.legitimacy = [pd \in PDs |-> "dinesia"]]}

\* Tables on which nobody starts with a campaign.
FreshOpenings ==
  {Table(TRUE, 4, Mixed, "dinesia"), Table(FALSE, 3, Mixed, NoHolder)}
===============================================================================
