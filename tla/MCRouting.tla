------------------------------ MODULE MCRouting ------------------------------
(***************************************************************************)
(* TLC instances of Routing: every snapshot of three nodes drawn from a    *)
(* set of node kinds.  PlanKinds vary what PlanSplit looks at, PickKinds   *)
(* what Pick looks at; both hold one node of each ineligible sort.         *)
(***************************************************************************)
EXTENDS Routing, TLC

Big(tag) == [base |-> "big", tag |-> tag]

Kind(models, loaded, active, mem, worker, driver) ==
  [sharing |-> TRUE, ollamaOK |-> TRUE, age |-> 0, models |-> models, loaded |-> loaded,
   active |-> active, mem |-> mem, worker |-> worker, driver |-> driver]

Copy(tag, size) == {[name |-> Big(tag), size |-> size]}

\* A node that would serve everything, if only it were eligible.
Rich == Kind(Copy("latest", 12), {Big("latest")}, 0, 40, TRUE, TRUE)
Ineligible == {[Rich EXCEPT !.sharing = FALSE], [Rich EXCEPT !.ollamaOK = FALSE],
               [Rich EXCEPT !.age = StaleAfter]}

\* Usable memory 4, 7 and 12, against models that need 10 and 15.
PlanKinds == Ineligible \cup
  {Kind(models, {}, 0, mem, worker, driver) :
     models \in {{}, Copy("latest", 8), Copy("latest", 12)},
     mem \in {5, 9, 15}, worker \in BOOLEAN, driver \in BOOLEAN}

\* "big" is listed under its bare name, with ":latest" and with another tag.
PickKinds == Ineligible \cup
  {Kind(Copy(tag, 4), loaded, active, mem, FALSE, FALSE) :
     tag \in {"", "latest", "7b"}, loaded \in {{}, {Big("latest")}},
     active \in {0, 1}, mem \in {10, 15}}

\* The states node i can be in, and the snapshots of three such nodes.
At(i, kinds) == {[id |-> i] @@ k : k \in kinds}
Views3(kinds) == At(1, kinds) \X At(2, kinds) \X At(3, kinds)

MCViews  == Views3(PlanKinds) \cup Views3(PickKinds)
MCModels == {Big("")}
=============================================================================
