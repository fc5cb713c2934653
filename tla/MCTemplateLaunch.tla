-------------------------- MODULE MCTemplateLaunch --------------------------
(* Two launches; five templates: three versions of a, one of which is newer as *)
(* a number and older as a text, one whose id is the name of a, and one of the  *)
(* same name as a.                                                              *)
EXTENDS TemplateLaunch, TLC
Symmetry == Permutations(Launches)
T(i, n, v, p, r, u) ==
    [id |-> i, name |-> n, version |-> v, parts |-> p, required |-> r, used |-> u, typed |-> r]
\* The words of a version are numbered: -1 for ".".
MCTemplates ==
    {T("a", "n", "9", <<9>>, {}, {}), T("a", "n", "10", <<10>>, {"p"}, {"p"}),
     T("a", "n", "10.1", <<10, -1, 1>>, {}, {"user_id"}), T("n", "m", "1", <<1>>, {}, {}),
     T("b", "n", "1", <<1>>, {}, {})}
MCRank == [v \in {"1", "9", "10", "10.1"} |->
              CASE v = "1" -> 1 [] v = "9" -> 9 [] v = "10" -> 10 [] v = "10.1" -> 11]
R(c, ref, v, g, m, f) ==
    [caller |-> c, reference |-> ref, version |-> v, given |-> g, mistyped |-> m, fault |-> f]
MCRequests ==
    {R("api", "a", "", {"p"}, {}, ""), R("api", "n", "10", {"p"}, {"p"}, ""),
     R("api", "n", "10", {}, {}, ""), R("api", "a", "", {"p"}, {}, "input"),
     R("api", "a", "9", {}, {}, "binding"),
     R("pipeline", "n", "", {"p"}, {}, ""), R("pipeline", "a", "10", {"p"}, {}, ""),
     R("client", "n", "", {"p"}, {}, ""), R("client", "a", "", {}, {}, "")}
MCAdded == [c \in Callers |-> CASE c = "api" -> {} [] c = "pipeline" -> {"user_id"}
                                [] c = "client" -> {"client_id"}]
\* The hypothesis of RunsWhatItFoundAlways.
ASSUME VersionsAssumption == KeysRank
=============================================================================
