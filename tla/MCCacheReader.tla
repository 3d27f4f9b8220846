---------------------------- MODULE MCCacheReader ----------------------------
(* CacheReader with two clusters; the options cover every branch of List.  *)
EXTENDS ScopedReader, TLC

CONSTANT v1

Requires(f, e, v) == [field |-> f, exact |-> e, value |-> v]

Lists(n, l, s, m) ==
  [op |-> "list", namespace |-> n, label |-> l, fields |-> s, continue |-> FALSE, limit |-> m]

Plain == {Lists(n, l, Nil, m) : n \in AnyNamespace, l \in {v1, Nil}, m \in 0..2}

BySelector ==
  UNION {{Lists(n, Nil, s, 0) :
            s \in {<<>>,
                   <<Requires(f, TRUE, v1)>>,
                   <<Requires(<<"cluster/", f>>, TRUE, v1)>>,
                   <<Requires(<<"cluster/", f>>, TRUE, v1), Requires(f, TRUE, v1)>>,
                   <<Requires(f, TRUE, v1), Requires(f, FALSE, v1)>>}} :
           f \in Field, n \in AnyNamespace}

Continued == {[Lists(NoNamespace, Nil, Nil, 0) EXCEPT !.continue = TRUE]}

SymmetricNamespaces == Permutations(Namespace)

MCQueries == Plain \cup BySelector \cup Continued

=============================================================================
