---------------------------- MODULE MCAgentPool -----------------------------
(***************************************************************************)
(* Owners of miners, repositories of commits and cooldowns to check with.  *)
(***************************************************************************)
EXTENDS AgentPool, TLC

CONSTANTS a, b, c, k, l, x, y, r, s

\* Three miners of two owners.
MCOwners == (a :> k) @@ (b :> k) @@ (c :> l)
MCRepos == (x :> r) @@ (y :> s)

\* Without a cooldown, as it is by default, and with one.
MCCooldowns == {[min |-> 0, max |-> 0], [min |-> 2, max |-> 3]}

\* The miners of one owner may be swapped, and the commits with their
\* repositories.
MCSymmetry ==
    {p @@ q : p \in Permutations({a, b}),
              q \in {x :> x @@ y :> y @@ r :> r @@ s :> s,
                     x :> y @@ y :> x @@ r :> s @@ s :> r}}
=============================================================================
