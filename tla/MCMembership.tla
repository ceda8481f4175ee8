---------------------------- MODULE MCMembership ----------------------------
(* Membership for TLC: node Alpha in a pool of four, and a fifth, Epsilon,  *)
(* that stewards add.                                                       *)
EXTENDS Membership, TLC

CONSTANTS Alpha, Beta, Gamma, Delta, Epsilon

Txn(by, n, ha, services, key) ==
    [by |-> by, nym |-> n, alias |-> n, ha |-> ha, services |-> services, key |-> key]
New(by, n) == Txn(by, n, n, "on", FALSE)

Founded == <<New(Alpha, Alpha), New(Beta, Beta), New(Gamma, Gamma), New(Delta, Delta)>>

\* f is a steward without a node.
Nym(by, n, role) == [by |-> by, nym |-> n, role |-> role]
FoundedNyms == [i \in 1..5 |-> Nym("trustee", <<Alpha, Beta, Gamma, Delta, "f">>[i], "steward")]

Off(n) == Txn(n, n, None, "off", FALSE)
On(n) == Txn(n, n, None, "on", FALSE)
Moved(n) == Txn(n, n, "elsewhere", None, FALSE)
Nodes(reqs) == [ledger |-> "pool", reqs |-> reqs]
Nyms(reqs) == [ledger |-> "domain", reqs |-> reqs]

Requested == {<<"x", 1>>, <<"y", 2>>}

Scene(proposals, bs, rf, rs, ms, msg, vs, rq, tk) ==
    [proposals |-> proposals, batches |-> bs, refused |-> rf, restarts |-> rs,
     missed |-> ms, msgs |-> msg, views |-> vs, reqs |-> rq, ticks |-> tk]

\* Delta leaves, comes back, moves and changes its keys, twice in a batch too.
Changes == {Nodes(<<Off(Delta)>>), Nodes(<<On(Delta)>>), Nodes(<<Moved(Delta)>>),
            Nodes(<<Off(Delta), Moved(Delta)>>), Nodes(<<Txn(Delta, Delta, None, None, TRUE)>>)}
\* Epsilon, added by two stewards, one of whom adds another node; its steward's role
\* is given and taken; updates by strangers, or by a steward whose node was reverted.
Additions == {Nodes(<<New(Epsilon, Epsilon)>>), Nodes(<<New("f", Epsilon)>>),
              Nodes(<<New("f", "g")>>),
              Nodes(<<Txn("f", Epsilon, "elsewhere", None, FALSE)>>),
              Nodes(<<New("f", Epsilon), Txn("f", Epsilon, "elsewhere", None, FALSE)>>),
              Nodes(<<Txn(Beta, Delta, None, "off", FALSE)>>),
              Nyms(<<Nym(Alpha, Epsilon, "steward")>>), Nyms(<<Nym(Beta, Epsilon, "none")>>),
              Nyms(<<Nym("x", Epsilon, "steward"), Nym(Alpha, "x", None)>>)}
Played == {Scene(Changes, 3, 0, 0, 0, 0, 1, 0, 0),
           Scene(Changes, 2, 0, 1, 1, 0, 1, 0, 0),
           Scene(Additions, 3, 1, 0, 0, 0, 1, 0, 0),
           Scene({Nodes(<<New("f", Epsilon)>>), Nodes(<<New(Epsilon, "g")>>), Nodes(<<Off(Delta)>>),
                  Nyms(<<Nym(Alpha, Epsilon, "steward")>>)},
                 1, 0, 1, 2, 0, 0, 0, 0),
           Scene({Nodes(<<Off(Delta)>>), Nodes(<<On(Delta)>>), Nodes(<<New("f", Epsilon)>>)},
                 3, 0, 0, 0, 2, 0, 0, 0),
           Scene({Nodes(<<Off(Delta)>>)}, 1, 0, 0, 0, 0, 1, 2, 3)}
=============================================================================
