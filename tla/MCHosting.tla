------------------------------ MODULE MCHosting ------------------------------
(* Small instances of what a hosted site needs: its rows, ports and names, and   *)
(* the certificates it is reached with.  A behaviour is one of the two at work;  *)
(* each sees what the other does to it as acts of its own (a form that chooses a *)
(* certificate, a certificate deleted).                                          *)
EXTENDS Sites, Certificates

VARIABLE part

partVars == <<vars, certificateVars, part>>

Form(n, h, as, http, https, c, le, us, r) ==
    [name |-> n, host |-> h, aliases |-> as, http |-> http, https |-> https, cert |-> c,
     acme |-> le, redirect |-> TRUE, pool |-> us, realm |-> r, header |-> "x", rate |-> "x"]

\* Two saves of one site with pools that overlap, a second site that shares an
\* alias and a port with it, and one refused form of each kind of reading.
MCForms ==
    {Form("a", "ha", {}, <<1>>, <<2>>, "ha", FALSE, {"u"}, "r"),
     Form("a", "ha", {"hc"}, <<1, 3, 1>>, <<>>, None, FALSE, {"u", "v"}, None),
     Form("b", "hb", {"hc"}, <<3, 4>>, <<2>>, None, TRUE, {"v"}, None)}
MCRefused ==
    {Form("b", "hb", {Bad}, <<1>>, <<>>, None, FALSE, {"u"}, None),
     Form("b", "hb", {}, <<2>>, <<2>>, "ha", FALSE, {"u"}, None),
     Form("b", "hb", {}, <<5>>, <<>>, None, FALSE, {"u"}, None),
     Form("b", "hb", {}, <<1>>, <<>>, None, FALSE, {Bad}, None)}

MCSaveForms == MCForms \cup MCRefused

\* Two sites that can come to claim one name.
MCClashForms ==
    {Form("a", "ha", {"hb"}, <<1>>, <<>>, None, FALSE, {"u"}, None),
     Form("b", "hb", {}, <<1>>, <<>>, None, FALSE, {"v"}, None),
     Form("b", "hc", {}, <<1>>, <<>>, None, FALSE, {"v"}, None)}

MCAllForms == MCSaveForms \cup MCClashForms

\* Only administrators are interchangeable.  The liveness property is of a
\* certificate, and in a behaviour of those no administrator takes a step, so the
\* states the symmetry identifies are the same state.
Symmetry == Permutations(Admins)

MCInit ==
    /\ part \in {"sites", "certificates"}
    /\ Init /\ CertificatesInit

\* Three saves; or two, a stop anywhere, and a site switched on or off.
SavesOrAStop ==
    stops' = 1 /\ saves' > 2 => \A a \in Admins : job'[a] # Idle => job'[a].form = None

MCNext ==
    \/ part = "sites" /\ Next /\ SavesOrAStop /\ UNCHANGED certificateVars
    \/ part = "certificates" /\ CertificatesNext /\ UNCHANGED vars

\* The fairness of certificates, of a behaviour that is theirs.
MCSpec ==
    /\ MCInit /\ [][MCNext /\ UNCHANGED part]_partVars
    /\ WF_certificateVars(part = "certificates" /\ Works(Renewer))
    /\ WF_certificateVars(part = "certificates" /\ Sweeps)
    /\ WF_certificateVars(part = "certificates" /\ Hour)

\* DueIsRenewed (acme.rs), where there are certificates at work.
DueAreRenewed == part = "certificates" => DueIsRenewed
=============================================================================
