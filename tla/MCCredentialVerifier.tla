------------------------ MODULE MCCredentialVerifier ------------------------
\* One issuer per tier: beta is of tier 1, cert of tier 2; vc (listed, its header
\* names no key) and open (no status entry, signed with the key that did rotates
\* to; shown as a link before the last of a chain) are of tier 3; plain is a VC
\* whose issuer is no DID of a supported method.  beta is also shown with a request
\* that names whom to ask for its revocation.
EXTENDS CredentialVerifier

CONSTANTS web, pki, did, k, leaf, root, root2, nokid, ann, nobody, here

MCTierOf == [i \in Issuer |-> CASE i = web -> 1 [] i = pki -> 2 [] OTHER -> 3]
MCHolds == [i \in Issuer |->
              CASE i = web -> {k} [] i = pki -> {leaf} [] OTHER -> {root, root2}]
MCFirstKeys == [MCHolds EXCEPT ![did] = {root}]
MCLeads == [keys \in SUBSET Key |-> IF root \in keys \/ keys = {} THEN root ELSE CHOOSE x \in keys : TRUE]
MCRevocable == {"beta", "vc", leaf}
MCMechanism == [i \in Issuer |-> "introspection"]
MCFailureMode == [i \in Issuer |-> IF i = web THEN "closed" ELSE "open"]

Base == [issuer |-> web, key |-> k, kid |-> k, permissions |-> {"pay"}, audience |-> {},
         subject |-> ann, confirmation |-> FALSE, chain |-> TRUE,
         structure |-> "whole", status |-> "none"]

MCCredential == {"beta", "cert", "vc", "open", "plain"}
MCClaims == [cr \in MCCredential |->
    CASE cr = "beta" -> [Base EXCEPT !.audience = {here}]
      [] cr = "cert" -> [Base EXCEPT !.issuer = pki, !.key = leaf, !.kid = leaf, !.confirmation = TRUE]
      [] cr = "vc" -> [Base EXCEPT !.issuer = did, !.key = root, !.kid = nokid, !.status = "listed"]
      [] cr = "open" -> [Base EXCEPT !.issuer = did, !.key = root2, !.kid = root2]
      [] OTHER -> [Base EXCEPT !.issuer = did, !.structure = "unsupported"]]

Showing(cr, proof) ==
    [credential |-> cr, presenter |-> ann, proof |-> proof, asks |-> "issuer"]
MCPresentation ==
    {Showing(cr, "none") : cr \in {"beta", "vc", "plain"}}
      \cup {Showing("cert", "bound"),
            [Showing("beta", "none") EXCEPT !.asks = "other"],
            [Showing("open", "none") EXCEPT !.presenter = nobody]}
=============================================================================
