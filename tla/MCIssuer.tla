------------------------------ MODULE MCIssuer ------------------------------
\* One request of any format and one for a VC; a byte of the status list holds
\* one bit, so that each new index makes the list longer.
EXTENDS Issuer

CONSTANTS r1, r2

MCFormat == [r \in Request |-> IF r = r1 THEN {"jwt", "vc", "x509"} ELSE {"vc"}]
X509Format == [r \in Request |-> {"jwt", "x509"}]
=============================================================================
