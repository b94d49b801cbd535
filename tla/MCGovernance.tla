---------------------------- MODULE MCGovernance ----------------------------
\* Two requests at a time; one issuer; a trusted and an untrusted row for the field.
EXTENDS Governance
=============================================================================
