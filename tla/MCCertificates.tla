--------------------------- MODULE MCCertificates ---------------------------
(* A CA that signs itself and a certificate that it signs.                 *)
EXTENDS Certificates

CONSTANTS ca, leaf

MCIssuer == [c \in {ca, leaf} |-> ca]

=============================================================================
