------------------------ MODULE MCCredentialRotation ------------------------
EXTENDS CredentialRotation
=============================================================================
