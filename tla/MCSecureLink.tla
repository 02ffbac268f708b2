---------------------------- MODULE MCSecureLink ----------------------------
EXTENDS SecureLink
=============================================================================
