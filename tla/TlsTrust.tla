------------------------------ MODULE TlsTrust ------------------------------
(***************************************************************************)
(* Certificates and the store of trusted ones                              *)
(* (src/src/transfer/tlshelper.cpp, src/src/ui/tlstrustdialog.cpp).        *)
(* A Sender pins the first certificate it is shown at an address and asks  *)
(* for the same one from then on.  The receiving side makes its key and    *)
(* its certificate when either file is missing.                            *)
(***************************************************************************)
EXTENDS Integers

CONSTANTS
  Addresses,
  MaxCerts   \* bounds the key pairs ever generated

ASSUME TrustAssumption == MaxCerts \in Nat \ {0}

Certs == 1 .. MaxCerts

NoCert == 0    \* no pin, no file
Broken == -1   \* a file that was not written to its end

Pins == [Addresses -> Certs \cup {NoCert}]

NoPins == [a \in Addresses |-> NoCert]

\* mutant: a pinned certificate is not compared
TrustsAnyone(pins, a, c) == TRUE

\* checkAndPinPeerCertificate(): may the peer at a show the certificate c, and what is pinned then
Trusted(pins, a, c) == pins[a] \in {NoCert, c}

CheckAndPin(pins, a, c) == IF pins[a] = NoCert THEN [pins EXCEPT ![a] = c] ELSE pins

RemovePinnedPeer(pins, a) == [pins EXCEPT ![a] = NoCert]

\* importTrustStore(): what the file names is overwritten, the rest is kept
ImportTrustStore(pins, store) ==
  [a \in Addresses |-> IF store[a] = NoCert THEN pins[a] ELSE store[a]]

\* the files of the key and of the certificate, each with the pair it belongs to
Credentials == [key : Certs \cup {NoCert, Broken}, cert : Certs \cup {NoCert, Broken}]

NoCredentials == [key |-> NoCert, cert |-> NoCert]

\* ensureServerCredentials() looks for the files only
Exist(files) == files.key # NoCert /\ files.cert # NoCert

\* mutant: the certificate is not looked into
ReadsOnlyTheKey(files) == files.key \in Certs

\* loadServerCredentials() reads both
Readable(files) == files.key \in Certs /\ files.cert \in Certs

(***************************************************************************)
(* generateSelfSignedCert(): openssl writes the key of pair n, then the    *)
(* certificate.  A full disk or a crash may stop it in each of the files.  *)
(***************************************************************************)
Generated(n) == [key |-> n, cert |-> n]

Interrupted(files, n) ==
  {[files EXCEPT !.key = Broken], [files EXCEPT !.key = n], [key |-> n, cert |-> Broken]}
=============================================================================
