------------------------------ MODULE Releases ------------------------------
(***************************************************************************)
(* The latest release on GitHub, how the maintainer signs it                *)
(* (tools/sign-release.sh with tools/releasesign), and when a signature is  *)
(* valid (Verify of internal/release/signature.go).                         *)
(*                                                                         *)
(* The files of a release can change at any time: an archive or its         *)
(* checksums.txt can be another one than a moment before, as sign-release.sh *)
(* expects. An archive is the build in it, a checksum file is the build that *)
(* it has the sums of, a signature is what it covers. The script makes its  *)
(* downloads, checks and uploads one after the other.                       *)
(***************************************************************************)
EXTENDS Integers

CONSTANTS
  Keys,      \* the signing keys
  TagKeys,   \* trustedKeys in the source of the release
  MaxSkew,   \* maxClockSkew
  MaxSwaps,  \* bound: the changes of the files on GitHub
  MaxSigns   \* bound: the signatures

ASSUME ReleasesAssumption ==
  /\ TagKeys \subseteq Keys
  /\ {MaxSkew, MaxSwaps, MaxSigns} \subseteq Nat

Never == -1   \* what did not happen

\* The builds that an archive can hold: that of the commit that the maintainer
\* reviewed and tagged, and any other.
Builds == {"tag", "other"}

\* A signature file: the key, the time, and the build with the sums.
NoSignature == [key |-> "none", at |-> Never, of |-> "none"]
Sign(k, t, data) == [key |-> k, at |-> t, of |-> data]

VARIABLES
  release,      \* the new release: "none", "published" or "withdrawn"
  archive,      \* the build in the archives that GitHub has
  sums,         \* the build that checksums.txt has the sums of
  signature,    \* checksums.txt.sig, or NoSignature
  script,       \* where sign-release.sh is: "idle", "download", "sign", "upload"
  got,          \* the archive, the sums and the signature in its directory
  firstSigned,  \* when the release was first signed, or Never
  withdrawnAt,  \* when it was withdrawn, or Never
  swaps, signs

filesVars == <<archive, sums>>
scriptVars == <<script, got>>
releaseVars == <<release, filesVars, signature, scriptVars, firstSigned, withdrawnAt,
                 swaps, signs>>

Empty == [archive |-> "none", sums |-> "none", signature |-> NoSignature]

ReleasesInit ==
  /\ release = "none" /\ archive = "tag" /\ sums = "tag" /\ signature = NoSignature
  /\ script = "idle" /\ got = Empty
  /\ firstSigned = Never /\ withdrawnAt = Never
  /\ swaps = 0 /\ signs = 0

-----------------------------------------------------------------------------
\* Verify: the key is one of keys, the tag is the one of the release, the
\* signature covers exactly these sums, and its time is not in the future.
Verify(s, data, keys, now) ==
  /\ s.key \in keys
  /\ s.of = data
  /\ s.at <= now + MaxSkew

ScriptEnds == script' = "idle" /\ got' = Empty

\* The maintainer starts the script for the local tag and approves its commit;
\* gh release download gets the archives, and at another moment the sums.
ScriptStarts ==
  /\ script = "idle" /\ release # "none" /\ signs < MaxSigns
  /\ script' = "download" /\ got' = [Empty EXCEPT !.archive = archive]
  /\ UNCHANGED <<release, filesVars, signature, firstSigned, withdrawnAt, swaps, signs>>

\* Fault: the release is not built again.
ScriptNoBuild ==
  /\ script = "download" /\ got.archive = sums
  /\ script' = "sign" /\ got' = [got EXCEPT !.sums = sums]
  /\ UNCHANGED <<release, filesVars, signature, firstSigned, withdrawnAt, swaps, signs>>

\* It gets the sums too: sha256sum -c agrees with the archive, and the binaries
\* are the same as the build of the local tag.
ScriptChecks ==
  /\ script = "download" /\ got.archive = sums /\ got.archive = "tag"
  /\ script' = "sign" /\ got' = [got EXCEPT !.sums = sums]
  /\ UNCHANGED <<release, filesVars, signature, firstSigned, withdrawnAt, swaps, signs>>

\* releasesign sign: the file that it is given, with the key that it is given.
SignFile(now) ==
  \E k \in Keys : got' = [got EXCEPT !.signature = Sign(k, now, got.sums)]

\* releasesign verify knows the keys of the tag.
VerifyFile(now) == Verify(got'.signature, got.sums, TagKeys, now)

\* The signature covers the sums that were checked, whatever GitHub has by now.
ScriptSigns(now) ==
  /\ script = "sign"
  /\ SignFile(now) /\ VerifyFile(now)
  /\ script' = "upload" /\ signs' = signs + 1
  /\ firstSigned' = IF firstSigned = Never THEN now ELSE firstSigned
  /\ UNCHANGED <<release, filesVars, signature, withdrawnAt, swaps>>

\* gh release upload --clobber.
ScriptUploads ==
  /\ script = "upload"
  /\ signature' = got.signature
  /\ ScriptEnds
  /\ UNCHANGED <<release, filesVars, firstSigned, withdrawnAt, swaps, signs>>

\* A check or a command fails, or UPLOAD=0: nothing is uploaded.
ScriptStops ==
  /\ script # "idle" /\ ScriptEnds
  /\ UNCHANGED <<release, filesVars, signature, firstSigned, withdrawnAt, swaps, signs>>

\* The release workflow publishes the release of the tag.
Publish ==
  /\ release = "none" /\ release' = "published"
  /\ UNCHANGED <<filesVars, signature, scriptVars, firstSigned, withdrawnAt, swaps, signs>>

\* The archives, the sums or both are others from now on.
Swap ==
  /\ release # "none" /\ swaps < MaxSwaps /\ swaps' = swaps + 1
  /\ archive' \in Builds /\ sums' \in Builds
  /\ UNCHANGED <<release, signature, scriptVars, firstSigned, withdrawnAt, signs>>

\* The maintainer marks it as a pre-release: releases/latest then returns the
\* release before it.
Withdraw(now) ==
  /\ release = "published" /\ release' = "withdrawn" /\ withdrawnAt' = now
  /\ UNCHANGED <<filesVars, signature, scriptVars, firstSigned, swaps, signs>>

ReleasesNext(now) ==
  \/ ScriptStarts \/ ScriptChecks \/ ScriptSigns(now) \/ ScriptUploads \/ ScriptStops
  \/ Publish \/ Swap \/ Withdraw(now)

-----------------------------------------------------------------------------
\* The values that each variable can have.
Signatures == [key : Keys \cup {"none"}, at : Int, of : Builds \cup {"none"}]
ReleasesTypeOK ==
  /\ release \in {"none", "published", "withdrawn"}
  /\ archive \in Builds /\ sums \in Builds /\ signature \in Signatures
  /\ script \in {"idle", "download", "sign", "upload"}
  /\ got \in [archive : Builds \cup {"none"}, sums : Builds \cup {"none"},
              signature : Signatures]
  /\ firstSigned \in Int /\ withdrawnAt \in Int
  /\ swaps \in Nat /\ signs \in Nat
=============================================================================
