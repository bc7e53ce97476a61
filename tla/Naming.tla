------------------------------- MODULE Naming -------------------------------
(***************************************************************************)
(* The names the scheduler gives to what it creates in the hub cluster.    *)
(*                                                                         *)
(* A name is a sequence of tokens.  A token stands for a run of            *)
(* characters that is never cut in the middle; the hyphen is a token of    *)
(* its own, because joining two names with it and trimming it are what the *)
(* code does and what makes two different names meet.                      *)
(***************************************************************************)
EXTENDS Naturals, Sequences, FiniteSetsExt

CONSTANT maxResourceNameLength    \* 63 characters in the code; tokens here

ASSUME NameLengthAssumption == maxResourceNameLength \in Nat \ {0}

Hyphen == "-"

\* Any run of characters with one in it that no qualified name may have.
Odd == "?"

\* strings.TrimRight(s, "-")
TrimRight(s) ==
  SubSeq(s, 1, Max({0} \cup {i \in DOMAIN s : s[i] # Hyphen}))

\* validation.IsQualifiedName of the Kubernetes libraries.
IsQualifiedName(name) ==
  /\ Len(name) \in 1..maxResourceNameLength
  /\ Hyphen \notin {name[1], name[Len(name)]}
  /\ \A i \in DOMAIN name : name[i] # Odd

\* What stands for a name that was not made, because the function panicked.
\* No name that it returns ends with a hyphen.
Panic == <<Hyphen>>

\* A name that is not qualified is cut, in the belief that it is too long, and
\* the hyphens the cut leaves at the end are dropped; the slice panics if the
\* name is shorter than the cut.  A qualified name is returned as it is.
TruncateNameIfNeeded(name) ==
  IF IsQualifiedName(name) THEN name
  ELSE IF Len(name) < maxResourceNameLength THEN Panic
  ELSE TrimRight(SubSeq(name, 1, maxResourceNameLength))

\* (Wrong_ResourceName is a variant with a mistake in it, see Scheduler.)
\* fmt.Sprintf("%s-%s", bundleName, manifestName), truncated: the name of a
\* bundle's Placement and of its ManifestWork.
Wrong_ResourceName(bundleName, manifestName) == TruncateNameIfNeeded(bundleName)

ResourceName(bundleName, manifestName) ==
  TruncateNameIfNeeded(bundleName \o <<Hyphen>> \o manifestName)

\* The value of the ownership label on every ManifestWork of a manifest.
OwnerLabel(manifestName) == TruncateNameIfNeeded(manifestName)
=============================================================================
