---------------------------- MODULE AppVersions ----------------------------
(***************************************************************************)
(* The store versions of one platform, the installation of a customer and  *)
(* the verdict it gets (src/src/app-version/).  A version is the sequence  *)
(* of its segments, or Unparsable; an absent field of a request is not in  *)
(* the domain of its record.                                               *)
(***************************************************************************)
EXTENDS Integers, Sequences

CONSTANTS
    Null,         \* null
    Unparsable,   \* a version the parser refuses
    Versions,     \* those a request can carry, and an installation can have
    Patches       \* the bodies of the panel's requests

VARIABLES
    store,       \* the row of the platform
    installed    \* the version an installation says it has, or Null

app == <<store, installed>>

Fields == {"latestVersion", "minSupportedVersion", "enabled", "ru", "uz", "en"}

ASSUME NullAssumption == Null \notin {-1, 0, 1}
ASSUME VersionsAssumption == Versions \subseteq Seq(Nat)
ASSUME PatchesAssumption ==
    \A d \in Patches : /\ DOMAIN d \subseteq Fields
                       /\ \A f \in DOMAIN d \cap {"latestVersion", "minSupportedVersion"} : d[f] \in Versions

Segment(v, i) == IF i <= Len(v) THEN v[i] ELSE 0

Differ(a, b) ==
    {i \in 1..(Len(a) + Len(b)) : Segment(a, i) # Segment(b, i)}

\* -1, 0 or 1; Null when either cannot be parsed.
CompareVersions(a, b) ==
    IF Unparsable \in {a, b} THEN Null
    ELSE IF Differ(a, b) = {} THEN 0
    ELSE LET i == CHOOSE j \in Differ(a, b) : \A k \in Differ(a, b) : j <= k
         IN  IF Segment(a, i) < Segment(b, i) THEN -1 ELSE 1

FALLBACK == [latestVersion |-> <<1, 0, 0>>, minSupportedVersion |-> <<1, 0, 0>>,
             enabled |-> TRUE, ru |-> Null, uz |-> Null, en |-> Null]

\* A blank note is no note; a field that was not sent is left as it is.
EmptyToNull(text) == IF text = "" THEN Null ELSE text

Data(dto) ==
    [f \in DOMAIN dto |-> IF f \in {"ru", "uz", "en"} THEN EmptyToNull(dto[f]) ELSE dto[f]]

Upsert(row, dto) ==
    LET base == IF row = Null THEN FALLBACK ELSE row
        data == Data(dto)
    IN  [f \in DOMAIN base |-> IF f \in DOMAIN data THEN data[f] ELSE base[f]]

PickReleaseNotes(row, locale) == IF row[locale] # Null THEN row[locale] ELSE row.ru

NO_UPDATE == [latestVersion |-> Null, minSupportedVersion |-> Null, releaseNotes |-> Null,
              updateAvailable |-> FALSE, updateRequired |-> FALSE]

\* Slip: the minimum is taken at its word.
MinIsTaken(row) == TRUE

\* A minimum above the latest version would shut everybody out.
MinIsSane(row) == CompareVersions(row.minSupportedVersion, row.latestVersion) \in {-1, 0}

Verdict(row, locale, available, required) ==
    [latestVersion |-> row.latestVersion, minSupportedVersion |-> row.minSupportedVersion,
     releaseNotes |-> PickReleaseNotes(row, locale),
     updateAvailable |-> available, updateRequired |-> required]

\* Version Null: the client did not say.
Check(row, version, locale) ==
    IF row = Null \/ ~row.enabled THEN NO_UPDATE
    ELSE IF version = Null THEN Verdict(row, locale, FALSE, FALSE)
    ELSE LET vsLatest == CompareVersions(version, row.latestVersion)
             vsMin == CompareVersions(version, row.minSupportedVersion)
         IN  IF Null \in {vsLatest, vsMin} THEN Verdict(row, locale, FALSE, FALSE)
             ELSE Verdict(row, locale, vsLatest = -1, MinIsSane(row) /\ vsMin = -1)

-----------------------------------------------------------------------------
\* The row may be missing, or have been edited by hand; a client may not say its version.
AppInit ==
    /\ store \in {Null, FALLBACK, [FALLBACK EXCEPT !.latestVersion = Unparsable]}
    /\ installed \in Versions \cup {Null}

Publish(dto) ==
    /\ store' = Upsert(store, dto)
    /\ UNCHANGED installed

\* The customer takes what the store offers.
Install ==
    /\ store # Null
    /\ store.latestVersion \in Versions
    /\ installed' = store.latestVersion
    /\ UNCHANGED store

AppNext ==
    \/ \E dto \in Patches : Publish(dto)
    \/ Install

AppSpec == AppInit /\ [][AppNext]_app

-----------------------------------------------------------------------------
\* app-version.service.ts:139-141: an installation that is told it must update can,
\* whatever was typed into the panel: the version of the store is newer than its own
\* and is let in.
NobodyIsLockedOut ==
    \A locale \in {"ru", "uz", "en"} :
        LET verdict == Check(store, installed, locale)
            next == Check(store, store.latestVersion, locale)
        IN  verdict.updateRequired =>
                /\ verdict.updateAvailable
                /\ ~next.updateRequired /\ ~next.updateAvailable
=============================================================================
