---- MODULE ProfileMenu ----
(***************************************************************************)
(* Saved profiles: the files that the helper keeps in /etc/kcm_ufw         *)
(* (Helper::saveProfile, deleteProfile, query), older files in the user's  *)
(* own folder, and the Load and Delete menus, which Kcm::refreshProfiles   *)
(* brings up to date from the listing in a reply.  A reply to saveProfile  *)
(* or deleteProfile carries a list of names where the window expects a     *)
(* map, so that what it reads is an empty listing.                         *)
(***************************************************************************)
EXTENDS Naturals, FiniteSets

CONSTANTS
    Names,      \* profile names
    Contents,   \* what a profile can hold
    None,       \* no call
    MaxFailures \* bound on helper calls and file removals that fail

ASSUME ProfileMenuAssumption == IsFiniteSet(Names) /\ None \notin Names /\ MaxFailures \in Nat

VARIABLES
    disk,       \* /etc/kcm_ufw: name -> content
    own,        \* names of the files in the user's folder
    menu,       \* profiles: name -> content and isSystem
    existing,   \* existingProfiles
    call,       \* the call in flight, or its reply
    failures

vars == <<disk, own, menu, existing, call, failures>>

Listings  == UNION {[S -> Contents] : S \in SUBSET Names}
Entries   == [content : Contents, system : BOOLEAN]
Menus     == UNION {[S -> Entries] : S \in SUBSET Names}
NoListing == [n \in {} |-> None]
NoCall    == [cmd |-> "none", name |-> None, answered |-> FALSE, ok |-> FALSE, listing |-> NoListing]

Listed(name)   == name \in DOMAIN menu
IsSystem(name) == Listed(name) /\ menu[name].system

\* The constructor lists the user's own profiles and asks for the rest.
Init ==
    /\ disk \in Listings
    /\ own \in SUBSET Names
    /\ menu \in [own -> [content : Contents, system : {FALSE}]]
    /\ existing = {}
    /\ call = [NoCall EXCEPT !.cmd = "query"]
    /\ failures = 0

-----------------------------------------------------------------------------
(* Calls *)

Execute(cmd, name, files) ==
    /\ call = NoCall
    /\ call' = [NoCall EXCEPT !.cmd = cmd, !.name = name, !.listing = files]
    /\ UNCHANGED <<disk, own, menu, existing, failures>>

\* queryStatus(true, true)
Refresh == Execute("query", None, NoListing)

\* Defect for Save: an empty name is not refused.
MSaveNameless == \E name \in Names \cup {None}, c \in Contents :
                    Execute("saveProfile", name, [n \in {name} |-> c])

\* saveProfile: the name is any that the user enters.
Save == \E name \in Names, c \in Contents :
           Execute("saveProfile", name, [n \in {name} |-> c])

\* removeProfile of a system profile
RemoveSystem == \E name \in Names : IsSystem(name) /\ Execute("deleteProfile", name, NoListing)

\* removeProfile of one of the user's own: no helper is needed
RemoveOwn ==
    /\ call = NoCall
    /\ \E name \in own :
         /\ Listed(name) /\ ~IsSystem(name)
         /\ own' = own \ {name}
         /\ menu' = [n \in DOMAIN menu \ {name} |-> menu[n]]
    /\ UNCHANGED <<disk, existing, call, failures>>

-----------------------------------------------------------------------------
(* The helper *)

Answer(ok, files) == call' = [call EXCEPT !.answered = TRUE, !.ok = ok, !.listing = files]

\* query: the names and contents of all files
ServeQuery ==
    /\ call.cmd = "query" /\ ~call.answered
    /\ Answer(TRUE, disk)
    /\ UNCHANGED <<disk, failures>>

ServeSave ==
    /\ call.cmd = "saveProfile" /\ ~call.answered
    /\ disk' = [n \in DOMAIN disk \cup {call.name} |->
                  IF n = call.name THEN call.listing[n] ELSE disk[n]]
    /\ Answer(TRUE, NoListing)
    /\ UNCHANGED failures

ServeDelete ==
    /\ call.cmd = "deleteProfile" /\ ~call.answered
    /\ disk' = [n \in DOMAIN disk \ {call.name} |-> disk[n]]
    /\ Answer(call.name \in DOMAIN disk, NoListing)
    /\ UNCHANGED failures

\* The file cannot be opened, or the Python helper of the query fails.
ServeFails ==
    /\ call.cmd # "none" /\ ~call.answered
    /\ failures < MaxFailures
    /\ failures' = failures + 1
    /\ Answer(FALSE, NoListing)
    /\ UNCHANGED disk

Serve ==
    /\ ServeQuery \/ ServeSave \/ ServeDelete \/ ServeFails
    /\ UNCHANGED <<own, menu, existing>>

\* Another administrator's window saves or deletes a profile.
Elsewhere ==
    /\ disk' \in Listings \ {disk}
    /\ UNCHANGED <<own, menu, existing, call, failures>>

-----------------------------------------------------------------------------
(* refreshProfiles *)

\* Defect for Deleted: the listed profiles are not subtracted.
MDeletedAll(listing) == existing

Deleted(listing) == existing \ DOMAIN listing
New(listing)     == DOMAIN listing \ existing

\* The new profiles that get an entry: those that have none yet, once the
\* deleted ones are gone, and those whose entry is the user's own file, if
\* that can be removed (stuck holds the ones that cannot).
Added(listing, stuck) == {n \in New(listing) : ~IsSystem(n)} \ stuck

\* Defects for refreshProfiles: all new names are remembered; the user's own
\* profiles go as well when they are not listed; their files stay.
MRemembersAll(listing, stuck) ==
    LET gone  == {n \in Deleted(listing) : IsSystem(n)}
        added == Added(listing, stuck)
    IN  /\ menu' = [n \in (DOMAIN menu \ gone) \cup added |->
                      IF n \in added THEN [content |-> listing[n], system |-> TRUE] ELSE menu[n]]
        /\ existing' = New(listing)
        /\ own' = own \ added
MRemovesUnlisted(listing, stuck) ==
    LET gone  == DOMAIN menu \ DOMAIN listing
        added == Added(listing, stuck)
    IN  /\ menu' = [n \in (DOMAIN menu \ gone) \cup added |->
                      IF n \in added THEN [content |-> listing[n], system |-> TRUE] ELSE menu[n]]
        /\ existing' = added
        /\ own' = own \ added
MKeepsFiles(listing, stuck) ==
    LET gone  == {n \in Deleted(listing) : IsSystem(n)}
        added == Added(listing, stuck)
    IN  /\ menu' = [n \in (DOMAIN menu \ gone) \cup added |->
                      IF n \in added THEN [content |-> listing[n], system |-> TRUE] ELSE menu[n]]
        /\ existing' = added
        /\ UNCHANGED own

refreshProfiles(listing, stuck) ==
    LET gone  == {n \in Deleted(listing) : IsSystem(n)}
        added == Added(listing, stuck)
    IN  /\ menu' = [n \in (DOMAIN menu \ gone) \cup added |->
                      IF n \in added THEN [content |-> listing[n], system |-> TRUE] ELSE menu[n]]
        /\ existing' = added
        /\ own' = own \ added

\* The user's own files that a refresh would replace.
InTheWay(listing) == {n \in New(listing) : Listed(n) /\ ~IsSystem(n)}

\* queryPerformed with the answer to a query
QueryPerformed ==
    /\ call.cmd = "query" /\ call.answered /\ call.ok
    /\ \E stuck \in SUBSET InTheWay(call.listing) :
         /\ failures + Cardinality(stuck) <= MaxFailures
         /\ failures' = failures + Cardinality(stuck)
         /\ refreshProfiles(call.listing, stuck)
    /\ call' = NoCall
    /\ UNCHANGED disk

\* modifyPerformed: queryPerformed refreshes, then modifyPerformed does so
\* again, which finds nothing more to do as existing is empty by then.
ModifyPerformed ==
    /\ call.cmd \in {"saveProfile", "deleteProfile"} /\ call.answered /\ call.ok
    /\ refreshProfiles(call.listing, {})
    /\ call' = NoCall
    /\ UNCHANGED <<disk, failures>>

\* A failed query changes nothing; a failed change makes a query that does
\* not ask for the profiles.
Failed ==
    /\ call.answered /\ ~call.ok
    /\ call' = NoCall
    /\ UNCHANGED <<disk, own, menu, existing, failures>>

Next == \/ Refresh \/ Save \/ RemoveSystem \/ RemoveOwn
        \/ Serve
        \/ Elsewhere
        \/ QueryPerformed \/ ModifyPerformed \/ Failed

Spec == Init /\ [][Next]_vars

-----------------------------------------------------------------------------
(* Properties *)

\* Every variable keeps to its type.
TypeOK ==
    /\ disk \in Listings
    /\ own \subseteq Names
    /\ menu \in Menus
    /\ existing \subseteq Names
    /\ call.answered \in BOOLEAN /\ call.ok \in BOOLEAN
    /\ call.listing \in Listings /\ call.name \in Names \cup {None}
    /\ call.cmd \in {"none", "query", "saveProfile", "deleteProfile"}
    /\ failures \in 0..MaxFailures

\* What existingProfiles remembers is in the menu, as a system profile: a
\* refresh that skips a name because it is in existingProfiles never leaves
\* that profile out of the menu.
RememberedIsListed == \A n \in existing : IsSystem(n)

\* A refresh from a full listing leaves no listed profile without an entry,
\* after any history of saves, deletions, failures and changes elsewhere.
RefreshListsEverything ==
    [][call.cmd = "query" /\ call.ok /\ call' = NoCall
         => DOMAIN call.listing \subseteq DOMAIN menu']_vars

\* One of the user's own profiles leaves the menu only when the user deletes
\* it, or when a system profile of that name takes its place.
OwnProfilesStay ==
    [][\A n \in DOMAIN menu : ~menu[n].system =>
          n \in DOMAIN menu' \/ (call = NoCall /\ own' = own \ {n})]_vars

\* The user's own files and the entries that are not marked as system
\* profiles are the same: no entry outlives its file.
OwnEntriesHaveFiles == own = {n \in DOMAIN menu : ~menu[n].system}

-----------------------------------------------------------------------------
(* A documented promise that the code does not keep *)

\* kcm/kcm.cpp:904, "Add any new profiles...", in the refresh that answers a
\* save: the profile that was saved is in the menu.
SavedProfileIsListed ==
    [][call.cmd = "saveProfile" /\ call.ok /\ call' = NoCall => call.name \in DOMAIN menu']_vars
====
