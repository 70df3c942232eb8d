--------------------------- MODULE ObjectServers ---------------------------
(***************************************************************************)
(* The client's ordered list of object servers for a transfer:            *)
(*   parseServersFromDirectorResponse (client/director.go) turns the       *)
(*   director's Link header into servers sorted by their "pri" tag;        *)
(*   generateSortedObjServers (client/main.go) merges in the user's        *)
(*   preferred servers, where a trailing "+" means "then the director's".  *)
(* Both are pure; each is checked against a reference definition taken   *)
(* from the specification.  The state is the input the two functions are  *)
(* given: the Link header's entries and the preferred-server list, grown  *)
(* one element at a time up to the bounds.                                *)
(***************************************************************************)
EXTENDS Naturals, Sequences, SequencesExt

CONSTANTS
    Servers,     \* URLs that parse
    BadURL,      \* an endpoint url.Parse rejects
    Pris,        \* values of the pri tag that strconv.Atoi accepts
    BadPri,      \* a pri value strconv.Atoi rejects
    MaxLinks,    \* bound on the number of Link entries
    MaxPref      \* bound on the length of the preferred list

ASSUME Pris \subseteq Nat

(* One comma-separated entry of the Link header: <endpoint>; pri=N.       *)
Links == [url: Servers \cup {BadURL}, pri: Pris \cup {BadPri}]

(* A preferred server as given on the command line: a URL, the empty      *)
(* string, or the "+" sentinel.                                           *)
Preferred == Servers \cup {"", "+"}

VARIABLES
    links,      \* entries of the first Link header value, in order
    preferred   \* the preferred-servers list, in order

vars == <<links, preferred>>

-----------------------------------------------------------------------------
(* The loop over Link entries: an unparsable pri leaves pri at 0 (the     *)
(* error of strconv.Atoi is dropped); an endpoint url.Parse rejects is    *)
(* skipped with a log line.                                               *)
PriOf(l) == IF l.pri = BadPri THEN 0 ELSE l.pri

(* Mutant: an endpoint that fails to parse is kept.                       *)
ServersPrioKeepBad(ls) ==
    [i \in 1..Len(ls) |-> [url |-> ls[i].url, pri |-> PriOf(ls[i])]]

ServersPrio(ls) ==
    LET kept == SelectSeq(ls, LAMBDA l : l.url # BadURL)
    IN [i \in 1..Len(kept) |-> [url |-> kept[i].url, pri |-> PriOf(kept[i])]]

(* Mutant: equal priorities are swapped too.                              *)
LessOrEqual(s, j) == s[j].pri <= s[j - 1].pri

(* sort.Slice's less: serversPrio[i].Priority < serversPrio[j].Priority.  *)
Less(s, j) == s[j].pri < s[j - 1].pri

Swap(s, j) == [s EXCEPT ![j] = s[j - 1], ![j - 1] = s[j]]

(* sort.Slice on a slice shorter than 12 elements runs Go's insertion     *)
(* sort: element i moves left while it is less than its left neighbour.   *)
RECURSIVE InsertLeft(_, _)
InsertLeft(s, j) == IF j > 1 /\ Less(s, j) THEN InsertLeft(Swap(s, j), j - 1) ELSE s

RECURSIVE InsertionSort(_, _)
InsertionSort(s, i) == IF i > Len(s) THEN s ELSE InsertionSort(InsertLeft(s, i), i + 1)

(* parseServersFromDirectorResponse: no Link header gives no servers.     *)
ParseServers(ls) ==
    LET sorted == InsertionSort(ServersPrio(ls), 2)
    IN [i \in 1..Len(sorted) |-> sorted[i].url]

(* Mutant: a "+" anywhere in the list is accepted.                        *)
AcceptPlus(pref, i) == TRUE

(* A "+" is accepted only as the last item.                               *)
PlusAllowedAt(pref, i) == i = Len(pref)

(* The loop of generateSortedObjServers over the preferred list: stops    *)
(* at the first empty string or misplaced "+", collects the other items,  *)
(* and records whether a "+" was seen.                                    *)
RECURSIVE PreferredLoop(_, _, _, _)
PreferredLoop(pref, i, acc, appendCaches) ==
    IF i > Len(pref) THEN [err |-> "none", servers |-> acc, append |-> appendCaches]
    ELSE CASE pref[i] = "" -> [err |-> "empty", servers |-> <<>>, append |-> FALSE]
           [] pref[i] = "+" /\ ~PlusAllowedAt(pref, i)
                            -> [err |-> "plusNotLast", servers |-> <<>>, append |-> FALSE]
           [] pref[i] = "+" -> PreferredLoop(pref, i + 1, acc, TRUE)
           [] OTHER         -> PreferredLoop(pref, i + 1, Append(acc, pref[i]), appendCaches)

(* generateSortedObjServers: with no preferred list, or one ending in     *)
(* "+", the director's servers follow the preferred ones.                 *)
GenerateSortedObjServers(dirServers, pref) ==
    LET r == PreferredLoop(pref, 1, <<>>, FALSE)
    IN IF r.err # "none" THEN [err |-> TRUE, servers |-> <<>>]
       ELSE [err |-> FALSE,
             servers |-> IF pref = <<>> \/ r.append THEN r.servers \o dirServers
                         ELSE r.servers]

(* The inputs, and the server list handed to the transfer: only URLs    *)
(* that parsed.                                                           *)
TypeOK ==
    /\ links \in BoundedSeq(Links, MaxLinks)
    /\ preferred \in BoundedSeq(Preferred, MaxPref)
    /\ ParseServers(links) \in Seq(Servers)

-----------------------------------------------------------------------------
(* The director adds one more entry to its Link header.                   *)
AddLink == \E l \in Links : Len(links) < MaxLinks /\ links' = Append(links, l)
                                                  /\ UNCHANGED preferred

(* The user adds one more item to the preferred-servers list.             *)
AddPreferred == \E p \in Preferred : Len(preferred) < MaxPref
                                     /\ preferred' = Append(preferred, p)
                                     /\ UNCHANGED links

Init == links = <<>> /\ preferred = <<>>

Next == AddLink \/ AddPreferred

Spec == Init /\ [][Next]_vars

-----------------------------------------------------------------------------
(* Reference for the Link header (spec 4.8: pri is the 1-based rank): the *)
(* usable servers grouped by ascending pri, servers of equal pri in the   *)
(* order the director listed them.                                        *)
RefOrder(ls) ==
    LET prio == ServersPrio(ls)
        ps == {prio[i].pri : i \in 1..Len(prio)}
        ascending == SetToSortSeq(ps, <)
    IN FlattenSeq([k \in 1..Len(ascending) |->
           LET grp == SelectSeq(prio, LAMBDA e : e.pri = ascending[k])
           IN [i \in 1..Len(grp) |-> grp[i].url]])

(* The client tries servers in the director's priority order, and keeps   *)
(* the director's order among servers of equal priority.                  *)
ParseMatchesReference == ParseServers(links) = RefOrder(links)

(* Reference for the preferred list (spec 9): parse into (prefix,         *)
(* appendRest); "+" only as the last item; reject an empty entry.         *)
RefGenerate(dirServers, pref) ==
    IF pref = <<>> THEN [err |-> FALSE, servers |-> dirServers]
    ELSE IF "" \in ToSet(pref) \/ "+" \in ToSet(Front(pref))
         THEN [err |-> TRUE, servers |-> <<>>]
         ELSE LET prefix == SelectSeq(pref, LAMBDA p : p # "+")
              IN [err |-> FALSE,
                  servers |-> IF Last(pref) = "+" THEN prefix \o dirServers
                              ELSE prefix]

(* A transfer tries exactly the preferred servers, then (only after a     *)
(* trailing "+") the director's, and refuses a malformed list.            *)
GenerateMatchesReference ==
    LET dir == ParseServers(links)
    IN GenerateSortedObjServers(dir, preferred) = RefGenerate(dir, preferred)

=============================================================================
