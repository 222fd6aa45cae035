--------------------------- MODULE CcCandidates ---------------------------
(***************************************************************************)
(* Where a lost P25 control channel is looked for: the list of candidates  *)
(* (runtime/trunk_cc_candidates.c) and what feeds it, that is, secondary   *)
(* control channels and neighbours announced over the air, held back while *)
(* the channel has no frequency yet, and the cache on disk                 *)
(* (protocol/p25/p25_cc_candidates.c), and the operator's choice of        *)
(* another site, which forgets them (protocol/p25/p25_cc_selection.c).     *)
(*                                                                         *)
(* A site stands for its RFSS and site numbers, an announcement's identity *)
(* for system, site and WACN; 0 is unknown in each.                        *)
(***************************************************************************)
EXTENDS Integers, Sequences, SequencesExt, FiniteSets, Functions

CONSTANTS
    Areas,        \* the surroundings a run may begin in:
                  \*   sites    the sites of one system
                  \*   freqOf   channel -> frequency, once its IDEN is known
                  \*   ccOf     site -> the control channel an operator selects it by
                  \*   sccb     site -> the channels its SCCBs announce
                  \*   cached   site, or 0 for the file of the whole system -> its lines
                  \*   nbs      the announcements of neighbours, [ch, sys, site, wacn]
                  \*   max      DSD_TRUNK_CC_CANDIDATES_MAX, P25_PENDING_ANNOUNCEMENT_MAX,
                  \*            P25_NB_MAX
                  \*   moves    bound: selections and losses of carrier
                  \*   time     bound: the clock
    Ttl, Cool     \* P25_NB_TTL_SEC and the cooldown

ASSUME CandidatesAssumption ==
    /\ \A a \in Areas :
          /\ a.sites \subseteq Nat \ {0} /\ Range(a.freqOf) \subseteq Nat \ {0}
          /\ \A s \in a.sites : a.ccOf[s] \in Nat \ {0} /\ a.sccb[s] \subseteq DOMAIN a.freqOf
          /\ \A n \in a.nbs : n.ch \in DOMAIN a.freqOf
          /\ {a.max.list, a.max.pend, a.max.nb} \subseteq Nat \ {0} /\ {a.moves, a.time} \subseteq Nat
    /\ {Ttl, Cool} \subseteq Nat

VARIABLES
    area,     \* the surroundings, which do not change
    list,     \* candidates and cool_until, [freq, cool], oldest first
    idx,      \* where the next round begins, from 0
    pend,     \* p25_pending_announcements
    nb,       \* p25_nb_entries
    site,     \* p2_rfssid and p2_siteid
    picky,    \* require_site_cache
    loaded,   \* p25_cc_cache_loaded
    cc,       \* p25_cc_freq
    known,    \* the channels whose IDEN was received
    on,       \* the site the receiver is on
    clock,    \* dsd_decode_time
    moves,    \* bound: selections and losses so far
    told,     \* history: frequencies that may be candidates, channels that have to be
    missed    \* history: rounds in which a candidate that was allowed was not offered

candidateVars == <<area, list, idx, pend, nb, site, picky, loaded, cc, known, on, clock, moves, told, missed>>
air == <<area, site, picky, loaded, cc, known, on, clock, moves>>

Sites == area.sites
Channels == DOMAIN area.freqOf
FreqOf == area.freqOf
CcOf == area.ccOf
Secondary == area.sccb
Cached == area.cached
Neighbours == area.nbs
CMax == area.max.list
PMax == area.max.pend
NMax == area.max.nb

Freqs == {FreqOf[c] : c \in Channels} \cup {CcOf[s] : s \in Sites} \cup UNION {Range(Cached[s]) : s \in Sites \cup {0}}
SecondaryCc == "secondary"
Neighbour == "neighbour"

CandidatesInit ==
    /\ area \in Areas
    /\ list = <<>> /\ idx = 0 /\ pend = <<>> /\ nb = <<>>
    /\ site = 0 /\ picky = FALSE /\ loaded = FALSE
    /\ on \in Sites /\ cc = CcOf[on]
    /\ known = {} /\ clock = 1 /\ moves = 0
    /\ told = [may |-> {}, must |-> {}]
    /\ missed = [f \in Freqs |-> 0]

-----------------------------------------------------------------------------
(* The list *)

Listed(l) == {l[i].freq : i \in DOMAIN l}

\* dsd_trunk_cc_candidates_add() to c = [list, idx]
Added(c, f) ==
    IF f \in Listed(c.list) THEN c
    ELSE IF Len(c.list) < CMax THEN [c EXCEPT !.list = Append(@, [freq |-> f, cool |-> 0])]
    ELSE [list |-> Append(Tail(c.list), [freq |-> f, cool |-> 0]), idx |-> IF c.idx > 0 THEN c.idx - 1 ELSE 0]

\* p25_cc_add_candidate()
AddedP25(c, f) == IF f = cc THEN c ELSE Added(c, f)

\* dsd_trunk_cc_candidate_is_allowed()
Allowed(e) == e.freq # cc /\ ~(e.cool > 0 /\ clock < e.cool)

\* the positions from the index on, once around
Round == [n \in 1 .. Len(list) |-> (((IF idx >= Len(list) THEN 0 ELSE idx) + n - 1) % Len(list)) + 1]

\* dsd_trunk_cc_candidates_next(), and a tune that proves the candidate, or
\* fails to (dsd_trunk_cc_candidates_set_cooldown()), or neither
NextCandidate ==
    LET found == {n \in DOMAIN Round : Allowed(list[Round[n]])}
        last == IF found = {} THEN Len(list) ELSE CHOOSE n \in found : \A m \in found : n <= m
        at == Round[last]
    IN  /\ list # <<>>
        /\ idx' = at
        /\ missed' = [f \in Freqs |->
                        IF \E i \in DOMAIN list : list[i].freq = f /\ Allowed(list[i]) /\ (found # {} => i # at)
                        THEN missed[f] + 1 ELSE 0]
        /\ \/ UNCHANGED <<list, cc>>
           \/ found # {} /\ cc' = list[at].freq /\ UNCHANGED list
           \/ found # {} /\ list' = [list EXCEPT ![at].cool = clock + Cool] /\ UNCHANGED cc
        /\ told' = [told EXCEPT !.must = {c \in @ : FreqOf[c] # cc'}]
    /\ UNCHANGED <<area, pend, nb, site, picky, loaded, known, on, clock, moves>>

-----------------------------------------------------------------------------
(* The cache on disk *)

\* p25_cc_build_cache_path(): the key of the file, if there is one to read yet
CacheKey == IF picky /\ site = 0 THEN {} ELSE {site}

\* p25_cc_try_load_cache(): what the list becomes
Loaded(c) ==
    IF loaded \/ CacheKey = {} THEN c
    ELSE FoldLeft(AddedP25, c, Cached[CHOOSE k \in CacheKey : TRUE])

LoadedNow == loaded \/ CacheKey # {}
FromCache == IF loaded \/ CacheKey = {} THEN {} ELSE Range(Cached[CHOOSE k \in CacheKey : TRUE])

-----------------------------------------------------------------------------
(* Neighbours.  A record is [freq, sys, site, wacn, seen]. *)

\* p25_nb_same_site_identity(), and that no WACN contradicts it
SameSite(e, a) ==
    /\ IF e.site = 0 \/ a.site = 0 THEN e.sys = a.sys /\ e.site = a.site
       ELSE e.site = a.site /\ (e.sys = a.sys \/ e.sys = 0 \/ a.sys = 0)
    /\ ~(a.wacn # 0 /\ e.wacn # 0 /\ a.wacn # e.wacn)

Identified(a) == a.sys # 0 \/ a.site # 0

FirstOf(s, Test(_)) ==
    LET S == {i \in DOMAIN s : Test(s[i])} IN IF S = {} THEN 0 ELSE CHOOSE i \in S : \A j \in S : i <= j

\* p25_nb_select_insert_index(), p25_pending_select_slot(): a full table's
\* entry seen longest ago, the first of several
SlotOf(s, max) ==
    IF Len(s) < max THEN Len(s) + 1
    ELSE CHOOSE i \in DOMAIN s : /\ \A j \in DOMAIN s : s[i].seen <= s[j].seen
                                 /\ \A j \in 1 .. i - 1 : s[i].seen < s[j].seen

Put(s, i, e) == IF i > Len(s) THEN Append(s, e) ELSE [s EXCEPT ![i] = e]

\* p25_nb_record_update() of table t: by site, else by frequency, else anew
Recorded(t, f, a) ==
    LET bySite == IF Identified(a) THEN FirstOf(t, LAMBDA e : SameSite(e, a)) ELSE 0
        byFreq == FirstOf(t, LAMBDA e : e.freq = f /\ ~(Identified(a) /\ Identified(e)))
        Refreshed(e) == [e EXCEPT !.freq = f, !.wacn = IF a.wacn # 0 THEN a.wacn ELSE @, !.seen = clock]
        Enriched(e) == [e EXCEPT !.sys = IF @ = 0 THEN a.sys ELSE @]
        Named(e) == IF Identified(a) THEN [e EXCEPT !.sys = a.sys, !.site = a.site] ELSE e
    IN  IF f = cc THEN t
        ELSE IF bySite # 0 THEN [t EXCEPT ![bySite] = Enriched(Refreshed(@))]
        ELSE IF byFreq # 0 THEN [t EXCEPT ![byFreq] = Named(Refreshed(@))]
        ELSE Put(t, SlotOf(t, NMax), [freq |-> f, sys |-> a.sys, site |-> a.site, wacn |-> a.wacn, seen |-> clock])

Anonymous(ch) == [ch |-> ch, sys |-> 0, site |-> 0, wacn |-> 0]

-----------------------------------------------------------------------------
(* Announcements.  An update is [kind, a], with a the announcement. *)

\* p25_sccb_matches_current_site()
MatchesSite(s, at) == at \in {0, s}

\* p25_pending_store()
Pended(p, kind, a) ==
    LET same == FirstOf(p, LAMBDA e : /\ e.kind = kind /\ [e.a EXCEPT !.wacn = 0] = [a EXCEPT !.wacn = 0]
                                      /\ ~(e.a.wacn # 0 /\ a.wacn # 0 /\ e.a.wacn # a.wacn))
        Merged(e) == [e EXCEPT !.a = IF a.wacn = 0 THEN @ ELSE a, !.seen = clock]
    IN  IF same # 0 THEN [p EXCEPT ![same] = Merged(@)]
        ELSE Put(p, SlotOf(p, PMax), [kind |-> kind, a |-> a, seen |-> clock])

\* p25_promote_secondary_cc_freq(), of x = [c, nb]
Promoted(x, ch) ==
    LET f == FreqOf[ch]
    IN  [c |-> AddedP25(Loaded(x.c), f), nb |-> Recorded(x.nb, f, Anonymous(ch))]

Lists == [c |-> [list |-> list, idx |-> idx], nb |-> nb]
Leaves(x) == list' = x.c.list /\ idx' = x.c.idx /\ nb' = x.nb
Kept(x) == missed' = [f \in Freqs |-> IF f \in Listed(x.c.list) THEN missed[f] ELSE 0]

\* p25_announce_secondary_cc_channel()
AnnounceSecondary(ch) ==
    /\ ch \in Secondary[on] /\ MatchesSite(on, site)
    /\ site' = on
    /\ IF ch \in known
       THEN LET x == [c |-> AddedP25(IF loaded THEN Lists.c ELSE FoldLeft(AddedP25, Lists.c, Cached[on]), FreqOf[ch]),
                      nb |-> Recorded(nb, FreqOf[ch], Anonymous(ch))]
            IN  Leaves(x) /\ Kept(x) /\ loaded' = TRUE /\ UNCHANGED pend
       ELSE /\ pend' = Pended(pend, SecondaryCc, [ch |-> ch, sys |-> 0, site |-> on, wacn |-> 0])
            /\ UNCHANGED <<list, idx, nb, loaded, missed>>
    /\ told' = [may |-> told.may \cup {FreqOf[ch]} \cup (IF loaded THEN {} ELSE Range(Cached[on])),
                must |-> IF FreqOf[ch] = cc THEN told.must ELSE told.must \cup {ch}]
    /\ UNCHANGED <<area, picky, cc, known, on, clock, moves>>

\* p25_announce_neighbor_channel()
AnnounceNeighbour(a) ==
    /\ IF a.ch \in known
       THEN nb' = Recorded(nb, FreqOf[a.ch], a) /\ UNCHANGED pend
       ELSE pend' = Pended(pend, Neighbour, a) /\ UNCHANGED nb
    /\ UNCHANGED <<list, idx, air, told, missed>>

(* Mutant: what resolves is taken from the end of the table *)
UnresolvedLast(p, K) == LET n == Len(SelectSeq(p, LAMBDA e : e.a.ch \notin K)) IN SubSeq(p, 1, n)

\* p25_resolve_pending_announcements(): what stays
StillPending(p, K) ==
    SelectSeq(p, LAMBDA e : e.a.ch \notin K /\ (e.kind = SecondaryCc => MatchesSite(e.a.site, site)))

Resolved(x, e) ==
    IF e.a.ch \notin known' THEN x
    ELSE IF e.kind = Neighbour THEN [x EXCEPT !.nb = Recorded(@, FreqOf[e.a.ch], e.a)]
    ELSE IF MatchesSite(e.a.site, site) THEN Promoted(x, e.a.ch) ELSE x

\* an IDEN update gives a channel its frequency and resolves what waited
Iden(ch) ==
    /\ ch \notin known /\ known' = known \cup {ch}
    /\ pend' = StillPending(pend, known')
    /\ LET x == FoldLeft(Resolved, Lists, pend)
           promoted == {e \in Range(pend) : /\ e.kind = SecondaryCc /\ e.a.ch \in known'
                                            /\ MatchesSite(e.a.site, site)}
       IN  /\ Leaves(x) /\ Kept(x)
           /\ loaded' = (loaded \/ (promoted # {} /\ LoadedNow))
           /\ site' = IF site = 0 /\ promoted # {} THEN (CHOOSE e \in promoted : TRUE).a.site ELSE site
           /\ told' = [may |-> told.may \cup (IF promoted = {} THEN {} ELSE FromCache),
                       must |-> IF FreqOf[ch] = cc THEN told.must \ {ch} ELSE told.must]
    /\ UNCHANGED <<area, picky, cc, on, clock, moves>>

\* p25_cc_record_neighbor_frequencies() of one frequency
NoteFrequency(ch) ==
    /\ ch \in known
    /\ LET x == [c |-> Loaded(Lists.c), nb |-> Recorded(nb, FreqOf[ch], Anonymous(ch))]
       IN  Leaves(x) /\ Kept(x)
    /\ loaded' = LoadedNow
    /\ told' = [told EXCEPT !.may = @ \cup FromCache]
    /\ UNCHANGED <<area, pend, site, picky, cc, known, on, clock, moves>>

\* the RFSS status broadcast names the site
SiteStatus ==
    /\ site # on /\ site' = on
    /\ UNCHANGED <<area, list, idx, pend, nb, picky, loaded, cc, known, on, clock, moves, told, missed>>

-----------------------------------------------------------------------------

\* p25_sm_forget_selected_site()
Forget == pend' = <<>> /\ list' = <<>> /\ idx' = 0 /\ nb' = <<>> /\ site' = 0 /\ loaded' = FALSE

\* p25_sm_select_control_channel(): a tune that was accepted
Select(s) ==
    /\ moves < area.moves /\ moves' = moves + 1
    /\ on' = s /\ cc' = CcOf[s]
    /\ Forget
    /\ picky' = TRUE
    /\ told' = [may |-> {}, must |-> {}]
    /\ missed' = [f \in Freqs |-> 0]
    /\ UNCHANGED <<area, known, clock>>

\* no_carrier_reset_p25_cc_cache()
CarrierLost ==
    /\ moves < area.moves /\ moves' = moves + 1
    /\ list' = <<>> /\ idx' = 0 /\ loaded' = FALSE
    /\ told' = [told EXCEPT !.must = @ \ known]
    /\ missed' = [f \in Freqs |-> 0]
    /\ UNCHANGED <<area, pend, nb, site, picky, cc, known, on, clock>>

\* a second passes, and p25_nb_tick() of the state machine's tick
Tick ==
    /\ clock < area.time /\ clock' = clock + 1
    /\ nb' = SelectSeq(nb, LAMBDA e : clock + 1 - e.seen <= Ttl)
    /\ UNCHANGED <<area, list, idx, pend, site, picky, loaded, cc, known, on, moves, told, missed>>

CandidatesNext ==
    \/ NextCandidate
    \/ \E ch \in Channels : AnnounceSecondary(ch) \/ Iden(ch) \/ NoteFrequency(ch)
    \/ \E a \in Neighbours : AnnounceNeighbour(a)
    \/ SiteStatus \/ CarrierLost \/ Tick
    \/ \E s \in Sites : Select(s)

CandidatesSpec == CandidatesInit /\ [][CandidatesNext]_candidateVars

-----------------------------------------------------------------------------
(* Properties *)

CandidatesTypeOK ==
    /\ Len(list) <= CMax /\ idx \in 0 .. CMax /\ Listed(list) \subseteq Freqs
    /\ Len(pend) <= PMax /\ Len(nb) <= NMax
    /\ site \in Sites \cup {0} /\ cc \in Freqs /\ known \subseteq Channels
    /\ told.may \subseteq Freqs /\ told.must \subseteq Channels

(* Nothing is listed twice: a frequency announced again and again, from    *)
(* the air and from the cache, never pushes the others out.                *)
CandidatesDistinct == \A i, j \in DOMAIN list : list[i].freq = list[j].freq => i = j

(* A candidate that may be tried is tried within one round of the list,    *)
(* also while candidates are added and the oldest dropped.                 *)
OfferedInTurn == \A f \in Freqs : missed[f] < CMax

(* After the operator selected a site, only its own secondary control      *)
(* channels and its own cache feed the list; nothing announced by the site *)
(* before, and no line of the whole system's file, comes back.             *)
SelectedSiteOnly == picky => Listed(list) \subseteq told.may

(* Every secondary control channel of the site announced, before or after  *)
(* its IDEN, is a candidate, unless newer ones pushed it out or it is the  *)
(* control channel itself.                                                 *)
NothingLost == {FreqOf[c] : c \in told.must \cap known} \subseteq Listed(list) \/ Len(list) = CMax

(* No two neighbours are the same site: an announcement that names a       *)
(* system or a WACN an entry does not know refreshes it, whatever order    *)
(* they come in.                                                           *)
NeighboursDistinct ==
    LET Agree(x, y) == x = y \/ 0 \in {x, y}
    IN  \A i, j \in DOMAIN nb :
            ( /\ Identified(nb[i]) /\ Identified(nb[j]) /\ nb[i].site = nb[j].site
              /\ IF nb[i].site = 0 THEN nb[i].sys = nb[j].sys ELSE Agree(nb[i].sys, nb[j].sys)
              /\ Agree(nb[i].wacn, nb[j].wacn) ) => i = j

(* The list as a whole (trunk_cc_candidates.c, p25_cc_candidates.c): what  *)
(* the selected site announced is on it or waits for it, once and in turn, *)
(* and nothing of another site is; the neighbours are as many as there are *)
(* sites.                                                                  *)
CandidatesRight ==
    /\ CandidatesTypeOK /\ CandidatesDistinct /\ OfferedInTurn
    /\ SelectedSiteOnly /\ NothingLost /\ NeighboursDistinct
=============================================================================
