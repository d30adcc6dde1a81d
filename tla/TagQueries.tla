----------------------------- MODULE TagQueries -----------------------------
(***************************************************************************)
(* JobRepository.CountTags (src/internal/repository/tags.go, lines        *)
(* 61-101), the read-only tag statistics query, evaluated on the tag and  *)
(* jobtag tables of JobTags as its handlers and goroutines change them.   *)
(* A tag is its (type, name) pair; TagName gives its name column, Owner   *)
(* the user column of a job.                                              *)
(***************************************************************************)
EXTENDS JobTags, FiniteSets

CONSTANTS
  TagName(_),  \* tag.tag_name of a tag
  Users,       \* values of job.user
  Owner(_),    \* job.user of a job
  NoUser       \* the nil *string of an unfiltered call (not in Users)

(* The jobtag rows the query counts for tag t: all of them, or with       *)
(* WHERE jt.job_id IN (SELECT id FROM job WHERE job.user = ?) those of    *)
(* the user's jobs.                                                        *)
Counted(t, u) == {p \in jobtag : p[2] = t /\ (u = NoUser \/ Owner(p[1]) = u)}

(* CountTags(user): SELECT * FROM tag (lines 63-74), then                  *)
(* t.tag_name, count(jt.tag_id) FROM tag t LEFT JOIN jobtag jt GROUP BY   *)
(* t.tag_name (lines 76-84), scanned into a map from name to count        *)
(* (lines 89-97).  A tag without rows yields a NULL join row: it counts   *)
(* 0 without the filter and fails the WHERE with it, so its name is then  *)
(* missing from the map.  A failed query returns an error and nothing     *)
(* else; the call changes no state.                                        *)
CountTags(u) ==
  LET grouped == {t \in tag : u = NoUser \/ Counted(t, u) # {}}
      names == {TagName(t) : t \in grouped}
  IN  [tags |-> tag,
       counts |-> [nm \in names |->
                    Cardinality(UNION {Counted(t, u) : t \in {x \in grouped : TagName(x) = nm}})]]

(* The count a caller reads for a name: a missing map key reads 0. *)
CountOf(m, nm) == IF nm \in DOMAIN m THEN m[nm] ELSE 0

(* A tag is identified by its (type, name) pair (spec.md 3, 4.3), so the  *)
(* statistics CountTags returns for every tag it lists are that tag's     *)
(* associations, for every user filter: grouping by tag_name alone merges *)
(* the counts of two tags of different types with one name.              *)
CountsPerTag ==
  \A u \in Users \cup {NoUser} :
    LET r == CountTags(u) IN
    \A t \in r.tags : CountOf(r.counts, TagName(t)) = Cardinality(Counted(t, u))

=============================================================================
