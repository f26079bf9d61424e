------------------------------ MODULE Describe ------------------------------
(***************************************************************************)
(* How the events of a run are put to the networks: as a sentence for each *)
(* entity of a window (flash), or as a feature vector each (ppt).          *)
(***************************************************************************)
EXTENDS Features

VARIABLES
  said,  \* a sentence, of whom, from which window
  seen   \* the feature vectors, with the vocabularies and the events they were fitted on

descVars == <<said, seen>>

NoWords   == [of |-> Anyone, p |-> 0, strip |-> FALSE, words |-> <<>>]
NoVectors == [fit |-> 0, strip |-> FALSE, spec |-> Fit(<<>>), vectors |-> <<>>]

DescribeInit == said = NoWords /\ seen = NoVectors

DescribeTypeOK ==
  /\ said.of \in Entities \cup {Anyone} /\ said.p \in Positions \cup {0}
  /\ Len(said.words) <= MaxTokens
  /\ seen.fit \in 0..MaxRows
  /\ \A i \in DOMAIN seen.vectors : seen.vectors[i] \subseteq 0..EventDim - 1

(* An entity's sentence for a window in which it takes part.               *)
Say ==
  /\ \E p \in Yielded(rows), n \in Entities, strip \in BOOLEAN :
       /\ \E i \in At(rows, p) : SidesOf(rows[i].e, n) # <<>>
       /\ said' = [of |-> n, p |-> p, strip |-> strip, words |-> Sentence(rows, p, n, strip)]
  /\ UNCHANGED seen

(* The vocabularies are fitted on the first events of the table, those of  *)
(* training, and all its events turned into vectors.                       *)
Vectorize ==
  /\ \E k \in DOMAIN rows, strip \in BOOLEAN :
       LET spec == Fit(SubSeq(rows, 1, k))
       IN  seen' = [fit |-> k, strip |-> strip, spec |-> spec,
                    vectors |-> [i \in DOMAIN rows |-> Vector(rows[i].e, spec, strip)]]
  /\ UNCHANGED said

DescribeNext == said = NoWords /\ seen = NoVectors /\ (Say \/ Vectorize)

----------------------------------------------------------------------------
(* A sentence leaves no kind of behaviour out: each is told as often as it *)
(* occurs up to MaxRepeats, or, when the sentence is thinned, still shows; *)
(* and it keeps what must not be learned from it to itself, the name that  *)
(* somebody else asks for and the verdicts when they are stripped          *)
(* (sentences.py:139-172, 209-230).                                        *)
SentenceTellsAll ==
  said # NoWords =>
    LET items    == Items(rows, said.p, said.of, said.strip)
        sigs     == {items[k].toks : k \in DOMAIN items}
        times(s) == LET n == Cardinality({k \in DOMAIN items : items[k].toks = s})
                    IN  IF n <= MaxRepeats THEN n ELSE MaxRepeats
        uses(t, words) == Cardinality({k \in DOMAIN words : words[k] = t})
        total    == Total([s \in sigs |-> times(s) * Len(s)])
        words    == said.words
    IN  /\ IF total <= MaxTokens
           THEN /\ Len(words) = total
                /\ \A t \in Range(words) :
                     uses(t, words) = Total([s \in sigs |-> times(s) * uses(t, s)])
           ELSE /\ Len(words) = MaxTokens
                /\ \A s \in sigs :
                     total <= MaxTokens * Len(s) => Range(s) \cap Range(words) # {}
        /\ \A t \in Range(words) :
             /\ t[1] = "name" => \E i \in At(rows, said.p) :
                  rows[i].e.src = said.of /\ rows[i].e.type = "DNS_QUERY"
             /\ t[1] = "verdict" => ~ said.strip

(* Two events have the same vector just when they are of the same type and *)
(* agree in every field, up to words outside the vocabulary, which are the *)
(* least frequent in training, and to stripped verdicts; events of         *)
(* different types have no slot in common (ppt/features.py:117, 181-276).  *)
FeaturesTellApart ==
  seen # NoVectors =>
    LET trained   == SubSeq(rows, 1, seen.fit)
        count(f, w) == Cardinality({i \in DOMAIN trained :
                         LET F == Fields[trained[i].e.look] IN f \in DOMAIN F /\ F[f] = w})
        foreign(f, w) == w \notin DOMAIN seen.spec[f] /\ (f = "name" => w > 1)
        agree(F, G, f) ==
          \/ F[f] = G[f]
          \/ f \in DOMAIN seen.spec /\ foreign(f, F[f]) /\ foreign(f, G[f])
          \/ f = "reporter_views" /\ 2 \notin {F[f], G[f]}
          \/ f \in {"verdict", "drop_reason"} /\ seen.strip
    IN  \A i, j \in DOMAIN rows :
          LET F == Fields[rows[i].e.look]
              G == Fields[rows[j].e.look]
          IN  IF rows[i].e.type # rows[j].e.type
              THEN seen.vectors[i] \cap seen.vectors[j] = {}
              ELSE /\ seen.vectors[i] = seen.vectors[j] <=> \A f \in DOMAIN F : agree(F, G, f)
                   /\ \A f \in DOMAIN F \cap DOMAIN seen.spec :
                        foreign(f, F[f]) /\ ~ foreign(f, G[f]) /\ G[f] \in DOMAIN seen.spec[f] =>
                          count(f, F[f]) <= count(f, G[f])
=============================================================================
