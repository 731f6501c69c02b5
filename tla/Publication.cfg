SPECIFICATION Spec
CONSTANTS
  Prompts = {p1}
  Sources = {s1, s2}
  Reviewers = {ann, ben}
  Requests = {t1, t2, t3}
  NoReviewer = NoReviewer
  MaxVersion = 3
SYMMETRY RequestSymmetry
INVARIANTS
  TypeOK
  ReviewedUnlessOvertaken
  CitationsResolve
