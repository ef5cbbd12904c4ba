SPECIFICATION AccessSpec
CONSTANTS
  Emails <- OneEmail
  Slug <- OwnSlug
  Tokens = {t1, t2, t3}
  Workers = {w1, w2}
  Visitors = {v1}
  Lifetime = 1
INVARIANT SingleUse
