SPECIFICATION PromoterSpec
CONSTANTS People = {p1, p2}
 Columns = {c1}
 Words = {w1}
 MIN_USERS = 2
 MIN_RUNS = 2
 MaxLines = 2
 MaxJobs = 2
INVARIANT NoneBeside
CHECK_DEADLOCK FALSE
