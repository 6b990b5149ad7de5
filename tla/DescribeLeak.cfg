SPECIFICATION RequestsSpec
CONSTANTS
    Threads = {t1}
    CallMax = 1
    MaxNow = 1
    Never = Never
    TokenLeft = 1
    MaxWrong = 2
INVARIANT DescribeWithholds
