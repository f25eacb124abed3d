CONSTANTS
    MaxInt = 31
    Second = 10
    Unit <- MCUnit
    TimeUnit <- MCTimeUnit
    Numbers <- MCNumbers
    Lengths = {0, 1, 2, 3, 6, 31}
SPECIFICATION ConfigSpec
INVARIANTS SettingsFaithful BodyWhole
