SPECIFICATION FairSpec
CONSTANTS
    Pressures <- PressureBands
    NOMINAL = 2
    threshold = 6
    Recipes <- TwoRecipes
    MassTolerance = 1
    Increments <- OneOrTwo
PROPERTIES
    RecipeLimitEnforced
