SPECIFICATION FairSpec
CONSTANTS
  dotfiles = dotfiles  project = project
  Repos = {dotfiles, project}
  e1 = e1  e2 = e2
  Execs = {e1, e2}
  Extensions = {x1}
  Blank = {project}
  Urls <- MCUrls
  Plans <- MCPlans
INVARIANTS
  SuccessIsTrue
  EveryoneTried
PROPERTIES
  SetupEnds
